----------------------------- MODULE Monitoring -----------------------------
(***************************************************************************)
(* Recording check results: backend/app/services/monitoring.py together    *)
(* with its callers - the scheduler's check cycle (services/scheduler.py), *)
(* the background re-check pool, and the HTTP handlers of                  *)
(* api/routers/hostname.py.                                                *)
(*                                                                         *)
(* The database is SQLite through SQLAlchemy sessions with                 *)
(* autoflush=False and expire_on_commit=True (db/session.py):              *)
(*   - a SELECT outside a write is its own transaction, so what a session  *)
(*     has loaded may be stale when it writes;                             *)
(*   - from its first UPDATE to its COMMIT a session holds the one write   *)
(*     lock, so the writes of record_check are a single step;              *)
(*   - the ORM writes a column only when its value differs from the one    *)
(*     the session loaded, and an UPDATE that matches no row raises        *)
(*     StaleDataError;                                                     *)
(*   - after a commit or a rollback every loaded object is expired, and    *)
(*     touching one whose row has gone raises ObjectDeletedError;          *)
(*   - row ids are max(id) + 1, so the id of a deleted last row is reused. *)
(*                                                                         *)
(* A check result is abstracted to its blacklist outcome.  EventDetection  *)
(* models the detection of every kind of event in detail.                  *)
(*                                                                         *)
(* Definitions named Wrong... are faulty variants of the definition that   *)
(* follows them.  No specification uses them: they are what each property  *)
(* is tested against.                                                      *)
(***************************************************************************)
EXTENDS Naturals, Sequences

CONSTANTS
    MaxAssets,  \* bound: asset ids are 1..MaxAssets
    MaxChecks,  \* bound: check ids are 1..MaxChecks
    Cycle,      \* the thread that holds _cycle_lock and runs run_cycle
    Workers,    \* the threads of _recheck_pool
    Requests,   \* HTTP request threads
    Outcomes,   \* the blacklist outcomes a check may have
    NoToggles,  \* the assets with every check_* toggle off
    Deletable,  \* the assets a user may delete
    MayFail,    \* TRUE: a write may fail ("database is locked")
    MayCrash    \* TRUE: the process may be killed and restarted

Assets == 1..MaxAssets
Actors == {Cycle} \cup Workers \cup Requests

\* A run is inconclusive when too many lists failed, whatever the others said:
\* "partial" with a listing among them, "unclear" without one.  "error": the
\* DNSBL check raised, so the result holds no usable blacklist outcome.
AllOutcomes == {"listed", "clean", "partial", "unclear", "error"}
Conclusive  == {"listed", "clean"}

ASSUME BoundsAssumption == MaxAssets \in Nat /\ MaxChecks \in Nat
ASSUME ActorsAssumption ==
    /\ Cycle \notin Workers \cup Requests
    /\ Workers \cap Requests = {}
ASSUME ChoicesAssumption ==
    /\ Outcomes \subseteq AllOutcomes
    /\ NoToggles \subseteq Assets /\ Deletable \subseteq Assets
    /\ MayFail \in BOOLEAN /\ MayCrash \in BOOLEAN

VARIABLES
    exists,     \* hostnames: the row of this id exists
    monitored,  \* is_monitor_enabled and status = "active"
    fresh,      \* last_checked is set and less than one interval ago
    flag,       \* hostnames.is_blacklisted
    checks,     \* the rows of check_histories
    told,       \* the kind of the asset's last blacklist event
    queued,     \* _queued: ids with a re-check waiting or running
    pending,    \* the pool's FIFO of submitted jobs
    skip,       \* what queued_recheck_ids() returned to this cycle
    loaded,     \* is_blacklisted as the cycle's session first loaded it
    expired,    \* the cycle's session has committed or rolled back
    todo,       \* assets of this cycle whose result is not yet handled
    session,    \* per actor: where it is and what it has read
    doomed      \* per request: the child rows a delete has loaded

db     == <<exists, monitored, fresh, flag, checks, told>>
pool   == <<queued, pending>>
cycle  == <<skip, loaded, expired, todo>>
vars   == <<db, pool, cycle, session, doomed>>

CheckRow == [id: 1..MaxChecks, asset: Assets,
             status: {"current", "historical"}, outcome: AllOutcomes]
EventKind == {"none", "listed", "delisted"}

PC == {"idle", "selecting", "saving", "created", "loaded", "recording",
       "saved", "failed", "finishing", "deleting"}

\* What an actor's session holds: the asset it works on, is_blacklisted as it
\* loaded it, the previous result it read, and the result it will save.
Session ==
    {s \in [pc: PC, asset: 0..MaxAssets, flag: BOOLEAN,
            prev: AllOutcomes \cup {"none"}, result: AllOutcomes \cup {"none"}] :
        /\ s.pc \notin {"idle", "selecting", "saving"} => s.asset \in Assets
        /\ s.pc = "recording" => s.result \in AllOutcomes}
Working(pc, a, f) == [pc |-> pc, asset |-> a, flag |-> f,
                      prev |-> "none", result |-> "none"]
At(pc) == Working(pc, 0, FALSE)
Goto(x, pc) == session' = [session EXCEPT ![x] = [@ EXCEPT !.pc = pc]]
Leave(x)    == session' = [session EXCEPT ![x] = At("idle")]

TypeOK ==
    /\ exists \in [Assets -> BOOLEAN]
    /\ monitored \in [Assets -> BOOLEAN]
    /\ fresh \in [Assets -> BOOLEAN]
    /\ flag \in [Assets -> BOOLEAN]
    /\ checks \subseteq CheckRow
    /\ told \in [Assets -> EventKind]
    /\ queued \subseteq Assets
    /\ pending \in Seq(Assets)
    /\ skip \subseteq Assets
    /\ loaded \in [Assets -> BOOLEAN]
    /\ expired \in BOOLEAN
    /\ todo \subseteq Assets
    /\ session \in [Actors -> Session]
    /\ doomed \in [Requests -> SUBSET (1..MaxChecks)]

Init ==
    /\ exists = [a \in Assets |-> FALSE]
    /\ monitored = [a \in Assets |-> FALSE]
    /\ fresh = [a \in Assets |-> FALSE]
    /\ flag = [a \in Assets |-> FALSE]
    /\ checks = {}
    /\ told = [a \in Assets |-> "none"]
    /\ queued = {}
    /\ pending = <<>>
    /\ skip = {}
    /\ loaded = [a \in Assets |-> FALSE]
    /\ expired = FALSE
    /\ todo = {}
    /\ session = [x \in Actors |-> At("idle")]
    /\ doomed = [r \in Requests |-> {}]

-----------------------------------------------------------------------------
(* SQLite: the id of the next row of a table is max(id) + 1. *)

NewCheckId(i) ==
    /\ i \in 1..MaxChecks
    /\ \A c \in checks : c.id < i
    /\ i > 1 => \E c \in checks : c.id = i - 1

NewAssetId(a) ==
    /\ a \in Assets
    /\ \A b \in Assets : exists[b] => b < a
    /\ a > 1 => exists[a - 1]

-----------------------------------------------------------------------------
(* record_check, the one way a result is saved. *)

\* latest_check: p is the outcome of the newest current row of the asset,
\* "none" without such a row.
LatestOutcome(a, p) ==
    LET rows == {c \in checks : c.asset = a /\ c.status = "current"}
    IN  IF rows = {} THEN p = "none"
        ELSE \E c \in rows : c.outcome = p /\ \A d \in rows : d.id <= c.id

\* previous = latest_check(db, hostname.id): a read before the write lock.
\* The measured result is chosen here; it depends on the network alone.
ReadPrevious(x) ==
    /\ session[x].pc \in {"created", "loaded"}
    /\ \E o \in Outcomes, p \in AllOutcomes \cup {"none"} :
         /\ LatestOutcome(session[x].asset, p)
         /\ session' = [session EXCEPT ![x] =
                          [@ EXCEPT !.pc = "recording", !.prev = p, !.result = o]]
    /\ UNCHANGED <<db, pool, cycle, doomed>>

\* Without the update to historical.
WrongMarkHistorical(rows, a) == rows

\* A status that no reader knows.
WrongStatusWritten(rows, a) ==
    {IF c.asset = a THEN [c EXCEPT !.status = "history"] ELSE c : c \in rows}

\* The update of every current row of the asset to historical.
MarkHistorical(rows, a) ==
    {IF c.asset = a THEN [c EXCEPT !.status = "historical"] ELSE c : c \in rows}

\* Every run decides, even one without a usable outcome.
WrongFlagWritten(s) == s.result = "listed"

\* is_blacklisted after the flush: a conclusive result sets it in the session,
\* and the ORM writes the column only when that differs from what was loaded.
FlagWritten(s) ==
    LET listed == s.result = "listed"
    IN  IF s.result \in Conclusive /\ listed # s.flag THEN listed
        ELSE flag[s.asset]

\* Only the previous result is asked, as if every run had a usable outcome.
WrongDetectedKind(s) ==
    CASE s.result = "listed" /\ s.prev # "listed" -> "listed"
      [] s.result = "clean" /\ s.prev = "listed"  -> "delisted"
      [] OTHER                                    -> "none"

\* An event for every check that finds a listing.
WrongTransition(s) ==
    CASE s.result = "listed"        -> "listed"
      [] s.result = "clean" /\ s.flag -> "delisted"
      [] OTHER                      -> "none"

\* The blacklist part of detect_events, for one list: an earlier usable
\* outcome, conclusive or not, decides "was listed", otherwise the loaded
\* is_blacklisted does.
DetectedKind(s) ==
    LET was == IF s.prev \in AllOutcomes \ {"error"}
               THEN s.prev \in {"listed", "partial"} ELSE s.flag
    IN  CASE s.result = "listed" /\ ~was -> "listed"
          [] s.result = "clean" /\ was   -> "delisted"
          [] OTHER                       -> "none"

\* Where each kind of caller goes on once record_check has returned or raised.
AfterRecord(x, cyclePC) ==
    /\ CASE x = Cycle      -> Goto(x, cyclePC)
         [] x \in Workers  -> Goto(x, "finishing")
         [] x \in Requests -> Leave(x)
    /\ expired' = (expired \/ x = Cycle)

\* last_checked always changes, so the flush updates the asset's row and
\* raises StaleDataError when there is none.
RowMatched(a) == exists[a]

\* From the UPDATE that takes the write lock to db.commit(), in one step.
Save(x) ==
    LET s == session[x]
        a == s.asset
        k == DetectedKind(s)
    IN  /\ s.pc = "recording"
        /\ RowMatched(a)
        /\ \E i \in 1..MaxChecks :
             /\ NewCheckId(i)
             /\ checks' = MarkHistorical(checks, a) \cup
                            {[id |-> i, asset |-> a, status |-> "current",
                              outcome |-> s.result]}
        /\ told' = [told EXCEPT ![a] = IF k = "none" THEN @ ELSE k]
        /\ flag' = [flag EXCEPT ![a] = FlagWritten(s)]
        /\ fresh' = [fresh EXCEPT ![a] = TRUE]
        /\ AfterRecord(x, "saved")
        /\ UNCHANGED <<exists, monitored, pool, skip, loaded, todo, doomed>>

\* The asset's row has gone, so the flush raises StaleDataError, or the write
\* lock could not be had in time; the caller rolls back.
SaveFails(x) ==
    /\ session[x].pc = "recording"
    /\ ~RowMatched(session[x].asset) \/ MayFail
    /\ AfterRecord(x, "failed")
    /\ UNCHANGED <<db, pool, skip, loaded, todo, doomed>>

-----------------------------------------------------------------------------
(* The check cycle. *)

\* run_cycle takes _cycle_lock; due_hostnames first asks what is queued ...
StartCycle ==
    /\ session[Cycle].pc = "idle"
    /\ skip' = queued
    /\ Goto(Cycle, "selecting")
    /\ UNCHANGED <<db, pool, loaded, expired, todo, doomed>>

Due(a) == exists[a] /\ monitored[a] /\ ~fresh[a]

\* ... and then queries the assets.  Every due asset is checked in parallel
\* before the first result is saved.
SelectDue ==
    /\ session[Cycle].pc = "selecting"
    /\ todo' = {a \in Assets : Due(a) /\ a \notin skip}
    /\ loaded' = [a \in Assets |-> flag[a] /\ a \in todo']
    /\ expired' = FALSE
    /\ skip' = {}
    /\ Goto(Cycle, "saving")
    /\ UNCHANGED <<db, pool, doomed>>

\* results.get(hostname.id): an expired object is loaded again.
NextResult(a) ==
    /\ session[Cycle].pc = "saving"
    /\ a \in todo \ NoToggles
    /\ expired => exists[a]
    /\ session' = [session EXCEPT ![Cycle] =
                     Working("loaded", a, IF expired THEN flag[a] ELSE loaded[a])]
    /\ UNCHANGED <<db, pool, cycle, doomed>>

\* No toggle was on: the result is empty and nothing is saved.
SkipEmpty(a) ==
    /\ session[Cycle].pc = "saving"
    /\ a \in todo \cap NoToggles
    /\ expired => exists[a]
    /\ todo' = todo \ {a}
    /\ UNCHANGED <<db, pool, skip, loaded, expired, session, doomed>>

\* The log line after a save, or after a failed one, reads the expired object.
NextAsset ==
    LET a == session[Cycle].asset
    IN  /\ session[Cycle].pc \in {"saved", "failed"}
        /\ exists[a]
        /\ todo' = todo \ {a}
        /\ session' = [session EXCEPT ![Cycle] = At("saving")]
        /\ UNCHANGED <<db, pool, skip, loaded, expired, doomed>>

EndOfCycle ==
    /\ todo' = {}
    /\ loaded' = [a \in Assets |-> FALSE]
    /\ expired' = FALSE
    /\ Leave(Cycle)
    /\ UNCHANGED <<skip, pool, doomed>>

\* A save that fails is taken for an error of the whole cycle.
WrongLoopRaises ==
    \/ session[Cycle].pc = "failed"
    \/ session[Cycle].pc = "saved" /\ ~exists[session[Cycle].asset]

\* ObjectDeletedError in the save loop itself, outside the inner handler.
LoopRaises ==
    \/ session[Cycle].pc = "saving" /\ expired /\ \E a \in todo : ~exists[a]
    \/ session[Cycle].pc \in {"saved", "failed"} /\ ~exists[session[Cycle].asset]

\* The outer handler ends the cycle; what was left in the loop is dropped.
AbortCycle ==
    /\ LoopRaises
    /\ EndOfCycle
    /\ UNCHANGED db

\* Without the filter on the status.
WrongPrune(k) ==
    /\ checks' = {c \in checks : c.id > k}
    /\ UNCHANGED <<exists, monitored, fresh, flag, told>>

\* prune_history: historical checks older than a cutoff.  It deletes old events
\* as well; told is what was last said, whether or not the log still has it.
Prune(k) ==
    /\ checks' = {c \in checks : ~(c.status = "historical" /\ c.id <= k)}
    /\ UNCHANGED <<exists, monitored, fresh, flag, told>>

\* _maybe_prune ends a cycle; the cutoff 0 stands for "not this time".
FinishCycle ==
    /\ session[Cycle].pc = "saving"
    /\ todo = {}
    /\ \E k \in 0..MaxChecks : Prune(k)
    /\ EndOfCycle

-----------------------------------------------------------------------------
(* The background re-check pool. *)

\* An id that is already waiting is submitted again.
WrongQueueable(a) == exists[a] /\ a \notin {pending[i] : i \in 2..Len(pending)}

Queueable(a) == exists[a] /\ a \notin queued

\* queue_rechecks, for one id of the list, under _queued_lock.
QueueRecheck(a) ==
    /\ Queueable(a)
    /\ queued' = queued \cup {a}
    /\ pending' = Append(pending, a)
    /\ UNCHANGED <<db, cycle, session, doomed>>

\* _recheck_one: load the asset, or finish at once when it has gone or when
\* its result is empty.
StartJob(w) ==
    /\ session[w].pc = "idle"
    /\ pending # <<>>
    /\ LET a == Head(pending)
           next == IF exists[a] /\ a \notin NoToggles THEN "loaded" ELSE "finishing"
       IN  session' = [session EXCEPT ![w] = Working(next, a, flag[a])]
    /\ pending' = Tail(pending)
    /\ UNCHANGED <<db, queued, cycle, doomed>>

\* The early return for an asset that has gone leaves its id in the set.
WrongRelease(ids, a) == IF exists[a] THEN ids \ {a} ELSE ids

Release(ids, a) == ids \ {a}

\* The finally clause: the id is released only after the commit.
FinishJob(w) ==
    /\ session[w].pc = "finishing"
    /\ queued' = Release(queued, session[w].asset)
    /\ Leave(w)
    /\ UNCHANGED <<db, pending, cycle, doomed>>

-----------------------------------------------------------------------------
(* HTTP requests. *)

\* last_checked left empty on creation.
WrongLastChecked(checked) == FALSE

\* last_checked of a new row: now when its first check runs in the request.
LastChecked(checked) == checked

\* The columns of a new row.
Insert(a, on, checked) ==
    /\ NewAssetId(a)
    /\ exists' = [exists EXCEPT ![a] = TRUE]
    /\ monitored' = [monitored EXCEPT ![a] = on]
    /\ fresh' = [fresh EXCEPT ![a] = LastChecked(checked)]
    /\ flag' = [flag EXCEPT ![a] = FALSE]
    /\ told' = [told EXCEPT ![a] = "none"]
    /\ UNCHANGED checks

\* create_hostname up to its first commit: the row says "checked now", and
\* the first check runs in this request.
Create(r, a, on) ==
    /\ session[r].pc = "idle"
    /\ Insert(a, on, TRUE)
    /\ session' = [session EXCEPT ![r] = IF a \in NoToggles THEN At("idle")
                                         ELSE Working("created", a, FALSE)]
    /\ UNCHANGED <<pool, cycle, doomed>>

\* create_hostnames_bulk and import_cidr, one row: never checked yet.
BulkCreate(a, on) ==
    /\ Insert(a, on, FALSE)
    /\ UNCHANGED <<pool, cycle, session, doomed>>

\* recheck_hostname loads the asset, then checks and records.
Recheck(r, a) ==
    /\ session[r].pc = "idle"
    /\ exists[a] /\ a \notin NoToggles
    /\ session' = [session EXCEPT ![r] = Working("loaded", a, flag[a])]
    /\ UNCHANGED <<db, pool, cycle, doomed>>

\* update_hostname and the monitoring switches of bulk_action.
SetMonitored(a) ==
    /\ exists[a]
    /\ monitored' = [monitored EXCEPT ![a] = ~@]
    /\ UNCHANGED <<exists, fresh, flag, checks, told, pool, cycle, session, doomed>>

\* delete_hostname: db.delete loads the asset's checks and events ...
Delete(r, a) ==
    /\ session[r].pc = "idle"
    /\ a \in Deletable /\ exists[a]
    /\ doomed' = [doomed EXCEPT ![r] =
                    {c.id : c \in {d \in checks : d.asset = a}}]
    /\ session' = [session EXCEPT ![r] = Working("deleting", a, FALSE)]
    /\ UNCHANGED <<db, pool, cycle>>

\* ... and the commit deletes the rows it had loaded, by primary key.
CommitDelete(r) ==
    LET a == session[r].asset
    IN  /\ session[r].pc = "deleting"
        /\ exists' = [exists EXCEPT ![a] = FALSE]
        /\ monitored' = [monitored EXCEPT ![a] = FALSE]
        /\ fresh' = [fresh EXCEPT ![a] = FALSE]
        /\ flag' = [flag EXCEPT ![a] = FALSE]
        /\ told' = [told EXCEPT ![a] = "none"]
        /\ checks' = {c \in checks : c.id \notin doomed[r]}
        /\ doomed' = [doomed EXCEPT ![r] = {}]
        /\ Leave(r)
        /\ UNCHANGED <<pool, cycle>>

-----------------------------------------------------------------------------
(* The environment. *)

\* An interval passes since the last check.  It is longer than the checks that
\* a create request runs once it has set last_checked.
Elapse(a) ==
    /\ exists[a] /\ fresh[a]
    /\ \A r \in Requests : session[r].pc = "created" => session[r].asset # a
    /\ fresh' = [fresh EXCEPT ![a] = FALSE]
    /\ UNCHANGED <<exists, monitored, flag, checks, told, pool, cycle, session, doomed>>

\* The process dies and starts again: only the database survives.
Crash ==
    /\ MayCrash
    /\ queued' = {} /\ pending' = <<>>
    /\ skip' = {} /\ todo' = {} /\ expired' = FALSE
    /\ loaded' = [a \in Assets |-> FALSE]
    /\ session' = [x \in Actors |-> At("idle")]
    /\ doomed' = [r \in Requests |-> {}]
    /\ UNCHANGED db

-----------------------------------------------------------------------------

CycleStep ==
    \/ SelectDue \/ NextAsset \/ AbortCycle \/ FinishCycle
    \/ \E a \in Assets : NextResult(a) \/ SkipEmpty(a)

RequestStep(r) ==
    \/ \E a \in Assets : Recheck(r, a) \/ Delete(r, a)
    \/ \E a \in Assets, on \in BOOLEAN : Create(r, a, on)
    \/ CommitDelete(r)

Next ==
    \/ \E x \in Actors : ReadPrevious(x) \/ Save(x) \/ SaveFails(x)
    \/ StartCycle \/ CycleStep
    \/ \E w \in Workers : StartJob(w) \/ FinishJob(w)
    \/ \E r \in Requests : RequestStep(r)
    \/ \E a \in Assets : QueueRecheck(a) \/ SetMonitored(a) \/ Elapse(a)
    \/ \E a \in Assets, on \in BOOLEAN : BulkCreate(a, on)
    \/ Crash

Spec == Init /\ [][Next]_vars

\* The poll loop runs cycle after cycle, and a thread that has work goes on.
\* Users and time are not obliged to do anything.
Fairness ==
    /\ WF_vars(StartCycle)
    /\ WF_vars(CycleStep)
    /\ \A x \in Actors : WF_vars(ReadPrevious(x) \/ Save(x) \/ SaveFails(x))
    /\ \A w \in Workers : WF_vars(StartJob(w)) /\ WF_vars(FinishJob(w))
    /\ \A r \in Requests : WF_vars(CommitDelete(r))

FairSpec == Spec /\ Fairness

-----------------------------------------------------------------------------
(* Safety. *)

\* At most one row of an asset is current, and it is the newest row the asset
\* has, however many sessions record a result for it at once.  Readers
\* (latest_check, _latest_checks) and the pruning depend on it.
CurrentIsTheNewest ==
    \A c, d \in checks :
        c.status = "current" /\ d.asset = c.asset /\ d # c => d.id < c.id

\* The current result of an asset goes away only when a newer one takes its
\* place or the asset is deleted; pruning the history never takes it
\* (prune_history: "The current result of every asset is always kept").
CurrentIsKept ==
    [][\A c \in checks : c.status = "current" /\ exists'[c.asset] =>
         \E d \in checks' : /\ d.asset = c.asset /\ d.status = "current"
                            /\ d.id >= c.id]_vars

\* is_blacklisted is what the newest conclusive check of the asset found:
\* inconclusive and errored runs keep it, conclusive ones set it.
FlagIsLastConclusive ==
    \A c \in checks :
        (/\ c.outcome \in Conclusive
         /\ \A d \in checks : d.asset = c.asset /\ d.outcome \in Conclusive
                               => d.id <= c.id)
        => (flag[c.asset] <=> c.outcome = "listed")

\* What the activity log and the alerts last said of an asset is what its
\* is_blacklisted says: no listing and no delisting goes unreported.
ToldMatchesFlag == \A a \in Assets : flag[a] <=> told[a] = "listed"

\* Only transitions become events: a check never reports what the asset's
\* last event already said.
OnlyTransitions ==
    [][\A x \in Actors : Save(x) =>
         DetectedKind(session[x]) # told[session[x].asset] \/
         DetectedKind(session[x]) = "none"]_vars

\* A cycle that ends has handled the result of every asset it checked, or the
\* asset is gone: neither one failed save nor one vanished asset costs the
\* others their results.
CycleKeepsResults ==
    [][session[Cycle].pc # "idle" /\ session'[Cycle].pc = "idle" =>
         \A a \in todo : ~exists[a]]_vars

\* The ids in _queued are those of the jobs waiting in the pool or running,
\* and no asset has two such jobs: the set read without the pool's own queue
\* (queued_recheck_ids) is never out of step with it.
Waiting == {pending[i] : i \in DOMAIN pending}
Running == {w \in Workers : session[w].pc # "idle"}

QueueMatchesPool ==
    /\ queued = Waiting \cup {session[w].asset : w \in Running}
    /\ \A i, j \in DOMAIN pending : pending[i] = pending[j] => i = j
    /\ \A w \in Running : session[w].asset \notin Waiting
    /\ \A v, w \in Running : session[v].asset = session[w].asset => v = w

\* A cycle never takes up an asset whose first check is still running in the
\* request that created it (create_hostname marks it checked for that).
CreatedIsNotDue ==
    [][session[Cycle].pc = "selecting" /\ session'[Cycle].pc = "saving" =>
         \A r \in Requests : session[r].pc = "created"
                              => session[r].asset \notin todo']_vars

-----------------------------------------------------------------------------
(* Liveness.  Full: the bound on check rows is reached and saving stops. *)

Full == \E c \in checks : c.id = MaxChecks

\* A queued re-check is done with at some point and its id released, also
\* when its asset has been deleted or its save has failed.
RecheckFinishes == \A a \in Assets : a \in queued ~> (a \notin queued \/ Full)

\* An asset that is due, and stays monitored, is checked at some point.
DueIsChecked ==
    \A a \in Assets \ NoToggles :
        Due(a) ~> (~Due(a) \/ Full)
=============================================================================
