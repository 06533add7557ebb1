--------------------------- MODULE SchedulerControl ---------------------------
(***************************************************************************)
(* Starting, stopping and restarting the scheduler's poll thread while     *)
(* check cycles run: start_scheduler, stop_scheduler, restart_scheduler    *)
(* and the poll loop of backend/app/services/scheduler.py, with the        *)
(* settings handlers of api/routers/settings.py that call them.  What a    *)
(* cycle does is the subject of Monitoring; here it is held or not.        *)
(*                                                                         *)
(* Handlers run in a thread pool, so two requests interleave.  Each step   *)
(* of theirs touches one shared thing: the settings row, _stop_event,      *)
(* _scheduler_thread, or the state of the thread it refers to.             *)
(*                                                                         *)
(* Definitions named Wrong... are faulty variants of the definition that   *)
(* follows them, used only to test the properties.                         *)
(***************************************************************************)
EXTENDS Naturals

CONSTANTS
    None,      \* no thread
    Threads,   \* bound: the poll threads alive or referred to at one time
    Requests,  \* request threads saving the scheduler settings
    Manual,    \* threads of "Check due assets now"
    LongCycles \* the cases: whether cycles may outlast join(timeout=5)

\* Assumed where this module is instantiated.
ControlAssumption ==
    /\ None \notin Threads \cup Manual
    /\ Threads \cap Manual = {}
    /\ LongCycles \subseteq BOOLEAN

VARIABLES
    long,      \* cycles may take longer than join(timeout=5); never changes
    enabled,   \* app_settings.scheduler_enabled
    stop,      \* _stop_event
    scheduler, \* _scheduler_thread
    thread,    \* per poll thread: where it is
    holder,    \* the thread that holds _cycle_lock, or None
    manual,    \* per thread of a manual run: where it is
    request,   \* per request: where it is
    wanted,    \* per request: scheduler_enabled as it read it back
    joined     \* per request: the thread it joins

threads  == <<thread, holder, manual>>
requests == <<request, wanted, joined>>
vars     == <<long, enabled, stop, scheduler, threads, requests>>

\* A thread is alive from Thread.start() until it has returned.
Polling  == {"testing", "waiting", "woken", "cycling"}
Alive(t) == thread[t] \in Polling \cup {"returning"}

TypeOK ==
    /\ long \in LongCycles
    /\ enabled \in BOOLEAN
    /\ stop \in BOOLEAN
    /\ scheduler \in Threads \cup {None}
    /\ thread \in [Threads -> Polling \cup {"returning", "unused", "created"}]
    /\ holder \in Threads \cup Manual \cup {None}
    /\ manual \in [Manual -> {"idle", "started", "cycling"}]
    /\ request \in [Requests -> {"idle", "committed", "stopping", "stopped",
                                 "joining", "clearing", "asking", "resetting",
                                 "spawning", "launching"}]
    /\ wanted \in [Requests -> BOOLEAN]
    /\ joined \in [Requests -> Threads \cup {None}]

\* lifespan has called start_scheduler(), which reads the settings row.
Init ==
    /\ long \in LongCycles
    /\ enabled \in BOOLEAN
    /\ stop = FALSE
    /\ scheduler \in IF enabled THEN Threads ELSE {None}
    /\ thread = [t \in Threads |-> IF t = scheduler THEN "testing" ELSE "unused"]
    /\ holder = None
    /\ manual = [m \in Manual |-> "idle"]
    /\ request = [r \in Requests |-> "idle"]
    /\ wanted = [r \in Requests |-> FALSE]
    /\ joined = [r \in Requests |-> None]

-----------------------------------------------------------------------------
(* The poll loop, _run_scheduled_checks. *)

MoveThread(t, from, to) == thread[t] = from /\ thread' = [thread EXCEPT ![t] = to]

TestStop(t) ==
    /\ MoveThread(t, "testing", IF stop THEN "returning" ELSE "waiting")
    /\ UNCHANGED <<long, enabled, stop, scheduler, holder, manual, requests>>

\* _stop_event.wait(60) ends, after the time or because the event is set.
EndWait(t) ==
    /\ MoveThread(t, "waiting", "woken")
    /\ UNCHANGED <<long, enabled, stop, scheduler, holder, manual, requests>>

BreakLoop(t) ==
    /\ stop
    /\ MoveThread(t, "woken", "returning")
    /\ UNCHANGED <<long, enabled, stop, scheduler, holder, manual, requests>>

\* The lock is taken whoever has it.
WrongLockFree == TRUE

LockFree == holder = None

\* run_cycle, which returns -1 at once when a cycle is already running.
RunCycle(t) ==
    /\ ~stop
    /\ MoveThread(t, "woken", IF LockFree THEN "cycling" ELSE "testing")
    /\ holder' = IF LockFree THEN t ELSE holder
    /\ UNCHANGED <<long, enabled, stop, scheduler, manual, requests>>

\* An error in the cycle ends the loop.
WrongEndCycle(t) ==
    /\ MoveThread(t, "cycling", "returning")
    /\ holder' = None
    /\ UNCHANGED <<long, enabled, stop, scheduler, manual, requests>>

\* Whatever happened in the cycle, run_cycle returns and the loop goes on.
EndCycle(t) ==
    /\ MoveThread(t, "cycling", "testing")
    /\ holder' = None
    /\ UNCHANGED <<long, enabled, stop, scheduler, manual, requests>>

Return(t) ==
    /\ MoveThread(t, "returning", "unused")
    /\ UNCHANGED <<long, enabled, stop, scheduler, holder, manual, requests>>

-----------------------------------------------------------------------------
(* run_scheduler_now and the thread it starts. *)

MoveManual(m, from, to) == manual[m] = from /\ manual' = [manual EXCEPT ![m] = to]

\* Refused with 409 while a cycle runs.
RunNow(m) ==
    /\ LockFree
    /\ MoveManual(m, "idle", "started")
    /\ UNCHANGED <<long, enabled, stop, scheduler, thread, holder, requests>>

RunManualCycle(m) ==
    /\ MoveManual(m, "started", IF LockFree THEN "cycling" ELSE "idle")
    /\ holder' = IF LockFree THEN m ELSE holder
    /\ UNCHANGED <<long, enabled, stop, scheduler, thread, requests>>

EndManualCycle(m) ==
    /\ MoveManual(m, "cycling", "idle")
    /\ holder' = None
    /\ UNCHANGED <<long, enabled, stop, scheduler, thread, requests>>

-----------------------------------------------------------------------------
(* update_scheduler_settings. *)

MoveRequest(r, from, to) == request[r] = from /\ request' = [request EXCEPT ![r] = to]

Save(r, on) ==
    /\ enabled' = on
    /\ MoveRequest(r, "idle", "committed")
    /\ UNCHANGED <<long, stop, scheduler, threads, wanted, joined>>

\* db.refresh(row) reads the row again after the commit.
ReadBack(r) ==
    /\ MoveRequest(r, "committed", "stopping")
    /\ wanted' = [wanted EXCEPT ![r] = enabled]
    /\ UNCHANGED <<long, enabled, stop, scheduler, threads, joined>>

\* stop_scheduler, called first whether the scheduler is stopped or restarted.
SetStop(r) ==
    /\ stop' = TRUE
    /\ MoveRequest(r, "stopping", "stopped")
    /\ UNCHANGED <<long, enabled, scheduler, threads, wanted, joined>>

BeginJoin(r) ==
    /\ MoveRequest(r, "stopped", "joining")
    /\ joined' = [joined EXCEPT ![r] = scheduler]
    /\ UNCHANGED <<long, enabled, stop, scheduler, threads, wanted>>

\* Without the join.
WrongMayGoOn(t) == TRUE

\* join(timeout=5) returns.  The timeout passes in a long cycle, or when another
\* request has cleared the event and the thread polls on.
MayGoOn(t) == t # None => \/ thread[t] = "unused"
                          \/ long /\ thread[t] = "cycling"
                          \/ ~stop

\* Saving the settings restarts the scheduler also when it is switched off.
WrongAfterJoin(r) == "clearing"

AfterJoin(r) == IF wanted[r] THEN "clearing" ELSE "idle"

Join(r) ==
    /\ MayGoOn(joined[r])
    /\ MoveRequest(r, "joining", AfterJoin(r))
    /\ joined' = [joined EXCEPT ![r] = None]
    /\ UNCHANGED <<long, enabled, stop, scheduler, threads, wanted>>

\* "cannot join thread before it is started": the handler raises.
JoinRaises(r) ==
    /\ joined[r] # None /\ thread[joined[r]] = "created"
    /\ MoveRequest(r, "joining", "idle")
    /\ joined' = [joined EXCEPT ![r] = None]
    /\ UNCHANGED <<long, enabled, stop, scheduler, threads, wanted>>

\* restart_scheduler.
ClearStop(r) ==
    /\ stop' = FALSE
    /\ MoveRequest(r, "clearing", "asking")
    /\ UNCHANGED <<long, enabled, scheduler, threads, wanted, joined>>

\* A thread that was never stopped is taken for one that has ended.
WrongIsRunning == FALSE

\* _scheduler_thread and _scheduler_thread.is_alive().
IsRunning == scheduler # None /\ Alive(scheduler)

\* start_scheduler: "Scheduler already running."
AskAlive(r) ==
    /\ MoveRequest(r, "asking", IF IsRunning THEN "idle" ELSE "resetting")
    /\ UNCHANGED <<long, enabled, stop, scheduler, threads, wanted, joined>>

ResetStop(r) ==
    /\ stop' = FALSE
    /\ MoveRequest(r, "resetting", "spawning")
    /\ UNCHANGED <<long, enabled, scheduler, threads, wanted, joined>>

\* The new thread object, before its start().  One that nothing refers to any
\* more is never started and its name is used again.
Spawn(r) ==
    /\ MoveRequest(r, "spawning", "launching")
    /\ \E t \in Threads :
         /\ thread[t] \in {"unused", "created"} /\ t # scheduler
         /\ \A q \in Requests : joined[q] # t
         /\ scheduler' = t
         /\ thread' = [thread EXCEPT ![t] = "created"]
    /\ UNCHANGED <<long, enabled, stop, holder, manual, wanted, joined>>

\* _scheduler_thread.start() starts the thread the variable refers to now, and
\* raises when that one was started before.
Launch(r) ==
    /\ MoveRequest(r, "launching", "idle")
    /\ thread' = [thread EXCEPT ![scheduler] = IF @ = "created" THEN "testing" ELSE @]
    /\ UNCHANGED <<long, enabled, stop, scheduler, holder, manual, wanted, joined>>

-----------------------------------------------------------------------------

PollStep(t) ==
    \/ TestStop(t) \/ EndWait(t) \/ BreakLoop(t)
    \/ RunCycle(t) \/ EndCycle(t) \/ Return(t)

ManualStep(m) == RunManualCycle(m) \/ EndManualCycle(m)

RequestStep(r) ==
    \/ ReadBack(r) \/ SetStop(r) \/ BeginJoin(r) \/ Join(r) \/ JoinRaises(r)
    \/ ClearStop(r) \/ AskAlive(r) \/ ResetStop(r) \/ Spawn(r) \/ Launch(r)

Next ==
    \/ \E t \in Threads : PollStep(t)
    \/ \E m \in Manual : RunNow(m) \/ ManualStep(m)
    \/ \E r \in Requests : RequestStep(r) \/ \E on \in BOOLEAN : Save(r, on)

Spec == Init /\ [][Next]_vars

\* Threads run.  Nobody has to save settings or to ask for a manual run.
Fairness ==
    /\ \A t \in Threads : WF_vars(PollStep(t))
    /\ \A m \in Manual : WF_vars(ManualStep(m))
    /\ \A r \in Requests : WF_vars(RequestStep(r))

FairSpec == Spec /\ Fairness

-----------------------------------------------------------------------------
(* Safety. *)

\* "Scheduled and manual runs never overlap" (run_cycle), and neither do two
\* poll threads: whoever is in a cycle is alone in it and holds the lock.
CyclesNeverOverlap ==
    /\ \A t \in Threads : thread[t] = "cycling" <=> holder = t
    /\ \A m \in Manual : manual[m] = "cycling" <=> holder = m

Quiet == \A r \in Requests : request[r] = "idle"

\* Once a change of the settings has been applied, the scheduler runs if it is
\* switched on: a poll thread is in its loop and nothing tells it to stop.
\* (A join that times out on a long cycle may leave none: start_scheduler can
\* meet the old thread when it has seen the event and is about to return.)
EnabledIsRunning ==
    Quiet /\ enabled /\ ~long => ~stop /\ \E t \in Threads : thread[t] \in Polling

\* No restart leaves two poll threads behind, however long the cycle runs
\* that the old thread is in.
OnePollThread ==
    \A t, u \in Threads : Alive(t) /\ Alive(u) => t = u

-----------------------------------------------------------------------------
(* Liveness. *)

\* A scheduler that is switched off comes to rest: the poll thread ends, also
\* when it was in a cycle that outlasted the join.
DisabledComesToRest ==
    ~enabled ~> (enabled \/ \A t \in Threads : ~Alive(t))

\* A scheduler that is switched on runs cycles, or finds one running, unless
\* the settings are saved again: every save starts the wait anew.
EnabledRunsCycles == ~long /\ enabled /\ Quiet ~> (~enabled \/ ~Quiet \/ ~LockFree)
=============================================================================
