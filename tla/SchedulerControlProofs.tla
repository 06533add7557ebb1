------------------------ MODULE SchedulerControlProofs ------------------------
(***************************************************************************)
(* What is proved of SchedulerControl, as MCScheduling instantiates it     *)
(* (Control), for any number of poll threads, requests and manual runs,    *)
(* whether or not cycles outlast the join.                                 *)
(***************************************************************************)
EXTENDS MCScheduling, TLAPS

-----------------------------------------------------------------------------

LEMMA TypesInit == Control!Init => Control!TypeOK
<1> SUFFICES ASSUME Control!Init PROVE Control!TypeOK
  OBVIOUS
<1>1. scheduler \in Threads \cup {None}
  BY DEF Control!Init
<1>2. thread \in [Threads -> Control!Polling \cup {"returning", "unused", "created"}]
  BY DEF Control!Init, Control!Polling
<1>3. QED
  BY <1>1, <1>2 DEF Control!Init, Control!TypeOK

LEMMA TypesStep == Control!TypeOK /\ [Control!Next]_(Control!vars) => Control!TypeOK'
<1> SUFFICES ASSUME Control!TypeOK, [Control!Next]_(Control!vars) PROVE Control!TypeOK'
  OBVIOUS
<1> USE DEF Control!TypeOK, Control!Polling, Control!threads, Control!requests,
   Control!MoveThread, Control!MoveManual, Control!MoveRequest
<1>1. ASSUME NEW t \in Threads, Control!PollStep(t) PROVE Control!TypeOK'
  <2>1. CASE \/ Control!TestStop(t) \/ Control!EndWait(t)
            \/ Control!BreakLoop(t) \/ Control!Return(t)
    BY <2>1 DEF Control!TestStop, Control!EndWait, Control!BreakLoop, Control!Return
  <2>2. CASE Control!RunCycle(t)
    BY <2>2 DEF Control!RunCycle, Control!LockFree
  <2>3. CASE Control!EndCycle(t)
    BY <2>3 DEF Control!EndCycle
  <2>4. QED
    BY <1>1, <2>1, <2>2, <2>3 DEF Control!PollStep
<1>2. ASSUME NEW m \in Manual, Control!RunNow(m) \/ Control!ManualStep(m)
      PROVE  Control!TypeOK'
  <2>1. CASE Control!RunNow(m)
    BY <2>1 DEF Control!RunNow, Control!LockFree
  <2>2. CASE Control!RunManualCycle(m)
    BY <2>2 DEF Control!RunManualCycle, Control!LockFree
  <2>3. CASE Control!EndManualCycle(m)
    BY <2>3 DEF Control!EndManualCycle
  <2>4. QED
    BY <1>2, <2>1, <2>2, <2>3 DEF Control!ManualStep
<1>3. ASSUME NEW r \in Savers, NEW on \in BOOLEAN, Control!Save(r, on) PROVE Control!TypeOK'
  BY <1>3 DEF Control!Save
<1>4. ASSUME NEW r \in Savers, Control!RequestStep(r) PROVE Control!TypeOK'
  <2>1. CASE Control!SetStop(r) \/ Control!ClearStop(r) \/ Control!ResetStop(r)
    BY <2>1 DEF Control!SetStop, Control!ClearStop, Control!ResetStop
  <2>2. CASE Control!ReadBack(r)
    BY <2>2 DEF Control!ReadBack
  <2>3. CASE Control!BeginJoin(r)
    BY <2>3 DEF Control!BeginJoin
  <2>4. CASE Control!Join(r) \/ Control!JoinRaises(r) \/ Control!AskAlive(r)
    BY <2>4 DEF Control!Join, Control!AfterJoin, Control!JoinRaises, Control!AskAlive
  <2>5. CASE Control!Spawn(r)
    BY <2>5 DEF Control!Spawn
  <2>6. CASE Control!Launch(r)
    <3>1. CASE scheduler \in Threads
      BY <2>6, <3>1 DEF Control!Launch
    <3>2. CASE scheduler = None
      BY <2>6, <3>2, SchedulerAssumption DEF Control!ControlAssumption, Control!Launch
    <3>3. QED
      BY <3>1, <3>2
  <2>7. QED
    BY <1>4, <2>1, <2>2, <2>3, <2>4, <2>5, <2>6 DEF Control!RequestStep
<1>5. CASE UNCHANGED Control!vars
  BY <1>5 DEF Control!vars
<1>6. QED
  BY <1>1, <1>2, <1>3, <1>4, <1>5 DEF Control!Next

\* The state of the threads, the lock and the requests is always well formed.
THEOREM TypeCorrect == Control!Spec => []Control!TypeOK
  BY TypesInit, TypesStep, PTL DEF Control!Spec

-----------------------------------------------------------------------------
(* The lock.  CyclesNeverOverlap is inductive by itself: a thread enters a *)
(* cycle only by taking the free lock, and leaves it by releasing its own. *)

\* No two cycles run at the same time: poll threads, however many a race of
\* restarts has left, and manual runs share _cycle_lock (run_cycle).
THEOREM OneCycleAtATime == Control!Spec => []CyclesNeverOverlap
<1>1. Control!Init => Control!CyclesNeverOverlap
  BY SchedulerAssumption DEF Control!ControlAssumption, Control!Init,
     Control!CyclesNeverOverlap
<1>2. Control!TypeOK /\ Control!CyclesNeverOverlap /\ [Control!Next]_(Control!vars)
       => Control!CyclesNeverOverlap'
  <2> SUFFICES ASSUME Control!TypeOK, Control!CyclesNeverOverlap,
                      [Control!Next]_(Control!vars)
               PROVE  Control!CyclesNeverOverlap'
    OBVIOUS
  <2> USE SchedulerAssumption
      DEF Control!ControlAssumption, Control!TypeOK, Control!CyclesNeverOverlap,
         Control!MoveThread, Control!MoveManual, Control!MoveRequest
  <2>1. ASSUME NEW t \in Threads, Control!RunCycle(t) PROVE Control!CyclesNeverOverlap'
    BY <2>1 DEF Control!RunCycle, Control!LockFree
  <2>2. ASSUME NEW t \in Threads, Control!EndCycle(t) PROVE Control!CyclesNeverOverlap'
    BY <2>2 DEF Control!EndCycle
  <2>3. ASSUME NEW t \in Threads,
               \/ Control!TestStop(t) \/ Control!EndWait(t)
               \/ Control!BreakLoop(t) \/ Control!Return(t)
        PROVE  Control!CyclesNeverOverlap'
    BY <2>3 DEF Control!TestStop, Control!EndWait, Control!BreakLoop, Control!Return
  <2>4. ASSUME NEW m \in Manual, Control!RunNow(m) \/ Control!ManualStep(m)
        PROVE  Control!CyclesNeverOverlap'
    BY <2>4 DEF Control!ManualStep, Control!RunNow, Control!RunManualCycle,
       Control!EndManualCycle, Control!LockFree
  <2>5. ASSUME NEW r \in Savers, Control!Spawn(r) PROVE Control!CyclesNeverOverlap'
    BY <2>5 DEF Control!Spawn
  <2>6. ASSUME NEW r \in Savers, Control!Launch(r) PROVE Control!CyclesNeverOverlap'
    BY <2>6 DEF Control!Launch
  <2>7. CASE UNCHANGED Control!threads
    BY <2>7 DEF Control!threads
  <2>8. QED
    BY <2>1, <2>2, <2>3, <2>4, <2>5, <2>6, <2>7
       DEF Control!Next, Control!PollStep, Control!RequestStep, Control!ReadBack,
          Control!SetStop, Control!BeginJoin, Control!Join,
          Control!JoinRaises, Control!ClearStop, Control!AskAlive, Control!ResetStop,
           Control!Save, Control!vars
<1>3. QED
  BY <1>1, <1>2, TypeCorrect, PTL DEF Control!Spec, CyclesNeverOverlap

-----------------------------------------------------------------------------
(* One poll thread, as long as requests do not overlap.  Every thread that *)
(* is alive is the one _scheduler_thread refers to, and none is alive from *)
(* start_scheduler's question on until it starts one.                      *)

Starting == {"resetting", "spawning", "launching"}

OnlyScheduler ==
    /\ \A t \in Threads : Control!Alive(t) => t = scheduler
    /\ \A r \in Savers : request[r] \in Starting => \A t \in Threads : ~Control!Alive(t)

LEMMA OnlySchedulerInit == Control!Init => OnlyScheduler
  BY DEF Control!Init, OnlyScheduler, Control!Alive, Control!Polling, Starting

LEMMA OnlySchedulerStep ==
  ASSUME \A r, q \in Savers : r = q
  PROVE  Control!TypeOK /\ OnlyScheduler /\ [Control!Next]_(Control!vars) => OnlyScheduler'
<1> SUFFICES ASSUME Control!TypeOK, OnlyScheduler,
                 [Control!Next]_(Control!vars)
             PROVE  OnlyScheduler'
  OBVIOUS
<1> USE SchedulerAssumption DEF Control!ControlAssumption, Control!TypeOK,
   OnlyScheduler, Control!Alive, Control!Polling, Starting,
    Control!MoveThread, Control!MoveManual, Control!MoveRequest
<1>1. ASSUME NEW t \in Threads, Control!PollStep(t) PROVE OnlyScheduler'
  BY <1>1 DEF Control!PollStep, Control!TestStop, Control!EndWait, Control!BreakLoop,
     Control!RunCycle, Control!EndCycle, Control!Return,
     Control!requests
<1>2. ASSUME NEW r \in Savers, Control!AskAlive(r) PROVE OnlyScheduler'
  BY <1>2 DEF Control!AskAlive, Control!IsRunning, Control!threads
<1>3. ASSUME NEW r \in Savers, Control!Spawn(r) PROVE OnlyScheduler'
  BY <1>3 DEF Control!Spawn
<1>4. ASSUME NEW r \in Savers, Control!Launch(r) PROVE OnlyScheduler'
  <2>1. \A q \in Savers : request'[q] = "idle"
    BY <1>4 DEF Control!Launch
  <2>2. \A t \in Threads : Control!Alive(t)' => t = scheduler'
    BY <1>4 DEF Control!Launch
  <2>3. QED
    BY <2>1, <2>2
<1>5. ASSUME NEW r \in Savers, Control!ResetStop(r) PROVE OnlyScheduler'
  BY <1>5 DEF Control!ResetStop, Control!threads
<1>6. ASSUME NEW r \in Savers, NEW on \in BOOLEAN,
             \/ Control!Save(r, on) \/ Control!ReadBack(r) \/ Control!SetStop(r) \/ Control!BeginJoin(r)
             \/ Control!Join(r) \/ Control!JoinRaises(r) \/ Control!ClearStop(r)
      PROVE  OnlyScheduler'
  BY <1>6 DEF Control!Save, Control!ReadBack, Control!SetStop, Control!BeginJoin,
     Control!Join, Control!AfterJoin, Control!JoinRaises,
     Control!ClearStop, Control!threads
<1>7. CASE UNCHANGED <<scheduler, thread, request>>
  BY <1>7
<1>8. ASSUME NEW m \in Manual, Control!RunNow(m) \/ Control!ManualStep(m)
      PROVE  OnlyScheduler'
  BY <1>7, <1>8 DEF Control!RunNow, Control!ManualStep, Control!RunManualCycle,
     Control!EndManualCycle, Control!requests
<1>9. ASSUME NEW r \in Savers, Control!RequestStep(r) PROVE OnlyScheduler'
  <2> HIDE DEF OnlyScheduler, Control!TypeOK, Control!MoveRequest
  <2> QED
    BY <1>9, <1>2, <1>3, <1>4, <1>5, <1>6 DEF Control!RequestStep
<1>10. CASE UNCHANGED Control!vars
  BY <1>7, <1>10 DEF Control!vars, Control!threads, Control!requests
<1>11. QED
  <2> HIDE DEF OnlyScheduler
  <2> QED
    BY <1>1, <1>6, <1>8, <1>9, <1>10 DEF Control!Next

\* restart_scheduler leaves no second poll thread behind, also when its join
\* has timed out on a long cycle.
THEOREM NoSecondPollThread ==
    ASSUME \A r, q \in Savers : r = q
    PROVE  Control!Spec => []OnePollThread
<1>1. OnlyScheduler => Control!OnePollThread
  BY DEF OnlyScheduler, Control!OnePollThread
<1>2. QED
  BY <1>1, OnlySchedulerInit, OnlySchedulerStep, TypeCorrect,
     PTL DEF Control!Spec, OnePollThread

-----------------------------------------------------------------------------
(* The scheduler runs when it is switched on, as long as requests do not   *)
(* overlap and cycles end within the join.  Each step of a restart leaves  *)
(* what the next one counts on.                                            *)

Restarting == {"clearing", "asking"} \cup Starting

RunInv ==
    /\ Control!Quiet /\ enabled
         => ~stop /\ scheduler # None /\ thread[scheduler] \in Control!Polling
    /\ (\A r \in Savers : request[r] # "launching")
         => scheduler = None \/ thread[scheduler] # "created"
    /\ \A r \in Savers :
         /\ request[r] \notin {"idle", "committed"} => (wanted[r] <=> enabled)
         /\ request[r] \in {"stopped", "joining"} => stop
         /\ request[r] = "joining" => joined[r] = scheduler
         /\ request[r] \in Restarting => enabled /\ \A t \in Threads : ~Control!Alive(t)
         /\ request[r] \in {"asking"} \cup Starting => ~stop
         /\ request[r] = "launching" => scheduler # None /\ thread[scheduler] = "created"

RunsUnlessLong == ~long => RunInv

LEMMA RunsInit == Control!Init => RunsUnlessLong
<1> SUFFICES ASSUME Control!Init PROVE RunInv
  BY DEF RunsUnlessLong
<1>1. enabled => scheduler # None /\ thread[scheduler] = "testing"
  BY SchedulerAssumption DEF Control!ControlAssumption, Control!Init
<1>2. scheduler = None \/ thread[scheduler] # "created"
  BY DEF Control!Init
<1>3. QED
  BY <1>1, <1>2 DEF Control!Init, RunInv, Restarting, Starting, Control!Polling

LEMMA RunsStep ==
  ASSUME \A r, q \in Savers : r = q
  PROVE  Control!TypeOK /\ OnlyScheduler /\ RunsUnlessLong /\ [Control!Next]_(Control!vars)
           => RunsUnlessLong'
<1> SUFFICES ASSUME Control!TypeOK, OnlyScheduler, RunsUnlessLong,
                 [Control!Next]_(Control!vars), ~long'
             PROVE  RunInv'
  BY DEF RunsUnlessLong
<1>0. ~long /\ RunInv
  <2>1. UNCHANGED long
    BY DEF Control!Next, Control!PollStep, Control!TestStop, Control!EndWait,
       Control!BreakLoop, Control!RunCycle, Control!EndCycle, Control!Return,
       Control!RunNow, Control!ManualStep, Control!RunManualCycle,
       Control!EndManualCycle, Control!RequestStep, Control!ReadBack,
       Control!SetStop, Control!BeginJoin, Control!Join, Control!JoinRaises,
       Control!ClearStop, Control!AskAlive, Control!ResetStop, Control!Spawn,
       Control!Launch, Control!Save, Control!vars
  <2>2. QED
    BY <2>1 DEF RunsUnlessLong
<1> USE SchedulerAssumption DEF Control!ControlAssumption, Control!MoveThread,
   Control!MoveManual, Control!MoveRequest
<1>1. ASSUME NEW t \in Threads, Control!PollStep(t) PROVE RunInv'
  <2>1. /\ UNCHANGED <<enabled, stop, scheduler, Control!requests>>
        /\ Control!Alive(t)
    BY <1>1 DEF Control!PollStep, Control!TestStop, Control!EndWait, Control!BreakLoop,
       Control!RunCycle, Control!EndCycle, Control!Return,
       Control!Polling, Control!Alive
  <2>2. PICK to : /\ thread' = [thread EXCEPT ![t] = to]
                  /\ to # "created"
                  /\ thread[t] \in Control!Polling /\ ~stop => to \in Control!Polling
    BY <1>1 DEF Control!PollStep, Control!TestStop, Control!EndWait, Control!BreakLoop,
       Control!RunCycle, Control!EndCycle, Control!Return,
       Control!Polling
  <2>3. \A u \in Threads : thread'[u] = IF u = t THEN to ELSE thread[u]
    BY <2>2 DEF Control!TypeOK
  <2>4. t = scheduler /\ thread[t] # "created"
    BY <2>1 DEF OnlyScheduler, Control!Alive, Control!Polling
  <2>5. \A r \in Savers : request[r] \notin Restarting /\ request[r] # "launching"
    BY <1>0, <2>1 DEF RunInv, Restarting, Starting
  <2>6. Control!Quiet' /\ enabled'
          => ~stop' /\ scheduler' # None /\ thread'[scheduler'] \in Control!Polling
    BY <1>0, <2>1, <2>2, <2>3, <2>4 DEF RunInv, Control!requests, Control!Quiet
  <2>7. scheduler' = None \/ thread'[scheduler'] # "created"
    BY <2>1, <2>2, <2>3, <2>4
  <2>8. QED
    BY <1>0, <2>1, <2>5, <2>6, <2>7 DEF RunInv, Control!requests, Restarting
<1>2. CASE UNCHANGED <<enabled, stop, scheduler, thread, Control!requests>>
  BY <1>0, <1>2 DEF RunInv, Control!requests, Control!Quiet, Control!Alive
<1>3. ASSUME NEW m \in Manual, Control!RunNow(m) \/ Control!ManualStep(m)
      PROVE  RunInv'
  BY <1>2, <1>3 DEF Control!RunNow, Control!ManualStep, Control!RunManualCycle,
     Control!EndManualCycle
<1>4. ASSUME NEW r \in Savers, NEW on \in BOOLEAN, Control!Save(r, on) PROVE RunInv'
  BY <1>0, <1>4 DEF Control!Save, Control!TypeOK, RunInv, Control!Quiet, Control!Alive,
     Control!threads, Restarting, Starting
<1>5. ASSUME NEW r \in Savers,
             Control!ReadBack(r) \/ Control!SetStop(r) \/ Control!BeginJoin(r)
      PROVE  RunInv'
  BY <1>0, <1>5 DEF Control!ReadBack, Control!SetStop, Control!BeginJoin,
     Control!TypeOK, RunInv, Control!Quiet, Control!Alive, Control!threads,
     Restarting, Starting
<1>6. ASSUME NEW r \in Savers, Control!Join(r) PROVE RunInv'
  <2>1. stop /\ joined[r] = scheduler /\ (wanted[r] <=> enabled)
    BY <1>0, <1>6 DEF Control!Join, RunInv
  <2>2. scheduler = None \/ thread[scheduler] = "unused"
    BY <1>0, <1>6, <2>1 DEF Control!Join, Control!MayGoOn
  <2>3. \A t \in Threads : ~Control!Alive(t)
    BY <2>2 DEF OnlyScheduler, Control!Alive, Control!Polling, Control!TypeOK
  <2>4. QED
    BY <1>0, <1>6, <2>1, <2>2, <2>3 DEF Control!Join, Control!AfterJoin,
       Control!TypeOK, RunInv, Control!Quiet, Control!Alive,
       Control!threads, Restarting, Starting
<1>7. ASSUME NEW r \in Savers, Control!JoinRaises(r) PROVE RunInv'
  BY <1>0, <1>7 DEF Control!JoinRaises, RunInv, Control!TypeOK
<1>8. ASSUME NEW r \in Savers,
             Control!ClearStop(r) \/ Control!AskAlive(r) \/ Control!ResetStop(r)
      PROVE  RunInv'
  BY <1>0, <1>8 DEF Control!ClearStop, Control!AskAlive, Control!IsRunning,
     Control!ResetStop, Control!TypeOK, RunInv, Control!Quiet,
     Control!Alive, Control!threads, Restarting, Starting
<1>9. ASSUME NEW r \in Savers, Control!Spawn(r) PROVE RunInv'
  BY <1>0, <1>9 DEF Control!Spawn, Control!TypeOK, RunInv, Control!Quiet,
     Control!Alive, Control!Polling, Restarting, Starting
<1>10. ASSUME NEW r \in Savers, Control!Launch(r) PROVE RunInv'
  BY <1>0, <1>10 DEF Control!Launch, Control!TypeOK, RunInv, Control!Quiet,
     Control!Alive, Control!Polling, Restarting, Starting
<1>11. CASE UNCHANGED Control!vars
  BY <1>2, <1>11 DEF Control!vars, Control!threads
<1>12. QED
  BY <1>1, <1>3, <1>4, <1>5, <1>6, <1>7, <1>8, <1>9, <1>10, <1>11 DEF Control!Next,
     Control!RequestStep

\* Once a change of the settings has been applied, a scheduler that is
\* switched on runs (update_scheduler_settings, restart_scheduler).
THEOREM EnabledRuns ==
    ASSUME \A r, q \in Savers : r = q
    PROVE  Control!Spec => []EnabledIsRunning
<1>1. Control!TypeOK /\ RunsUnlessLong => Control!EnabledIsRunning
  BY DEF Control!TypeOK, RunsUnlessLong, RunInv, Control!EnabledIsRunning
<1>2. QED
  BY <1>1, OnlySchedulerInit, OnlySchedulerStep, RunsInit, RunsStep,
     TypeCorrect, PTL
     DEF Control!Spec, EnabledIsRunning
=============================================================================
