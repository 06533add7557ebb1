----------------------------- MODULE MCScheduling -----------------------------
(***************************************************************************)
(* What check cycles do (Monitoring) and the threads that run them         *)
(* (SchedulerControl), for TLC.  The two share no state: which thread has  *)
(* the cycle lock does not matter to a cycle, nor what it does to who has  *)
(* the lock.  A behaviour is of one of the two, and the other one stays as *)
(* it started, with the scheduler off.                                     *)
(***************************************************************************)
EXTENDS Monitoring

CONSTANTS
    None, Threads, Manual, LongCycles,
    Savers \* the requests that save the scheduler settings

VARIABLES focus, long, enabled, stop, scheduler, thread, holder, manual,
          request, wanted, joined

Control == INSTANCE SchedulerControl WITH Requests <- Savers

ASSUME SchedulerAssumption == Control!ControlAssumption

controlvars == <<long, enabled, stop, scheduler, thread, holder, manual,
                 request, wanted, joined>>
mcvars == <<focus, vars, controlvars>>

CyclesNeverOverlap  == Control!CyclesNeverOverlap
EnabledIsRunning    == Control!EnabledIsRunning
OnePollThread       == Control!OnePollThread
EnabledRunsCycles   == Control!EnabledRunsCycles
DisabledComesToRest == Control!DisabledComesToRest

MCInit ==
    /\ focus \in {"checks", "threads"}
    /\ Init /\ Control!Init
    /\ focus = "checks" => ~enabled /\ long = (CHOOSE l \in LongCycles : TRUE)

MCNext ==
    \/ /\ focus = "checks" /\ Next
       /\ UNCHANGED <<focus, controlvars>>
    \/ /\ focus = "threads" /\ Control!Next
       /\ UNCHANGED <<focus, vars>>

MCSpec == MCInit /\ [][MCNext]_mcvars

\* Fairness is that of the part that moves.
MCFairSpec ==
    /\ MCSpec
    /\ \/ focus = "checks" /\ Fairness
       \/ focus = "threads" /\ Control!Fairness
================================================================================
