--------------------------- MODULE MonitoringProofs ---------------------------
(***************************************************************************)
(* What is proved of Monitoring for every value of its constants.          *)
(***************************************************************************)
EXTENDS Monitoring, TLAPS

-----------------------------------------------------------------------------
(* The helpers build values of the right type. *)

LEMMA AtTypes ==
    ASSUME NEW pc \in {"idle", "selecting", "saving"}
    PROVE  At(pc) \in Session /\ At(pc).pc = pc
  BY BoundsAssumption DEF At, Working, Session, PC

LEMMA WorkingTypes ==
    ASSUME NEW pc \in PC \ {"recording"}, NEW a \in Assets, NEW f \in BOOLEAN
    PROVE  Working(pc, a, f) \in Session
  BY BoundsAssumption DEF Working, Session, Assets

LEMMA GotoTypes ==
    ASSUME NEW s \in Session, NEW pc \in PC,
           \/ pc \in {"idle", "selecting", "saving"}
           \/ pc # "recording" /\ s.asset \in Assets
    PROVE  [s EXCEPT !.pc = pc] \in Session
  BY DEF Session

LEMMA AfterRecordTypes ==
    ASSUME TypeOK, NEW x \in Actors, NEW pc \in {"saved", "failed"},
           session[x].asset \in Assets, AfterRecord(x, pc)
    PROVE  session' \in [Actors -> Session] /\ expired' \in BOOLEAN
<1>1. session[x] \in Session /\ session \in [Actors -> Session]
  BY DEF TypeOK
<1>2. expired' \in BOOLEAN
  BY DEF AfterRecord, TypeOK
<1>3. CASE x = Cycle
  <2>1. [session[x] EXCEPT !.pc = pc] \in Session
    BY <1>1, GotoTypes DEF PC
  <2>2. session' = [session EXCEPT ![x] = [session[x] EXCEPT !.pc = pc]]
    BY <1>3, ActorsAssumption DEF AfterRecord, Goto
  <2>3. QED
    BY <1>1, <1>2, <2>1, <2>2
<1>4. CASE x \in Workers
  <2>1. [session[x] EXCEPT !.pc = "finishing"] \in Session
    BY <1>1, GotoTypes DEF PC
  <2>2. session' = [session EXCEPT ![x] = [session[x] EXCEPT !.pc = "finishing"]]
    BY <1>4, ActorsAssumption DEF AfterRecord, Goto
  <2>3. QED
    BY <1>1, <1>2, <2>1, <2>2
<1>5. CASE x \in Requests
  <2>1. session' = [session EXCEPT ![x] = At("idle")]
    BY <1>5, ActorsAssumption DEF AfterRecord, Leave
  <2>2. QED
    BY <1>1, <1>2, <2>1, AtTypes
<1>6. QED
  BY <1>3, <1>4, <1>5 DEF Actors

LEMMA MarkHistoricalTypes ==
    ASSUME NEW rows \in SUBSET CheckRow, NEW a
    PROVE  MarkHistorical(rows, a) \subseteq CheckRow
  BY DEF MarkHistorical, CheckRow

-----------------------------------------------------------------------------

LEMMA TypesInit == Init => TypeOK
<1> SUFFICES ASSUME Init PROVE TypeOK
  OBVIOUS
<1>1. At("idle") \in Session
  BY AtTypes
<1>2. pending \in Seq(Assets)
  BY DEF Init
<1>3. told \in [Assets -> EventKind]
  BY DEF Init, EventKind
<1>4. QED
  BY <1>1, <1>2, <1>3 DEF Init, TypeOK

LEMMA TypesStep == TypeOK /\ [Next]_vars => TypeOK'
<1> SUFFICES ASSUME TypeOK, [Next]_vars PROVE TypeOK'
  OBVIOUS
<1> USE BoundsAssumption, ActorsAssumption, ChoicesAssumption
<1>0. Cycle \in Actors /\ Workers \subseteq Actors /\ Requests \subseteq Actors
  BY DEF Actors
<1>1. ASSUME NEW x \in Actors, ReadPrevious(x) PROVE TypeOK'
  <2>1. PICK o \in Outcomes, p \in AllOutcomes \cup {"none"} :
          session' = [session EXCEPT ![x] =
                        [@ EXCEPT !.pc = "recording", !.prev = p, !.result = o]]
    BY <1>1 DEF ReadPrevious
  <2>2. session[x] \in Session /\ session[x].asset \in Assets
    BY <1>1 DEF TypeOK, ReadPrevious, Session
  <2>3. [session[x] EXCEPT !.pc = "recording", !.prev = p, !.result = o] \in Session
    BY <2>2 DEF Session, PC
  <2>4. session' \in [Actors -> Session]
    BY <2>1, <2>3 DEF TypeOK
  <2>5. QED
    BY <1>1, <2>4 DEF TypeOK, ReadPrevious, db, pool, cycle
<1>2. ASSUME NEW x \in Actors, Save(x) PROVE TypeOK'
  <2> DEFINE s == session[x]
  <2>1. s \in Session /\ s.asset \in Assets /\ s.result \in AllOutcomes
    BY <1>2 DEF TypeOK, Save, Session
  <2>2. session' \in [Actors -> Session] /\ expired' \in BOOLEAN
    BY <1>2, <2>1, AfterRecordTypes DEF Save
  <2>3. checks' \subseteq CheckRow
    <3>1. PICK i \in 1..MaxChecks :
            checks' = MarkHistorical(checks, s.asset) \cup
                        {[id |-> i, asset |-> s.asset, status |-> "current",
                          outcome |-> s.result]}
      BY <1>2 DEF Save
    <3>2. MarkHistorical(checks, s.asset) \subseteq CheckRow
      BY MarkHistoricalTypes DEF TypeOK
    <3>3. QED
      BY <2>1, <3>1, <3>2 DEF CheckRow
  <2>4. told' \in [Assets -> EventKind]
    BY <1>2 DEF TypeOK, Save, DetectedKind, EventKind
  <2>5. flag' \in [Assets -> BOOLEAN]
    BY <1>2, <2>1 DEF TypeOK, Save, FlagWritten
  <2>6. fresh' \in [Assets -> BOOLEAN]
    BY <1>2 DEF TypeOK, Save
  <2>7. QED
    BY <1>2, <2>2, <2>3, <2>4, <2>5, <2>6 DEF TypeOK, Save, pool
<1>3. ASSUME NEW x \in Actors, SaveFails(x) PROVE TypeOK'
  <2>1. session[x] \in Session /\ session[x].asset \in Assets
    BY <1>3 DEF TypeOK, SaveFails, Session
  <2>2. session' \in [Actors -> Session] /\ expired' \in BOOLEAN
    BY <1>3, <2>1, AfterRecordTypes DEF SaveFails
  <2>3. QED
    BY <1>3, <2>2 DEF TypeOK, SaveFails, db, pool
<1>4. CASE StartCycle
  BY <1>0, <1>4, GotoTypes DEF TypeOK, StartCycle, Goto, db, pool, PC
<1>5. CASE SelectDue
  BY <1>0, <1>5, GotoTypes DEF TypeOK, SelectDue, Goto, db, pool, PC
<1>6. ASSUME NEW a \in Assets, NextResult(a) PROVE TypeOK'
  <2>1. (IF expired THEN flag[a] ELSE loaded[a]) \in BOOLEAN
    BY DEF TypeOK
  <2>2. Working("loaded", a, IF expired THEN flag[a] ELSE loaded[a]) \in Session
    BY <2>1, WorkingTypes DEF PC
  <2>3. QED
    BY <1>0, <1>6, <2>2 DEF TypeOK, NextResult, db, pool, cycle
<1>7. ASSUME NEW a \in Assets, SkipEmpty(a) PROVE TypeOK'
  BY <1>7 DEF TypeOK, SkipEmpty, db, pool
<1>8. CASE NextAsset
  BY <1>0, <1>8, AtTypes DEF TypeOK, NextAsset, db, pool
<1>9. CASE AbortCycle
  BY <1>0, <1>9, AtTypes DEF TypeOK, AbortCycle, EndOfCycle, Leave, db, pool
<1>10. CASE FinishCycle
  <2>1. checks' \subseteq checks
    BY <1>10 DEF FinishCycle, Prune
  <2>2. QED
    BY <1>0, <1>10, <2>1, AtTypes DEF TypeOK, FinishCycle, Prune, EndOfCycle, Leave, pool
<1>11. ASSUME NEW a \in Assets, QueueRecheck(a) PROVE TypeOK'
  BY <1>11 DEF TypeOK, QueueRecheck, db, cycle
<1>12. ASSUME NEW w \in Workers, StartJob(w) PROVE TypeOK'
  <2> DEFINE a == Head(pending)
             next == IF exists[a] /\ a \notin NoToggles THEN "loaded" ELSE "finishing"
  <2>1. a \in Assets /\ pending' \in Seq(Assets)
    BY <1>12 DEF TypeOK, StartJob
  <2>2. Working(next, a, flag[a]) \in Session
    BY <2>1, WorkingTypes DEF TypeOK, PC
  <2>3. session' \in [Actors -> Session]
    BY <1>0, <1>12, <2>2 DEF TypeOK, StartJob
  <2>4. QED
    BY <1>12, <2>1, <2>3 DEF TypeOK, StartJob, db, cycle
<1>13. ASSUME NEW w \in Workers, FinishJob(w) PROVE TypeOK'
  BY <1>0, <1>13, AtTypes DEF TypeOK, FinishJob, Release, Leave, db, cycle
<1>14. ASSUME NEW r \in Requests, NEW a \in Assets, Recheck(r, a) PROVE TypeOK'
  <2>1. Working("loaded", a, flag[a]) \in Session
    BY WorkingTypes DEF TypeOK, PC
  <2>2. QED
    BY <1>0, <1>14, <2>1 DEF TypeOK, Recheck, db, pool, cycle
<1>15. ASSUME NEW r \in Requests, NEW a \in Assets, Delete(r, a) PROVE TypeOK'
  <2>1. Working("deleting", a, FALSE) \in Session
    BY WorkingTypes DEF PC
  <2>2. {c.id : c \in {d \in checks : d.asset = a}} \subseteq 1..MaxChecks
    BY DEF TypeOK, CheckRow
  <2>3. QED
    BY <1>0, <1>15, <2>1, <2>2 DEF TypeOK, Delete, db, pool, cycle
<1>16. ASSUME NEW r \in Requests, NEW a \in Assets, NEW on \in BOOLEAN, Create(r, a, on)
       PROVE  TypeOK'
  <2>1. Working("created", a, FALSE) \in Session /\ At("idle") \in Session
    BY WorkingTypes, AtTypes DEF PC
  <2>2. session' \in [Actors -> Session]
    BY <1>0, <1>16, <2>1 DEF TypeOK, Create
  <2>3. QED
    BY <1>16, <2>2 DEF TypeOK, Create, Insert, LastChecked, EventKind, pool, cycle
<1>17. ASSUME NEW r \in Requests, CommitDelete(r) PROVE TypeOK'
  BY <1>0, <1>17, AtTypes DEF TypeOK, CommitDelete, Leave, EventKind, pool, cycle
<1>18. ASSUME NEW a \in Assets, SetMonitored(a) PROVE TypeOK'
  BY <1>18 DEF TypeOK, SetMonitored, pool, cycle
<1>19. ASSUME NEW a \in Assets, Elapse(a) PROVE TypeOK'
  BY <1>19 DEF TypeOK, Elapse, pool, cycle
<1>20. ASSUME NEW a \in Assets, NEW on \in BOOLEAN, BulkCreate(a, on) PROVE TypeOK'
  BY <1>20 DEF TypeOK, BulkCreate, Insert, LastChecked, EventKind, pool, cycle
<1>21. CASE Crash
  <2>1. At("idle") \in Session /\ pending' \in Seq(Assets)
    BY <1>21, AtTypes DEF Crash
  <2>2. QED
    BY <1>21, <2>1 DEF TypeOK, Crash, db
<1>22. CASE UNCHANGED vars
  BY <1>22 DEF TypeOK, vars, db, pool, cycle
<1>23. QED
  BY <1>1, <1>2, <1>3, <1>4, <1>5, <1>6, <1>7, <1>8, <1>9, <1>10, <1>11, <1>12,
     <1>13, <1>14, <1>15, <1>16, <1>17, <1>18, <1>19, <1>20, <1>21, <1>22
     DEF Next, CycleStep, RequestStep

\* Every reachable state is well typed: rows refer to asset and check ids, and
\* a session that works on an asset knows which.
THEOREM TypeCorrect == Spec => []TypeOK
  BY TypesInit, TypesStep, PTL DEF Spec

-----------------------------------------------------------------------------
(* The current row of an asset is its newest one.                          *)
(* CurrentIsTheNewest is inductive by itself, given the types: Save is the *)
(* only step that adds a row, and it first turns every row of the asset    *)
(* historical and takes an id above all; every other step keeps the rows   *)
(* or removes some.                                                        *)

LEMMA FewerRows ==
    ASSUME CurrentIsTheNewest, checks' \subseteq checks
    PROVE  CurrentIsTheNewest'
  BY DEF CurrentIsTheNewest

LEMMA SaveKeepsTheNewest ==
    ASSUME TypeOK, CurrentIsTheNewest, NEW x \in Actors, Save(x)
    PROVE  CurrentIsTheNewest'
<1> DEFINE a == session[x].asset
<1>1. PICK i \in 1..MaxChecks :
        /\ NewCheckId(i)
        /\ checks' = MarkHistorical(checks, a) \cup
                       {[id |-> i, asset |-> a, status |-> "current",
                         outcome |-> session[x].result]}
  BY DEF Save
<1> DEFINE new == [id |-> i, asset |-> a, status |-> "current",
                   outcome |-> session[x].result]
<1> HIDE DEF a
\* A row of the new table is the new one or has kept its id and its asset.
<1>2. ASSUME NEW c \in checks', c # new
      PROVE  \E b \in checks : /\ b.id = c.id /\ b.asset = c.asset /\ b.id < i
                               /\ c.asset = a => c.status = "historical"
                               /\ c.asset # a => c = b
  BY <1>1, <1>2 DEF MarkHistorical, NewCheckId, TypeOK, CheckRow
<1>3. SUFFICES ASSUME NEW c \in checks', NEW d \in checks',
                      c.status = "current", d.asset = c.asset, d # c
               PROVE  d.id < c.id
  BY DEF CurrentIsTheNewest
<1>4. CASE c = new
  BY <1>2, <1>3, <1>4
<1>5. CASE c # new
  <2>1. c.asset # a /\ d # new
    BY <1>2, <1>3, <1>5
  <2>2. c \in checks /\ d \in checks
    BY <1>2, <1>3, <1>5, <2>1
  <2>3. QED
    BY <1>3, <2>2 DEF CurrentIsTheNewest
<1>6. QED
  BY <1>4, <1>5

\* At most one row of an asset is current, and it is the asset's newest row,
\* however many sessions record results at once (record_check).
THEOREM CurrentRowIsTheNewest == Spec => []CurrentIsTheNewest
<1>1. Init => CurrentIsTheNewest
  BY DEF Init, CurrentIsTheNewest
<1>2. TypeOK /\ CurrentIsTheNewest /\ [Next]_vars => CurrentIsTheNewest'
  <2> SUFFICES ASSUME TypeOK, CurrentIsTheNewest, [Next]_vars
               PROVE  CurrentIsTheNewest'
    OBVIOUS
  <2>1. ASSUME NEW x \in Actors, Save(x) PROVE CurrentIsTheNewest'
    BY <2>1, SaveKeepsTheNewest
  <2>2. CASE FinishCycle
    BY <2>2, FewerRows DEF FinishCycle, Prune
  <2>3. ASSUME NEW r \in Requests, CommitDelete(r) PROVE CurrentIsTheNewest'
    BY <2>3, FewerRows DEF CommitDelete
  <2>4. CASE UNCHANGED checks
    BY <2>4, FewerRows
  <2>5. QED
    BY <2>1, <2>2, <2>3, <2>4 DEF Next, CycleStep, RequestStep, ReadPrevious,
       SaveFails, StartCycle, SelectDue, NextResult, SkipEmpty, NextAsset,
       AbortCycle, EndOfCycle, QueueRecheck, StartJob, FinishJob, Recheck,
       Delete, Create, Insert, SetMonitored, Elapse, BulkCreate, Crash, vars, db
<1>3. QED
  BY <1>1, <1>2, TypeCorrect, PTL DEF Spec

-----------------------------------------------------------------------------
(* _queued and the pool.  QueueMatchesPool is inductive, given the types:  *)
(* submitting puts an id in both, starting a job moves it from the pool's  *)
(* queue to a worker, and only the worker's finally clause takes it out.   *)

\* What the actions of other actors leave alone.
LEMMA PoolUntouched ==
    ASSUME QueueMatchesPool, queued' = queued, pending' = pending,
           \A w \in Workers : /\ session'[w].asset = session[w].asset
                              /\ session'[w].pc = "idle" <=> session[w].pc = "idle"
    PROVE  QueueMatchesPool'
<1>1. Waiting' = Waiting /\ Running' = Running
  BY DEF Waiting, Running
<1>2. {session'[w].asset : w \in Running} = {session[w].asset : w \in Running}
  BY DEF Running
<1>3. QED
  BY <1>1, <1>2 DEF QueueMatchesPool, Running

LEMMA QueueRecheckKeepsPool ==
    ASSUME TypeOK, QueueMatchesPool, NEW a \in Assets, QueueRecheck(a)
    PROVE  QueueMatchesPool'
<1>1. /\ a \notin queued /\ queued' = queued \cup {a}
      /\ pending' = Append(pending, a) /\ session' = session
  BY DEF QueueRecheck, Queueable
<1>2. /\ Len(pending') = Len(pending) + 1 /\ DOMAIN pending = 1..Len(pending)
      /\ DOMAIN pending' = 1..(Len(pending) + 1) /\ Len(pending) \in Nat
      /\ \A i \in 1..Len(pending) : pending'[i] = pending[i]
      /\ pending'[Len(pending) + 1] = a
  BY <1>1 DEF TypeOK
<1>3. Waiting' = Waiting \cup {a}
  BY <1>2 DEF Waiting
<1>4. Running' = Running
  BY <1>1 DEF Running
<1>5. a \notin Waiting /\ \A w \in Running : session[w].asset # a
  BY <1>1 DEF QueueMatchesPool
<1>6. \A i, j \in DOMAIN pending' : pending'[i] = pending'[j] => i = j
  BY <1>2, <1>5 DEF QueueMatchesPool, Waiting
<1>7. QED
  BY <1>1, <1>3, <1>4, <1>5, <1>6 DEF QueueMatchesPool

LEMMA StartJobKeepsPool ==
    ASSUME TypeOK, QueueMatchesPool, NEW w \in Workers, StartJob(w)
    PROVE  QueueMatchesPool'
<1> DEFINE a == Head(pending)
<1>1. /\ session[w].pc = "idle" /\ pending # <<>> /\ pending' = Tail(pending)
      /\ queued' = queued
  BY DEF StartJob
<1>2. /\ DOMAIN pending = 1..Len(pending) /\ Len(pending) \in Nat \ {0}
      /\ DOMAIN pending' = 1..(Len(pending) - 1)
      /\ \A i \in 1..(Len(pending) - 1) : pending'[i] = pending[i + 1]
      /\ a = pending[1]
  BY <1>1 DEF TypeOK
<1>3. /\ session'[w].asset = a /\ session'[w].pc # "idle"
      /\ \A v \in Workers \ {w} : session'[v] = session[v]
  BY DEF StartJob, Working, TypeOK, Actors
<1>4. Running' = Running \cup {w} /\ w \notin Running
  BY <1>1, <1>3 DEF Running
<1> HIDE DEF a
<1>5. Waiting = Waiting' \cup {a}
  <2>1. ASSUME NEW i \in DOMAIN pending, i # 1
        PROVE  i - 1 \in DOMAIN pending' /\ pending'[i - 1] = pending[i]
    BY <1>2, <2>1
  <2>2. Waiting \subseteq Waiting' \cup {a}
    BY <1>2, <2>1 DEF Waiting
  <2>3. \A i \in DOMAIN pending' : i + 1 \in DOMAIN pending /\ pending'[i] = pending[i + 1]
    BY <1>2
  <2>4. Waiting' \cup {a} \subseteq Waiting
    BY <1>2, <2>3 DEF Waiting
  <2>5. QED
    BY <2>2, <2>4
<1>6. a \notin Waiting'
  BY <1>2 DEF Waiting, QueueMatchesPool
<1>7. \A i, j \in DOMAIN pending' : pending'[i] = pending'[j] => i = j
  BY <1>2 DEF QueueMatchesPool
<1>8. \A v \in Running : session'[v] = session[v] /\ session[v].asset # a
  <2>1. Running \subseteq Workers \ {w}
    BY <1>4 DEF Running
  <2>2. QED
    BY <1>3, <1>5, <2>1 DEF QueueMatchesPool
<1>9. queued' = Waiting' \cup {session'[v].asset : v \in Running'}
  BY <1>1, <1>3, <1>4, <1>5, <1>8 DEF QueueMatchesPool
<1>10. \A v \in Running' : session'[v].asset \notin Waiting'
  BY <1>3, <1>4, <1>5, <1>6, <1>8 DEF QueueMatchesPool
<1>11. \A u, v \in Running' : session'[u].asset = session'[v].asset => u = v
  BY <1>3, <1>4, <1>8 DEF QueueMatchesPool
<1>12. QED
  BY <1>7, <1>9, <1>10, <1>11 DEF QueueMatchesPool

LEMMA FinishJobKeepsPool ==
    ASSUME TypeOK, QueueMatchesPool, NEW w \in Workers, FinishJob(w)
    PROVE  QueueMatchesPool'
<1> DEFINE a == session[w].asset
<1>1. /\ w \in Running /\ queued' = queued \ {a} /\ pending' = pending
      /\ session' = [session EXCEPT ![w] = At("idle")]
  BY DEF FinishJob, Release, Leave, Running
<1>2. /\ session'[w].pc = "idle" /\ \A v \in Workers \ {w} : session'[v] = session[v]
  BY <1>1 DEF TypeOK, Actors, At, Working
<1>3. Running' = Running \ {w} /\ Waiting' = Waiting
  BY <1>1, <1>2 DEF Running, Waiting
<1>4. \A v \in Running' : session'[v] = session[v] /\ session[v].asset # a
  BY <1>1, <1>2, <1>3 DEF QueueMatchesPool, Running
<1>5. a \notin Waiting
  BY <1>1 DEF QueueMatchesPool
<1>6. queued' = Waiting' \cup {session'[v].asset : v \in Running'}
  <2>1. {session'[v].asset : v \in Running'} = {session[v].asset : v \in Running} \ {a}
    BY <1>1, <1>3, <1>4
  <2>2. QED
    BY <1>1, <1>3, <1>5, <2>1 DEF QueueMatchesPool
<1>7. QED
  BY <1>1, <1>3, <1>4, <1>6 DEF QueueMatchesPool

\* _queued holds exactly the assets with a job waiting or running in the
\* re-check pool, each once (queue_rechecks, _recheck_one).
THEOREM QueueAlwaysMatchesPool == Spec => []QueueMatchesPool
<1>1. Init => QueueMatchesPool
  BY AtTypes DEF Init, QueueMatchesPool, Waiting, Running, Actors
<1>2. TypeOK /\ QueueMatchesPool /\ [Next]_vars => QueueMatchesPool'
  <2> SUFFICES ASSUME TypeOK, QueueMatchesPool, [Next]_vars
               PROVE  QueueMatchesPool'
    OBVIOUS
  <2> USE ActorsAssumption
  <2>0. /\ Cycle \notin Workers /\ Requests \cap Workers = {}
        /\ \A w \in Workers : w \in Actors
    BY DEF Actors
  <2>1. ASSUME NEW x \in Actors, ReadPrevious(x) PROVE QueueMatchesPool'
    <3>1. \A w \in Workers : /\ session'[w].asset = session[w].asset
                             /\ session'[w].pc = "idle" <=> session[w].pc = "idle"
      BY <2>1, <2>0 DEF ReadPrevious, TypeOK, Session
    <3>2. QED
      BY <2>1, <3>1, PoolUntouched DEF ReadPrevious, pool
  <2>2. ASSUME NEW x \in Actors, Save(x) \/ SaveFails(x) PROVE QueueMatchesPool'
    <3>1. session[x].pc = "recording" /\ session[x] \in Session
      BY <2>2 DEF Save, SaveFails, TypeOK
    <3>2. PICK pc \in {"saved", "failed"} : AfterRecord(x, pc)
      BY <2>2 DEF Save, SaveFails
    <3>3. CASE x \in Workers
      <4>1. session' = [session EXCEPT ![x] = [session[x] EXCEPT !.pc = "finishing"]]
        BY <2>0, <3>2, <3>3 DEF AfterRecord, Goto
      <4>2. /\ [session[x] EXCEPT !.pc = "finishing"].asset = session[x].asset
            /\ [session[x] EXCEPT !.pc = "finishing"].pc = "finishing"
        BY <3>1 DEF Session
      <4>3. \A w \in Workers : /\ session'[w].asset = session[w].asset
                               /\ session'[w].pc = "idle" <=> session[w].pc = "idle"
        BY <2>0, <3>1, <4>1, <4>2 DEF TypeOK
      <4>4. QED
        BY <2>2, <4>3, PoolUntouched DEF Save, SaveFails, pool
    <3>4. CASE x \notin Workers
      <4>1. x = Cycle \/ x \in Requests
        BY <3>4 DEF Actors
      <4>2. \A w \in Workers : session'[w] = session[w]
        BY <2>0, <3>2, <3>4, <4>1 DEF AfterRecord, Goto, Leave, TypeOK
      <4>3. QED
        BY <2>2, <4>2, PoolUntouched DEF Save, SaveFails, pool
    <3>5. QED
      BY <3>3, <3>4
  <2>3. ASSUME NEW a \in Assets, QueueRecheck(a) PROVE QueueMatchesPool'
    BY <2>3, QueueRecheckKeepsPool
  <2>4. ASSUME NEW w \in Workers, StartJob(w) PROVE QueueMatchesPool'
    BY <2>4, StartJobKeepsPool
  <2>5. ASSUME NEW w \in Workers, FinishJob(w) PROVE QueueMatchesPool'
    BY <2>5, FinishJobKeepsPool
  <2>6. CASE StartCycle \/ CycleStep
    <3>1. (\E s : session' = [session EXCEPT ![Cycle] = s]) \/ session' = session
      BY <2>6 DEF StartCycle, CycleStep, SelectDue, NextResult, SkipEmpty, Goto,
         NextAsset, AbortCycle, FinishCycle, EndOfCycle, Leave
    <3>2. \A w \in Workers : session'[w] = session[w]
      BY <2>0, <3>1 DEF TypeOK
    <3>3. queued' = queued /\ pending' = pending
      BY <2>6 DEF StartCycle, CycleStep, SelectDue, NextResult, SkipEmpty,
         NextAsset, AbortCycle, FinishCycle, EndOfCycle, pool
    <3>4. QED
      BY <3>2, <3>3, PoolUntouched
  <2>7. ASSUME NEW r \in Requests, RequestStep(r) PROVE QueueMatchesPool'
    <3>1. \E s : session' = [session EXCEPT ![r] = s]
      BY <2>7 DEF RequestStep, Recheck, Delete, Create, CommitDelete, Leave
    <3>2. \A w \in Workers : session'[w] = session[w]
      BY <2>0, <2>7, <3>1 DEF TypeOK
    <3>3. queued' = queued /\ pending' = pending
      BY <2>7 DEF RequestStep, Recheck, Delete, Create, CommitDelete, pool
    <3>4. QED
      BY <3>2, <3>3, PoolUntouched
  <2>8. CASE Crash
    BY <2>0, <2>8, AtTypes DEF Crash, QueueMatchesPool, Waiting, Running
  <2>9. CASE UNCHANGED <<queued, pending, session>>
    BY <2>9, PoolUntouched
  <2>10. QED
    BY <2>1, <2>2, <2>3, <2>4, <2>5, <2>6, <2>7, <2>8, <2>9
       DEF Next, SetMonitored, Elapse, BulkCreate, vars, pool
<1>3. QED
  BY <1>1, <1>2, TypeCorrect, PTL DEF Spec

-----------------------------------------------------------------------------
(* First checks.  As long as assets are not deleted, the one that a create *)
(* request works on stays, and counts as checked until that first check is *)
(* saved: intervals are longer than it takes.                              *)

NothingDeleted == \A r \in Requests : session[r].pc # "deleting"

CreatedIsFresh ==
    \A r \in Requests : session[r].pc = "created" =>
        exists[session[r].asset] /\ fresh[session[r].asset]

LEMMA CreatedLeftAlone ==
    ASSUME TypeOK, NothingDeleted, CreatedIsFresh,
           \A a \in Assets : exists[a] /\ fresh[a] => exists'[a] /\ fresh'[a],
           \A r \in Requests : session'[r] = session[r]
                                \/ session'[r].pc \notin {"created", "deleting"}
    PROVE  NothingDeleted' /\ CreatedIsFresh'
<1>1. \A r \in Requests : session[r].pc = "created" => session[r].asset \in Assets
  BY DEF TypeOK, Session, Actors
<1>2. QED
  BY <1>1 DEF NothingDeleted, CreatedIsFresh

LEMMA CreatedStep ==
    ASSUME Deletable = {}, TypeOK, NothingDeleted, CreatedIsFresh, [Next]_vars
    PROVE  NothingDeleted' /\ CreatedIsFresh'
<1> DEFINE Stays == \A a \in Assets : exists[a] /\ fresh[a] => exists'[a] /\ fresh'[a]
           Away  == \A r \in Requests : session'[r] = session[r]
                                          \/ session'[r].pc \notin {"created", "deleting"}
<1>0. /\ session \in [Actors -> Session] /\ exists \in [Assets -> BOOLEAN]
      /\ fresh \in [Assets -> BOOLEAN]
      /\ Cycle \in Actors /\ Workers \subseteq Actors /\ Requests \subseteq Actors
      /\ Cycle \notin Requests /\ \A w \in Workers : w \notin Requests
  BY ActorsAssumption DEF TypeOK, Actors
<1>1. ASSUME NEW x \in Actors, ReadPrevious(x) PROVE Stays /\ Away
  <2>1. PICK s : session' = [session EXCEPT ![x] = s] /\ s.pc = "recording"
    <3>1. PICK o \in Outcomes, p \in AllOutcomes \cup {"none"} :
            session' = [session EXCEPT ![x] =
                          [session[x] EXCEPT !.pc = "recording", !.prev = p, !.result = o]]
      BY <1>1 DEF ReadPrevious
    <3>2. [session[x] EXCEPT !.pc = "recording", !.prev = p, !.result = o].pc = "recording"
      BY <1>0 DEF Session
    <3>3. QED
      BY <3>1, <3>2
  <2>2. QED
    BY <1>0, <1>1, <2>1 DEF ReadPrevious, db
<1>2. ASSUME NEW x \in Actors, NEW place \in {"saved", "failed"}, AfterRecord(x, place) PROVE Away
  <2>1. CASE x \in Requests
    BY <1>0, <1>2, <2>1, AtTypes DEF AfterRecord, Leave
  <2>2. CASE x \notin Requests
    BY <1>0, <1>2, <2>2 DEF AfterRecord, Goto, Actors
  <2>3. QED
    BY <2>1, <2>2
<1>3. ASSUME NEW x \in Actors, Save(x) PROVE Stays /\ Away
  BY <1>0, <1>2, <1>3 DEF Save
<1>4. ASSUME NEW x \in Actors, SaveFails(x) PROVE Stays /\ Away
  BY <1>0, <1>2, <1>4 DEF SaveFails, db
<1>5. CASE StartCycle \/ CycleStep
  <2>1. \A r \in Requests : session'[r] = session[r]
    BY <1>0, <1>5 DEF StartCycle, CycleStep, SelectDue, NextAsset, AbortCycle, FinishCycle,
       EndOfCycle, NextResult, SkipEmpty, Goto, Leave
  <2>2. UNCHANGED <<exists, fresh>>
    BY <1>5 DEF StartCycle, CycleStep, SelectDue, NextAsset, AbortCycle, FinishCycle, Prune,
       NextResult, SkipEmpty, db
  <2>3. QED
    BY <2>1, <2>2, CreatedLeftAlone
<1>6. ASSUME NEW w \in Workers, StartJob(w) \/ FinishJob(w) PROVE Stays /\ Away
  BY <1>0, <1>6 DEF StartJob, FinishJob, Leave, db
<1>7. ASSUME NEW r \in Requests, NEW a \in Assets, Recheck(r, a) PROVE Stays /\ Away
  BY <1>0, <1>7 DEF Recheck, Working, db
<1>8. ASSUME NEW r \in Requests PROVE ~CommitDelete(r) /\ \A a \in Assets : ~Delete(r, a)
  BY <1>8 DEF CommitDelete, Delete, NothingDeleted
<1>9. ASSUME NEW a \in Assets, NEW on \in BOOLEAN, NEW checked \in BOOLEAN,
             Insert(a, on, checked)
      PROVE  Stays
  <2>1. ~exists[a]
    BY <1>9, BoundsAssumption DEF Insert, NewAssetId, Assets
  <2>2. QED
    BY <1>0, <1>9, <2>1 DEF Insert
<1>10. ASSUME NEW r \in Requests, NEW a \in Assets, NEW on \in BOOLEAN, Create(r, a, on)
       PROVE  NothingDeleted' /\ CreatedIsFresh'
  <2>1. Stays /\ exists'[a] /\ fresh'[a]
    BY <1>0, <1>9, <1>10 DEF Create, Insert, LastChecked
  <2>2. \E s : /\ session' = [session EXCEPT ![r] = s]
               /\ s.pc = "idle" \/ (s.pc = "created" /\ s.asset = a)
    <3> DEFINE s == IF a \in NoToggles THEN At("idle") ELSE Working("created", a, FALSE)
    <3>1. session' = [session EXCEPT ![r] = s]
      BY <1>10 DEF Create
    <3>2. s.pc = "idle" \/ (s.pc = "created" /\ s.asset = a)
      <4>1. At("idle").pc = "idle"
        BY AtTypes
      <4>2. Working("created", a, FALSE).pc = "created" /\ Working("created", a, FALSE).asset = a
        BY DEF Working
      <4>3. s = At("idle") \/ s = Working("created", a, FALSE)
        OBVIOUS
      <4> HIDE DEF s
      <4>4. QED
        BY <4>1, <4>2, <4>3
    <3> HIDE DEF s
    <3>3. QED
      BY <3>1, <3>2
  <2>3. \A q \in Requests : \/ session'[q] = session[q]
                            \/ session'[q].pc = "idle"
                            \/ session'[q].pc = "created" /\ session'[q].asset = a
    BY <1>0, <2>2
  <2>4. \A q \in Requests : session[q].pc = "created" => session[q].asset \in Assets
    BY DEF TypeOK, Session, Actors
  <2>5. QED
    BY <2>1, <2>3, <2>4 DEF NothingDeleted, CreatedIsFresh
<1>11. ASSUME NEW a \in Assets, NEW on \in BOOLEAN, BulkCreate(a, on) PROVE Stays /\ Away
  BY <1>9, <1>11 DEF BulkCreate
<1>12. ASSUME NEW a \in Assets, QueueRecheck(a) \/ SetMonitored(a) PROVE Stays /\ Away
  BY <1>12 DEF QueueRecheck, SetMonitored, db
<1>13. ASSUME NEW a \in Assets, Elapse(a) PROVE NothingDeleted' /\ CreatedIsFresh'
  <2>1. \A q \in Requests : session[q].pc = "created" => session[q].asset \in Assets \ {a}
    BY <1>0, <1>13 DEF Elapse, Session
  <2>2. /\ fresh' = [fresh EXCEPT ![a] = FALSE] /\ UNCHANGED <<exists, session>>
    BY <1>13 DEF Elapse
  <2>3. QED
    BY <1>0, <2>1, <2>2 DEF NothingDeleted, CreatedIsFresh
<1>14. CASE Crash
  BY <1>0, <1>14, AtTypes DEF Crash, NothingDeleted, CreatedIsFresh
<1>15. CASE UNCHANGED vars
  BY <1>15, CreatedLeftAlone DEF vars, db
<1>16. Stays /\ Away => NothingDeleted' /\ CreatedIsFresh'
  BY CreatedLeftAlone
<1> HIDE DEF Stays, Away
<1>17. QED
  BY <1>1, <1>3, <1>4, <1>5, <1>6, <1>7, <1>8, <1>10, <1>11, <1>12, <1>13, <1>14, <1>15, <1>16
     DEF Next, RequestStep

\* As long as nothing is deleted, no cycle takes up an asset whose first check
\* still runs in the request that created it (create_hostname, due_hostnames).
THEOREM FirstCheckIsLeftAlone ==
    ASSUME Deletable = {}
    PROVE  Spec => CreatedIsNotDue
<1> DEFINE Inv == NothingDeleted /\ CreatedIsFresh
           NotDue == session[Cycle].pc = "selecting" /\ session'[Cycle].pc = "saving" =>
                       \A r \in Requests : session[r].pc = "created"
                                            => session[r].asset \notin todo'
<1>1. Init => Inv
  BY AtTypes DEF Init, NothingDeleted, CreatedIsFresh, Actors
<1>2. TypeOK /\ Inv /\ [Next]_vars => Inv'
  BY CreatedStep
<1>3. TypeOK /\ Inv /\ [Next]_vars => NotDue
  <2> SUFFICES ASSUME TypeOK, Inv, [Next]_vars, session[Cycle].pc = "selecting",
                      session'[Cycle].pc = "saving"
               PROVE  SelectDue
    BY DEF SelectDue, Due, CreatedIsFresh
  <2>0. Cycle \in Actors /\ session \in [Actors -> Session]
    BY DEF TypeOK, Actors
  <2>1. ASSUME NEW x \in Actors, ReadPrevious(x) \/ Save(x) \/ SaveFails(x) PROVE FALSE
    <3>1. x # Cycle
      BY <2>1 DEF ReadPrevious, Save, SaveFails
    <3>2. session'[Cycle] = session[Cycle]
      BY <2>0, <2>1, <3>1 DEF ReadPrevious, Save, SaveFails, AfterRecord, Goto, Leave, Actors
    <3>3. QED
      BY <3>2
  <2>2. ~StartCycle /\ ~NextAsset /\ ~AbortCycle /\ ~FinishCycle
    BY DEF StartCycle, NextAsset, AbortCycle, LoopRaises, FinishCycle
  <2>3. \A a \in Assets : ~NextResult(a) /\ ~SkipEmpty(a)
    BY DEF NextResult, SkipEmpty
  <2>4. ASSUME session'[Cycle] = session[Cycle] PROVE FALSE
    BY <2>4
  <2>5. \A w \in Workers : ~StartJob(w) /\ ~FinishJob(w)
    BY <2>0, <2>4, ActorsAssumption DEF StartJob, FinishJob, Leave
  <2>6. \A r \in Requests : ~RequestStep(r)
    BY <2>0, <2>4, ActorsAssumption DEF RequestStep, Recheck, Delete, Create, CommitDelete, Leave
  <2>7. \A a \in Assets : ~QueueRecheck(a) /\ ~SetMonitored(a) /\ ~Elapse(a)
                          /\ \A on \in BOOLEAN : ~BulkCreate(a, on)
    BY <2>4 DEF QueueRecheck, SetMonitored, Elapse, BulkCreate
  <2>8. ~Crash
    BY <2>0, AtTypes DEF Crash
  <2>9. QED
    BY <2>1, <2>2, <2>3, <2>4, <2>5, <2>6, <2>7, <2>8 DEF Next, CycleStep, vars
<1>4. QED
  BY <1>1, <1>2, <1>3, TypeCorrect, PTL DEF Spec, CreatedIsNotDue

-----------------------------------------------------------------------------
(* The flag and the log while only the check cycle records results and     *)
(* nothing is deleted: no pool job and no request does either.  Users add  *)
(* assets, switch monitoring and queue re-checks; saves may fail and the   *)
(* process may die.  With a second recorder this is false.                 *)

OneRecorder == Workers = {} /\ Requests = {}

-----------------------------------------------------------------------------
(* What the cycle holds is true when it uses it: nothing but its own saves *)
(* changes the flag of an asset that exists, and it loads every object     *)
(* afresh after each of these.                                             *)

RowsHaveAssets ==
    /\ \A c \in checks : exists[c.asset] /\ c.outcome \in Outcomes
    /\ \A a \in todo : exists[a]

LoadedIsFlag ==
    /\ session[Cycle].pc = "saving" /\ ~expired => \A a \in todo : loaded[a] = flag[a]
    /\ session[Cycle].pc \in {"saved", "failed"} => expired

HeldIsTrue ==
    /\ session[Cycle].pc \in {"loaded", "recording", "saved", "failed"} =>
         exists[session[Cycle].asset]
    /\ session[Cycle].pc \in {"loaded", "recording"} =>
         session[Cycle].flag = flag[session[Cycle].asset]

PreviousIsLatest ==
    session[Cycle].pc = "recording" =>
        /\ session[Cycle].result \in Outcomes
        /\ LatestOutcome(session[Cycle].asset, session[Cycle].prev)

RecorderInv ==
    /\ RowsHaveAssets /\ LoadedIsFlag /\ HeldIsTrue /\ PreviousIsLatest
    /\ session[Cycle].pc \notin {"created", "finishing", "deleting"}
    /\ FlagIsLastConclusive

LEMMA RecorderInit == Init => RecorderInv
<1> SUFFICES ASSUME Init PROVE RecorderInv
  OBVIOUS
<1>1. session[Cycle].pc = "idle"
  BY AtTypes DEF Init, Actors
<1>2. QED
  BY <1>1 DEF Init, RecorderInv, RowsHaveAssets, LoadedIsFlag, HeldIsTrue, PreviousIsLatest,
     FlagIsLastConclusive

\* The steps that leave the rows and the flags alone.
LEMMA FlagsLeftAlone ==
    ASSUME FlagIsLastConclusive, UNCHANGED <<checks, flag>>
    PROVE  FlagIsLastConclusive'
  BY DEF FlagIsLastConclusive

LEMMA IdleCycle ==
    ASSUME TypeOK, RecorderInv, todo' = {},
           session'[Cycle].pc \in {"idle", "selecting"},
           \A c \in checks' : c \in checks, exists' = exists,
           FlagIsLastConclusive'
    PROVE  RecorderInv'
  BY DEF RecorderInv, RowsHaveAssets, LoadedIsFlag, HeldIsTrue, PreviousIsLatest

\* The steps of users and of time.
LEMMA OthersLeaveRecorderAlone ==
    ASSUME TypeOK, RecorderInv, UNCHANGED <<exists, checks, flag, loaded, expired, todo, session>>
    PROVE  RecorderInv'
  BY DEF RecorderInv, RowsHaveAssets, LoadedIsFlag, HeldIsTrue, PreviousIsLatest,
     LatestOutcome, FlagIsLastConclusive

\* A new asset has no rows yet, and is none of those the cycle works on.
LEMMA BulkCreateKeepsRecorder ==
    ASSUME TypeOK, RecorderInv, NEW a \in Assets, NEW on \in BOOLEAN, BulkCreate(a, on)
    PROVE  RecorderInv'
<1>1. /\ exists' = [exists EXCEPT ![a] = TRUE] /\ flag' = [flag EXCEPT ![a] = FALSE]
      /\ UNCHANGED <<checks, loaded, expired, todo, session>>
  BY DEF BulkCreate, Insert, cycle
<1>2. ~exists[a]
  BY BoundsAssumption DEF BulkCreate, Insert, NewAssetId, Assets
<1>3. \A b \in Assets : exists[b] => b # a /\ exists'[b] /\ flag'[b] = flag[b]
  BY <1>1, <1>2 DEF TypeOK
<1>4. \A c \in checks : c.asset \in Assets
  BY DEF TypeOK, CheckRow
<1>5. RowsHaveAssets'
  BY <1>1, <1>3, <1>4 DEF RecorderInv, RowsHaveAssets, TypeOK
<1>6. LoadedIsFlag'
  BY <1>1, <1>3 DEF RecorderInv, RowsHaveAssets, LoadedIsFlag, TypeOK
<1>7. HeldIsTrue'
  <2>1. session[Cycle].pc \in {"loaded", "recording", "saved", "failed"}
          => session[Cycle].asset \in Assets
    BY DEF TypeOK, Session, Actors
  <2>2. QED
    BY <1>1, <1>3, <2>1 DEF RecorderInv, HeldIsTrue
<1>8. PreviousIsLatest'
  BY <1>1 DEF RecorderInv, PreviousIsLatest, LatestOutcome
<1>9. FlagIsLastConclusive'
  BY <1>1, <1>3, <1>4 DEF RecorderInv, RowsHaveAssets, FlagIsLastConclusive
<1>10. QED
  BY <1>1, <1>5, <1>6, <1>7, <1>8, <1>9 DEF RecorderInv

\* Pruning takes historical rows up to an id.  It cannot take the newest
\* conclusive row of an asset and spare an older one: that one would be the
\* current row, and so the newest.
LEMMA PruneKeepsFlags ==
    ASSUME TypeOK, CurrentIsTheNewest, FlagIsLastConclusive, NEW k \in Nat, Prune(k)
    PROVE  FlagIsLastConclusive'
<1>1. /\ checks' = {c \in checks : ~(c.status = "historical" /\ c.id <= k)}
      /\ flag' = flag
  BY DEF Prune
<1>2. SUFFICES ASSUME NEW c \in checks', c.outcome \in Conclusive,
                      \A d \in checks' : d.asset = c.asset /\ d.outcome \in Conclusive
                                           => d.id <= c.id
               PROVE  flag[c.asset] <=> c.outcome = "listed"
  BY <1>1 DEF FlagIsLastConclusive
<1>3. ASSUME NEW d \in checks, d.asset = c.asset, d.outcome \in Conclusive
      PROVE  d.id <= c.id
  <2>1. CASE d \in checks'
    BY <1>2, <1>3, <2>1
  <2>2. CASE d \notin checks'
    <3>1. d.status = "historical" /\ d.id <= k
      BY <1>1, <1>3, <2>2
    <3>2. c \in checks /\ (c.status = "current" \/ k < c.id)
      BY <1>1 DEF TypeOK, CheckRow
    <3>3. c.id \in Nat /\ d.id \in Nat
      BY <3>2 DEF TypeOK, CheckRow
    <3>4. CASE c.status = "current"
      BY <1>3, <3>1, <3>2, <3>3, <3>4 DEF CurrentIsTheNewest
    <3>5. CASE k < c.id
      BY <3>1, <3>3, <3>5
    <3>6. QED
      BY <3>2, <3>4, <3>5
  <2>3. QED
    BY <2>1, <2>2
<1>4. QED
  BY <1>1, <1>2, <1>3 DEF FlagIsLastConclusive

\* What the cycle's save writes: the flag that its result calls for.
LEMMA FlagWrittenIsRight ==
    ASSUME TypeOK, HeldIsTrue, Save(Cycle)
    PROVE  /\ session[Cycle].result \in Conclusive =>
                (FlagWritten(session[Cycle]) <=> session[Cycle].result = "listed")
           /\ session[Cycle].result \notin Conclusive =>
                FlagWritten(session[Cycle]) = flag[session[Cycle].asset]
<1>1. session[Cycle].pc = "recording" /\ session[Cycle] \in Session
  BY DEF Save, TypeOK, Actors
<1>2. session[Cycle].flag = flag[session[Cycle].asset] /\ session[Cycle].flag \in BOOLEAN
  BY <1>1 DEF HeldIsTrue, Session
<1>3. CASE session[Cycle].flag = TRUE
  BY <1>2, <1>3 DEF FlagWritten
<1>4. CASE session[Cycle].flag = FALSE
  BY <1>2, <1>4 DEF FlagWritten
<1>5. QED
  BY <1>2, <1>3, <1>4

LEMMA SaveKeepsFlags ==
    ASSUME TypeOK, RecorderInv, Save(Cycle)
    PROVE  RowsHaveAssets' /\ FlagIsLastConclusive'
<1> DEFINE s == session[Cycle]
           a == s.asset
<1>1. PICK i \in 1..MaxChecks :
        /\ NewCheckId(i)
        /\ checks' = MarkHistorical(checks, a) \cup
                       {[id |-> i, asset |-> a, status |-> "current", outcome |-> s.result]}
  BY DEF Save
<1> DEFINE new == [id |-> i, asset |-> a, status |-> "current", outcome |-> s.result]
<1>2. /\ s.pc = "recording" /\ a \in Assets /\ s.result \in Outcomes /\ exists[a]
      /\ UNCHANGED <<exists, todo>>
  BY DEF Save, RowMatched, TypeOK, Session, Actors, RecorderInv, PreviousIsLatest
<1>3. flag' = [flag EXCEPT ![a] = FlagWritten(s)]
  BY DEF Save
<1>4. /\ s.result \in Conclusive => (flag'[a] <=> s.result = "listed")
      /\ s.result \notin Conclusive => flag'[a] = flag[a]
      /\ \A b \in Assets \ {a} : flag'[b] = flag[b]
  BY <1>2, <1>3, FlagWrittenIsRight DEF TypeOK, RecorderInv
<1> HIDE DEF a, s
\* A row of the new table is the new one or was there, with what counts here.
<1>5. ASSUME NEW c \in checks', c # new
      PROVE  \E b \in checks : /\ b.id = c.id /\ b.asset = c.asset /\ b.outcome = c.outcome
                               /\ b.id < i
  BY <1>1, <1>5 DEF MarkHistorical, NewCheckId, TypeOK, CheckRow
<1>6. ASSUME NEW b \in checks
      PROVE  \E c \in checks' : b.id = c.id /\ b.asset = c.asset /\ b.outcome = c.outcome
  <2> DEFINE c == IF b.asset = a THEN [b EXCEPT !.status = "historical"] ELSE b
  <2>1. c \in checks'
    BY <1>1 DEF MarkHistorical
  <2>2. b.id = c.id /\ b.asset = c.asset /\ b.outcome = c.outcome
    BY DEF TypeOK, CheckRow
  <2>3. QED
    BY <2>1, <2>2
<1>7. new \in checks' /\ new.id = i /\ new.asset = a /\ new.outcome = s.result
  BY <1>1
<1> HIDE DEF new
<1>8. RowsHaveAssets'
  BY <1>2, <1>5, <1>7 DEF RecorderInv, RowsHaveAssets
<1>9. FlagIsLastConclusive'
  <2>1. SUFFICES ASSUME NEW c \in checks', c.outcome \in Conclusive,
                        \A d \in checks' : d.asset = c.asset /\ d.outcome \in Conclusive
                                             => d.id <= c.id
                 PROVE  flag'[c.asset] <=> c.outcome = "listed"
    BY DEF FlagIsLastConclusive
  <2>2. CASE c = new
    BY <1>4, <1>7, <2>1, <2>2
  <2>3. CASE c # new
    <3>1. PICK b \in checks : b.id = c.id /\ b.asset = c.asset /\ b.outcome = c.outcome /\ b.id < i
      BY <1>5, <2>3
    <3>2. b.id \in Nat /\ b.asset \in Assets /\ i \in Nat
      BY DEF TypeOK, CheckRow
    <3>3. ASSUME NEW d \in checks, d.asset = b.asset, d.outcome \in Conclusive
          PROVE  d.id <= b.id
      BY <1>6, <2>1, <3>1, <3>3
    <3>4. flag[b.asset] <=> b.outcome = "listed"
      BY <2>1, <3>1, <3>3 DEF RecorderInv, FlagIsLastConclusive
    <3>5. c.asset = a => s.result \notin Conclusive
      BY <1>7, <2>1, <3>1, <3>2
    <3>6. QED
      BY <1>4, <3>1, <3>2, <3>4, <3>5
  <2>4. QED
    BY <2>2, <2>3
<1>10. QED
  BY <1>8, <1>9

\* A result that was conclusive agrees with the flag: its row, the current one,
\* is the newest.
LEMMA LatestAgreesWithFlag ==
    ASSUME TypeOK, CurrentIsTheNewest, FlagIsLastConclusive,
           NEW a \in Assets, NEW p \in Conclusive, LatestOutcome(a, p)
    PROVE  flag[a] <=> p = "listed"
<1>1. PICK c \in checks : c.asset = a /\ c.status = "current" /\ c.outcome = p
  BY DEF LatestOutcome, Conclusive
<1>2. ASSUME NEW d \in checks, d.asset = a PROVE d.id <= c.id
  <2>1. c.id \in Nat /\ d.id \in Nat
    BY DEF TypeOK, CheckRow
  <2>2. QED
    BY <1>1, <1>2, <2>1 DEF CurrentIsTheNewest
<1>3. QED
  BY <1>1, <1>2 DEF FlagIsLastConclusive

-----------------------------------------------------------------------------
(* Each step of the cycle. *)

LEMMA CycleGoesOn ==
    ASSUME TypeOK, NEW place \in {"saved", "failed"}, AfterRecord(Cycle, place)
    PROVE  /\ session'[Cycle].pc = place /\ session'[Cycle].asset = session[Cycle].asset
           /\ expired'
<1>1. session \in [Actors -> Session] /\ Cycle \in Actors /\ session[Cycle] \in Session
  BY DEF TypeOK, Actors
<1>2. session' = [session EXCEPT ![Cycle] = [session[Cycle] EXCEPT !.pc = place]]
  BY ActorsAssumption DEF AfterRecord, Goto
<1>3. session'[Cycle] = [session[Cycle] EXCEPT !.pc = place]
  BY <1>1, <1>2
<1>4. expired'
  BY DEF AfterRecord
<1>5. QED
  BY <1>1, <1>3, <1>4 DEF Session

LEMMA CycleKeepsRecorder ==
    ASSUME TypeOK, CurrentIsTheNewest, RecorderInv,
           \/ ReadPrevious(Cycle) \/ Save(Cycle) \/ SaveFails(Cycle)
           \/ StartCycle \/ CycleStep
    PROVE  RecorderInv'
<1>0. /\ Cycle \in Actors /\ session \in [Actors -> Session]
      /\ session[Cycle].pc \in {"loaded", "recording", "saved", "failed"}
           => session[Cycle].asset \in Assets
  BY DEF TypeOK, Session, Actors
<1>1. CASE ReadPrevious(Cycle)
  <2>1. session[Cycle].pc = "loaded" /\ UNCHANGED <<exists, checks, flag, loaded, expired, todo>>
    BY <1>1 DEF ReadPrevious, RecorderInv, db, cycle
  <2>2. PICK o \in Outcomes, p \in AllOutcomes \cup {"none"} :
          /\ LatestOutcome(session[Cycle].asset, p)
          /\ session' = [session EXCEPT ![Cycle] =
                           [@ EXCEPT !.pc = "recording", !.prev = p, !.result = o]]
    BY <1>1 DEF ReadPrevious
  <2>3. /\ session'[Cycle].pc = "recording" /\ session'[Cycle].prev = p
        /\ session'[Cycle].result = o /\ session'[Cycle].flag = session[Cycle].flag
        /\ session'[Cycle].asset = session[Cycle].asset
    BY <1>0, <2>2 DEF Session
  <2>4. QED
    BY <2>1, <2>2, <2>3 DEF RecorderInv, RowsHaveAssets, LoadedIsFlag, HeldIsTrue,
       PreviousIsLatest, LatestOutcome, FlagIsLastConclusive
<1>2. CASE Save(Cycle)
  <2>1. /\ session'[Cycle].pc = "saved" /\ expired'
        /\ session'[Cycle].asset = session[Cycle].asset /\ exists'[session[Cycle].asset]
    BY <1>2, CycleGoesOn DEF Save, RowMatched
  <2>2. QED
    BY <1>2, <2>1, SaveKeepsFlags DEF RecorderInv, LoadedIsFlag, HeldIsTrue, PreviousIsLatest
<1>3. CASE SaveFails(Cycle)
  <2>1. /\ AfterRecord(Cycle, "failed") /\ session[Cycle].pc = "recording"
        /\ UNCHANGED <<exists, checks, flag, todo>>
    BY <1>3 DEF SaveFails, db
  <2>2. /\ session'[Cycle].pc = "failed" /\ expired'
        /\ session'[Cycle].asset = session[Cycle].asset
    BY <2>1, CycleGoesOn
  <2>3. QED
    BY <2>1, <2>2 DEF RecorderInv, RowsHaveAssets, LoadedIsFlag, HeldIsTrue, PreviousIsLatest,
       FlagIsLastConclusive
<1>4. CASE StartCycle
  <2>1. session'[Cycle].pc = "selecting" /\ UNCHANGED <<exists, checks, flag, todo>>
    BY <1>0, <1>4 DEF StartCycle, Goto, Session, db
  <2>2. QED
    BY <2>1 DEF RecorderInv, RowsHaveAssets, LoadedIsFlag, HeldIsTrue, PreviousIsLatest,
       FlagIsLastConclusive
<1>5. CASE SelectDue
  <2>1. session'[Cycle].pc = "saving" /\ UNCHANGED <<exists, checks, flag>>
    BY <1>0, <1>5 DEF SelectDue, Goto, Session, db
  <2>2. /\ todo' \subseteq Assets /\ \A a \in todo' : exists[a]
        /\ loaded' = [a \in Assets |-> flag[a] /\ a \in todo']
    BY <1>5 DEF SelectDue, Due
  <2>3. \A a \in todo' : loaded'[a] = flag[a]
    <3>1. ASSUME NEW a \in todo' PROVE loaded'[a] = flag[a]
      <4>1. flag[a] \in BOOLEAN
        BY <2>2 DEF TypeOK
      <4>2. loaded'[a] = (flag[a] /\ a \in todo')
        BY <2>2
      <4>3. QED
        BY <4>1, <4>2
    <3>2. QED
      BY <3>1
  <2>4. QED
    BY <2>1, <2>2, <2>3 DEF RecorderInv, RowsHaveAssets, LoadedIsFlag, HeldIsTrue,
       PreviousIsLatest, FlagIsLastConclusive
<1>6. ASSUME NEW a \in Assets, NextResult(a) PROVE RecorderInv'
  <2>1. /\ session[Cycle].pc = "saving" /\ a \in todo
        /\ UNCHANGED <<exists, checks, flag, loaded, expired, todo>>
        /\ session' = [session EXCEPT ![Cycle] =
                         Working("loaded", a, IF expired THEN flag[a] ELSE loaded[a])]
    BY <1>6 DEF NextResult, db, cycle
  <2>2. exists[a] /\ (IF expired THEN flag[a] ELSE loaded[a]) = flag[a]
    BY <2>1 DEF RecorderInv, RowsHaveAssets, LoadedIsFlag
  <2>3. /\ session'[Cycle].pc = "loaded" /\ session'[Cycle].asset = a
        /\ session'[Cycle].flag = flag[a]
    BY <1>0, <2>1, <2>2 DEF Working
  <2>4. QED
    BY <2>1, <2>2, <2>3 DEF RecorderInv, RowsHaveAssets, LoadedIsFlag, HeldIsTrue,
       PreviousIsLatest, FlagIsLastConclusive
<1>7. ASSUME NEW a \in Assets, SkipEmpty(a) PROVE RecorderInv'
  <2>1. /\ session[Cycle].pc = "saving" /\ todo' \subseteq todo
        /\ UNCHANGED <<exists, checks, flag, loaded, expired, session>>
    BY <1>7 DEF SkipEmpty, db
  <2>2. QED
    BY <2>1 DEF RecorderInv, RowsHaveAssets, LoadedIsFlag, HeldIsTrue, PreviousIsLatest,
       FlagIsLastConclusive
<1>8. CASE NextAsset
  <2>1. /\ session'[Cycle].pc = "saving" /\ todo' \subseteq todo
        /\ UNCHANGED <<exists, checks, flag, loaded, expired>>
    BY <1>0, <1>8, AtTypes DEF NextAsset, db
  <2>2. expired
    BY <1>8 DEF NextAsset, RecorderInv, LoadedIsFlag
  <2>3. QED
    BY <2>1, <2>2 DEF RecorderInv, RowsHaveAssets, LoadedIsFlag, HeldIsTrue,
       PreviousIsLatest, FlagIsLastConclusive
<1>9. CASE AbortCycle
  <2>1. session'[Cycle].pc = "idle" /\ todo' = {} /\ UNCHANGED <<exists, checks, flag>>
    BY <1>0, <1>9, AtTypes DEF AbortCycle, EndOfCycle, Leave, db
  <2>2. QED
    BY <2>1, IdleCycle, FlagsLeftAlone DEF RecorderInv
<1>10. CASE FinishCycle
  <2>1. session'[Cycle].pc = "idle" /\ todo' = {}
    BY <1>0, <1>10, AtTypes DEF FinishCycle, EndOfCycle, Leave
  <2>2. PICK k \in Nat : Prune(k)
    BY <1>10, BoundsAssumption DEF FinishCycle
  <2>3. FlagIsLastConclusive'
    BY <2>2, PruneKeepsFlags DEF RecorderInv
  <2>4. exists' = exists /\ \A c \in checks' : c \in checks
    BY <2>2 DEF Prune
  <2>5. QED
    BY <2>1, <2>3, <2>4, IdleCycle
<1>11. QED
  BY <1>1, <1>2, <1>3, <1>4, <1>5, <1>6, <1>7, <1>8, <1>9, <1>10 DEF CycleStep

LEMMA RecorderStep ==
    ASSUME OneRecorder, TypeOK, CurrentIsTheNewest, RecorderInv, [Next]_vars
    PROVE  RecorderInv'
<1>1. Actors = {Cycle}
  BY DEF OneRecorder, Actors
<1>2. ASSUME NEW x \in Actors, ReadPrevious(x) \/ Save(x) \/ SaveFails(x) PROVE RecorderInv'
  BY <1>1, <1>2, CycleKeepsRecorder
<1>3. CASE StartCycle \/ CycleStep
  BY <1>3, CycleKeepsRecorder
<1>4. ASSUME NEW a \in Assets, QueueRecheck(a) \/ SetMonitored(a) \/ Elapse(a) PROVE RecorderInv'
  BY <1>4, OthersLeaveRecorderAlone DEF QueueRecheck, SetMonitored, Elapse, db, cycle
<1>5. ASSUME NEW a \in Assets, NEW on \in BOOLEAN, BulkCreate(a, on) PROVE RecorderInv'
  BY <1>5, BulkCreateKeepsRecorder
<1>6. CASE Crash
  <2>1. session'[Cycle].pc = "idle" /\ todo' = {} /\ UNCHANGED <<exists, checks, flag>>
    BY <1>6, AtTypes DEF Crash, Actors, db
  <2>2. QED
    BY <2>1, IdleCycle, FlagsLeftAlone DEF RecorderInv
<1>7. CASE UNCHANGED vars
  BY <1>7, OthersLeaveRecorderAlone DEF vars, db, cycle
<1>8. QED
  BY <1>2, <1>3, <1>4, <1>5, <1>6, <1>7 DEF Next, OneRecorder

LEMMA RecorderAlways == ASSUME OneRecorder PROVE Spec => [](TypeOK /\ CurrentIsTheNewest /\ RecorderInv)
<1>1. TypeOK /\ CurrentIsTheNewest /\ RecorderInv /\ [Next]_vars => RecorderInv'
  BY RecorderStep
<1>2. QED
  BY <1>1, RecorderInit, TypeCorrect, CurrentRowIsTheNewest, PTL DEF Spec

\* While only the cycle records and nothing is deleted, is_blacklisted is what
\* the newest conclusive check of the asset found, whatever fails, dies or is
\* pruned, inconclusive runs included (record_check, prune_history).
THEOREM FlagFollowsChecks ==
    ASSUME OneRecorder
    PROVE  Spec => []FlagIsLastConclusive
<1>1. RecorderInv => FlagIsLastConclusive
  BY DEF RecorderInv
<1>2. QED
  BY <1>1, RecorderAlways, PTL

-----------------------------------------------------------------------------
(* The log.  The previous result, where it is usable, agrees with the flag *)
(* that the session has loaded; so the events are the changes of the flag. *)
(* An inconclusive result would break this: without a listing it hides one *)
(* that stands, with one it hides that none was reported.                  *)

NoneUnclear == Outcomes \cap {"partial", "unclear"} = {}

LEMMA EventsAreChanges ==
    ASSUME NoneUnclear, TypeOK, CurrentIsTheNewest, RecorderInv, Save(Cycle)
    PROVE  LET s == session[Cycle]
           IN  /\ s.result = "listed" /\ ~flag[s.asset] => DetectedKind(s) = "listed"
               /\ s.result = "clean" /\ flag[s.asset] => DetectedKind(s) = "delisted"
               /\ DetectedKind(s) = "listed" => s.result = "listed" /\ ~flag[s.asset]
               /\ DetectedKind(s) = "delisted" => s.result = "clean" /\ flag[s.asset]
               /\ DetectedKind(s) \in EventKind
<1> DEFINE s == session[Cycle]
           was == IF s.prev \in AllOutcomes \ {"error"} THEN s.prev \in {"listed", "partial"} ELSE s.flag
<1>1. /\ s \in Session /\ s.pc = "recording" /\ s.asset \in Assets
      /\ LatestOutcome(s.asset, s.prev)
      /\ s.flag = flag[s.asset] /\ flag[s.asset] \in BOOLEAN
  BY DEF Save, TypeOK, Session, Actors, RecorderInv, PreviousIsLatest, HeldIsTrue
<1>2. s.prev \notin {"partial", "unclear"}
  BY <1>1 DEF NoneUnclear, LatestOutcome, RecorderInv, RowsHaveAssets
<1>3. was <=> flag[s.asset]
  <2>1. CASE s.prev \in Conclusive
    BY <1>1, <2>1, LatestAgreesWithFlag DEF RecorderInv, Conclusive, AllOutcomes
  <2>2. CASE s.prev \notin Conclusive
    BY <1>1, <1>2, <2>2 DEF Conclusive, AllOutcomes
  <2>3. QED
    BY <2>1, <2>2
<1>4. DetectedKind(s) = CASE s.result = "listed" /\ ~was -> "listed"
                          [] s.result = "clean" /\ was   -> "delisted"
                          [] OTHER                       -> "none"
  BY DEF DetectedKind
<1> HIDE DEF was
<1>5. CASE flag[s.asset] = TRUE
  BY <1>3, <1>4, <1>5 DEF EventKind
<1>6. CASE flag[s.asset] = FALSE
  BY <1>3, <1>4, <1>6 DEF EventKind
<1>7. QED
  BY <1>1, <1>5, <1>6

LEMMA SaveKeepsTold ==
    ASSUME NoneUnclear, TypeOK, CurrentIsTheNewest, RecorderInv, ToldMatchesFlag, Save(Cycle)
    PROVE  ToldMatchesFlag'
<1> DEFINE s == session[Cycle]
           a == s.asset
           k == DetectedKind(s)
<1>1. /\ a \in Assets /\ s.result \in AllOutcomes
      /\ flag' = [flag EXCEPT ![a] = FlagWritten(s)]
      /\ told' = [told EXCEPT ![a] = IF k = "none" THEN @ ELSE k]
  BY DEF Save, TypeOK, Session, Actors
<1>2. /\ s.result \in Conclusive => (flag'[a] <=> s.result = "listed")
      /\ s.result \notin Conclusive => flag'[a] = flag[a]
      /\ told'[a] = IF k = "none" THEN told[a] ELSE k
      /\ \A b \in Assets \ {a} : flag'[b] = flag[b] /\ told'[b] = told[b]
  BY <1>1, FlagWrittenIsRight DEF TypeOK, RecorderInv
<1>3. /\ s.result = "listed" /\ ~flag[a] => k = "listed"
      /\ s.result = "clean" /\ flag[a] => k = "delisted"
      /\ k = "listed" => s.result = "listed" /\ ~flag[a]
      /\ k = "delisted" => s.result = "clean" /\ flag[a]
      /\ k \in EventKind
  BY EventsAreChanges
<1>4. flag[a] <=> told[a] = "listed"
  BY <1>1 DEF ToldMatchesFlag
<1> HIDE DEF s, a, k
<1>5. flag'[a] <=> told'[a] = "listed"
  BY <1>1, <1>2, <1>3, <1>4 DEF Conclusive, EventKind, AllOutcomes
<1>6. QED
  BY <1>2, <1>5 DEF ToldMatchesFlag

LEMMA ToldStep ==
    ASSUME OneRecorder, NoneUnclear, TypeOK, CurrentIsTheNewest, RecorderInv, ToldMatchesFlag,
           [Next]_vars
    PROVE  ToldMatchesFlag'
<1>1. CASE Save(Cycle)
  BY <1>1, SaveKeepsTold
<1>2. ASSUME NEW a \in Assets, NEW on \in BOOLEAN, BulkCreate(a, on) PROVE ToldMatchesFlag'
  BY <1>2 DEF BulkCreate, Insert, TypeOK, ToldMatchesFlag
<1>3. CASE UNCHANGED <<flag, told>>
  BY <1>3 DEF ToldMatchesFlag
<1>4. QED
  BY <1>1, <1>2, <1>3 DEF Next, CycleStep, OneRecorder, Actors, ReadPrevious, SaveFails,
     StartCycle, SelectDue, NextResult, SkipEmpty, NextAsset, AbortCycle, FinishCycle, Prune,
     QueueRecheck, SetMonitored, Elapse, Crash, vars, db

\* While only the cycle records, nothing is deleted and no run is inconclusive,
\* what the log last said of an asset is what its is_blacklisted says
\* (detect_events, record_check).
THEOREM LogFollowsFlag ==
    ASSUME OneRecorder, NoneUnclear
    PROVE  Spec => []ToldMatchesFlag
<1>1. Init => ToldMatchesFlag
  BY DEF Init, ToldMatchesFlag
<1>2. TypeOK /\ CurrentIsTheNewest /\ RecorderInv /\ ToldMatchesFlag /\ [Next]_vars
        => ToldMatchesFlag'
  BY ToldStep
<1>3. QED
  BY <1>1, <1>2, RecorderAlways, PTL DEF Spec

\* Under the same assumptions no check reports what the log already says
\* (detect_events: only transitions become events).
THEOREM ChangesAreToldOnce ==
    ASSUME OneRecorder, NoneUnclear
    PROVE  Spec => OnlyTransitions
<1> DEFINE Changes == \A x \in Actors : Save(x) =>
                        DetectedKind(session[x]) # told[session[x].asset] \/
                        DetectedKind(session[x]) = "none"
<1>1. TypeOK /\ CurrentIsTheNewest /\ RecorderInv /\ ToldMatchesFlag => Changes
  <2>1. SUFFICES ASSUME TypeOK, CurrentIsTheNewest, RecorderInv, ToldMatchesFlag, Save(Cycle),
                        DetectedKind(session[Cycle]) # "none"
                 PROVE  DetectedKind(session[Cycle]) # told[session[Cycle].asset]
    BY DEF OneRecorder, Actors
  <2>2. session[Cycle].asset \in Assets
    BY <2>1 DEF Save, TypeOK, Session, Actors
  <2>3. QED
    BY <2>1, <2>2, EventsAreChanges DEF ToldMatchesFlag, EventKind
<1>2. QED
  BY <1>1, RecorderAlways, LogFollowsFlag, PTL DEF OnlyTransitions

-----------------------------------------------------------------------------
(* The results of a cycle.  Where nothing is deleted, every asset that the *)
(* cycle took up is there to the end, so its loop never raises.            *)

CycleHasAssets ==
    /\ \A a \in todo : exists[a]
    /\ session[Cycle].pc \in {"created", "loaded", "recording", "saved", "failed"} =>
         exists[session[Cycle].asset]

LEMMA AssetsStay ==
    ASSUME TypeOK, NothingDeleted, [Next]_vars
    PROVE  \A a \in Assets : exists[a] => exists'[a]
<1>1. ASSUME NEW a \in Assets, NEW on \in BOOLEAN, NEW checked \in BOOLEAN, Insert(a, on, checked)
      PROVE  exists' = [exists EXCEPT ![a] = TRUE]
  BY <1>1 DEF Insert
<1>2. ASSUME NEW r \in Requests PROVE ~CommitDelete(r)
  BY DEF CommitDelete, NothingDeleted
<1>3. CASE UNCHANGED exists
  BY <1>3
<1>4. ASSUME NEW r \in Requests, RequestStep(r) PROVE \A a \in Assets : exists[a] => exists'[a]
  BY <1>1, <1>2, <1>4 DEF RequestStep, Recheck, Delete, Create, TypeOK, db
<1>5. ASSUME NEW a \in Assets, NEW on \in BOOLEAN, BulkCreate(a, on)
      PROVE  \A b \in Assets : exists[b] => exists'[b]
  BY <1>1, <1>5 DEF BulkCreate, TypeOK
<1>6. StartCycle \/ CycleStep => UNCHANGED exists
  BY DEF StartCycle, CycleStep, SelectDue, NextResult, SkipEmpty, NextAsset, AbortCycle,
     FinishCycle, Prune, db
<1>7. QED
  BY <1>3, <1>4, <1>5, <1>6 DEF Next, ReadPrevious, Save, SaveFails, StartJob, FinishJob,
     QueueRecheck, SetMonitored, Elapse, Crash, vars, db

LEMMA CycleAssetsStep ==
    ASSUME TypeOK, NothingDeleted, CycleHasAssets, [Next]_vars
    PROVE  CycleHasAssets'
<1>0. /\ session \in [Actors -> Session] /\ todo \subseteq Assets
      /\ Cycle \in Actors /\ Workers \subseteq Actors /\ Requests \subseteq Actors
      /\ Cycle \notin Requests /\ Cycle \notin Workers
      /\ session[Cycle].pc \in {"created", "loaded", "recording", "saved", "failed"} =>
           session[Cycle].asset \in Assets
  BY ActorsAssumption DEF TypeOK, Actors, Session
<1>1. \A a \in Assets : exists[a] => exists'[a]
  BY AssetsStay
<1>2. CASE todo' \subseteq todo /\ session'[Cycle] = session[Cycle]
  BY <1>0, <1>1, <1>2 DEF CycleHasAssets
<1>3. CASE todo' \subseteq todo /\ session'[Cycle].pc \in {"idle", "selecting", "saving"}
  BY <1>0, <1>1, <1>3 DEF CycleHasAssets
<1>4. ASSUME todo' = todo, session'[Cycle].asset = session[Cycle].asset,
             session[Cycle].pc \in {"created", "loaded", "recording"}
      PROVE  CycleHasAssets'
  BY <1>0, <1>1, <1>4 DEF CycleHasAssets
<1>5. CASE ReadPrevious(Cycle)
  <2>1. PICK o \in Outcomes, p \in AllOutcomes \cup {"none"} :
          session' = [session EXCEPT ![Cycle] =
                        [session[Cycle] EXCEPT !.pc = "recording", !.prev = p, !.result = o]]
    BY <1>5 DEF ReadPrevious
  <2>2. session'[Cycle].asset = session[Cycle].asset
    BY <1>0, <2>1 DEF Session
  <2>3. QED
    BY <1>4, <1>5, <2>2 DEF ReadPrevious, cycle
<1>6. ASSUME NEW pc \in {"saved", "failed"}, AfterRecord(Cycle, pc)
      PROVE  session'[Cycle].asset = session[Cycle].asset
  BY <1>0, <1>6 DEF AfterRecord, Goto, Session
<1>7. CASE Save(Cycle) \/ SaveFails(Cycle)
  BY <1>4, <1>6, <1>7 DEF Save, SaveFails
<1>8. ASSUME NEW x \in Actors \ {Cycle}, ReadPrevious(x) \/ Save(x) \/ SaveFails(x)
      PROVE  todo' \subseteq todo /\ session'[Cycle] = session[Cycle]
  BY <1>0, <1>8 DEF ReadPrevious, Save, SaveFails, AfterRecord, Goto, Leave, Actors, cycle
<1>9. CASE StartCycle \/ NextAsset \/ AbortCycle \/ FinishCycle
  <2>1. ASSUME NEW pc \in PC, Goto(Cycle, pc) PROVE session'[Cycle].pc = pc
    BY <1>0, <2>1 DEF Goto, Session
  <2>2. EndOfCycle => todo' \subseteq todo /\ session'[Cycle].pc = "idle"
    BY <1>0, AtTypes DEF EndOfCycle, Leave
  <2>3. StartCycle => todo' \subseteq todo /\ session'[Cycle].pc = "selecting"
    BY <2>1 DEF StartCycle, PC
  <2>4. NextAsset => todo' \subseteq todo /\ session'[Cycle].pc = "saving"
    BY <1>0, AtTypes DEF NextAsset
  <2>5. QED
    BY <1>3, <1>9, <2>2, <2>3, <2>4 DEF AbortCycle, FinishCycle
<1>10. CASE SelectDue
  <2>1. /\ todo' = {a \in Assets : Due(a) /\ a \notin skip}
        /\ UNCHANGED exists
        /\ Goto(Cycle, "saving")
    BY <1>10 DEF SelectDue, db
  <2>2. session'[Cycle].pc = "saving"
    BY <1>0, <2>1 DEF Goto, Session
  <2>3. QED
    BY <2>1, <2>2 DEF CycleHasAssets, Due
<1>11. ASSUME NEW a \in Assets, NextResult(a) PROVE CycleHasAssets'
  <2>1. /\ a \in todo /\ UNCHANGED <<exists, todo>>
        /\ \E f : session'[Cycle] = Working("loaded", a, f)
    BY <1>0, <1>11 DEF NextResult, db, cycle
  <2>2. QED
    BY <2>1 DEF CycleHasAssets, Working
<1>12. ASSUME NEW a \in Assets, SkipEmpty(a) PROVE todo' \subseteq todo /\ session'[Cycle] = session[Cycle]
  BY <1>12 DEF SkipEmpty
<1>13. ASSUME NEW w \in Workers, StartJob(w) \/ FinishJob(w)
       PROVE  todo' \subseteq todo /\ session'[Cycle] = session[Cycle]
  BY <1>0, <1>13 DEF StartJob, FinishJob, Leave, cycle
<1>14. ASSUME NEW r \in Requests, RequestStep(r)
       PROVE  todo' \subseteq todo /\ session'[Cycle] = session[Cycle]
  BY <1>0, <1>14 DEF RequestStep, Recheck, Delete, Create, CommitDelete, Leave, cycle
<1>15. ASSUME NEW a \in Assets,
              QueueRecheck(a) \/ SetMonitored(a) \/ Elapse(a) \/ \E on \in BOOLEAN : BulkCreate(a, on)
       PROVE  todo' \subseteq todo /\ session'[Cycle] = session[Cycle]
  BY <1>15 DEF QueueRecheck, SetMonitored, Elapse, BulkCreate, cycle
<1>16. CASE Crash
  <2>1. todo' \subseteq todo /\ session'[Cycle].pc = "idle"
    BY <1>0, <1>16, AtTypes DEF Crash
  <2>2. QED
    BY <1>3, <2>1
<1>17. CASE UNCHANGED vars
  BY <1>2, <1>17 DEF vars, cycle
<1>18. QED
  BY <1>2, <1>5, <1>7, <1>8, <1>9, <1>10, <1>11, <1>12, <1>13, <1>14, <1>15, <1>16, <1>17
     DEF Next, CycleStep

\* If nothing is deleted and the process lives, a cycle ends when it has handled
\* every result, however many of its saves fail and whoever else records beside
\* it (the save loop of run_cycle: stopping early "would throw that network work
\* away").
THEOREM CycleLosesNothing ==
    ASSUME Deletable = {}, ~MayCrash
    PROVE  Spec => CycleKeepsResults
<1> DEFINE Keeps == session[Cycle].pc # "idle" /\ session'[Cycle].pc = "idle" =>
                      \A a \in todo : ~exists[a]
           Inv   == NothingDeleted /\ CreatedIsFresh /\ CycleHasAssets
<1>1. Init => Inv
  BY AtTypes DEF Init, NothingDeleted, CreatedIsFresh, CycleHasAssets, Actors
<1>2. TypeOK /\ Inv /\ [Next]_vars => Inv'
  BY CreatedStep, CycleAssetsStep
<1>3. TypeOK /\ Inv /\ [Next]_vars => Keeps
  <2> SUFFICES ASSUME TypeOK, Inv, [Next]_vars, session[Cycle].pc # "idle",
                      session'[Cycle].pc = "idle"
               PROVE  todo = {}
    OBVIOUS
  <2>0. Cycle \in Actors /\ session \in [Actors -> Session]
    BY DEF TypeOK, Actors
  <2>1. ~AbortCycle
    BY DEF AbortCycle, LoopRaises, CycleHasAssets
  <2>2. CASE FinishCycle
    BY <2>2 DEF FinishCycle
  <2>3. ASSUME NEW x \in Actors, ReadPrevious(x) \/ Save(x) \/ SaveFails(x) PROVE FALSE
    <3>1. x = Cycle
      BY <2>0, <2>3 DEF ReadPrevious, Save, SaveFails, AfterRecord, Goto, Leave, Actors
    <3>2. CASE ReadPrevious(Cycle)
      BY <2>0, <3>2 DEF ReadPrevious, Session
    <3>3. ASSUME NEW place \in {"saved", "failed"}, AfterRecord(Cycle, place) PROVE FALSE
      BY <3>3, CycleGoesOn
    <3>4. QED
      BY <2>3, <3>1, <3>2, <3>3 DEF Save, SaveFails
  <2>4. CASE StartCycle \/ SelectDue \/ NextAsset
    BY <2>0, <2>4, AtTypes DEF StartCycle, SelectDue, NextAsset, Goto, Session
  <2>5. ASSUME NEW a \in Assets, NextResult(a) PROVE FALSE
    BY <2>0, <2>5 DEF NextResult, Working
  <2>6. ASSUME session'[Cycle] = session[Cycle] PROVE FALSE
    BY <2>6
  <2>7. \A w \in Workers : ~StartJob(w) /\ ~FinishJob(w)
    BY <2>0, <2>6, ActorsAssumption DEF StartJob, FinishJob, Leave
  <2>8. \A r \in Requests : ~RequestStep(r)
    BY <2>0, <2>6, ActorsAssumption DEF RequestStep, Recheck, Delete, Create, CommitDelete, Leave
  <2>9. /\ ~UNCHANGED session /\ ~Crash
        /\ \A a \in Assets : ~SkipEmpty(a) /\ ~QueueRecheck(a) /\ ~SetMonitored(a) /\ ~Elapse(a)
                              /\ \A on \in BOOLEAN : ~BulkCreate(a, on)
    BY <2>6 DEF SkipEmpty, QueueRecheck, SetMonitored, Elapse, BulkCreate, Crash
  <2>10. QED
    BY <2>1, <2>2, <2>3, <2>4, <2>5, <2>7, <2>8, <2>9 DEF Next, CycleStep, vars
<1>4. QED
  BY <1>1, <1>2, <1>3, TypeCorrect, PTL DEF CycleKeepsResults, Spec
===============================================================================
