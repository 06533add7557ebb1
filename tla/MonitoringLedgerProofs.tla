------------------------ MODULE MonitoringLedgerProofs ------------------------
(***************************************************************************)
(* Monitoring implements CheckLedger for every value of the constants, as  *)
(* long as two deletes do not overlap.  (Two deletes of one asset may end  *)
(* with the second one removing rows of an asset that has been given the   *)
(* ids the first one freed.)                                               *)
(***************************************************************************)
EXTENDS MonitoringLedger, MonitoringProofs

\* The assumption on the deletes.
OneDelete ==
    \A r, q \in Requests :
        session[r].pc = "deleting" /\ session[q].pc = "deleting" => r = q

\* An asset with rows has a current one.
HasCurrent ==
    \A c \in checks : \E d \in checks : d.asset = c.asset /\ d.status = "current"

\* An id belongs to one asset.
OneAssetPerId == \A c, d \in checks : c.id = d.id => c.asset = d.asset

\* Only a delete holds rows, and its asset exists until it commits.
HoldsWhileDeleting(r) ==
    /\ doomed[r] # {} => session[r].pc = "deleting"
    /\ session[r].pc = "deleting" => exists[session[r].asset]

\* The rows it holds belong to its asset, ...
HoldsItsOwn(r) ==
    \A c \in checks : c.id \in doomed[r] => c.asset = session[r].asset

\* ... the current row of the asset is no older than any of them, so that no
\* row gets one of their ids, ...
IsPassed(r) ==
    \A i \in doomed[r] :
        \E c \in checks : /\ c.asset = session[r].asset /\ c.status = "current"
                          /\ i <= c.id

\* ... and a row of the asset that it does not hold is newer than all of them.
OthersAreNewer(r) ==
    \A c \in checks : c.asset = session[r].asset /\ c.id \notin doomed[r] =>
        \A i \in doomed[r] : i < c.id

Delete_OK(r) ==
    HoldsWhileDeleting(r) /\ HoldsItsOwn(r) /\ IsPassed(r) /\ OthersAreNewer(r)

LedgerInv == HasCurrent /\ OneAssetPerId /\ \A r \in Requests : Delete_OK(r)

Known == {a \in Assets : exists[a]}
Rows  == {LedgerRow(c) : c \in checks}

-----------------------------------------------------------------------------
(* LedgerInv is inductive. *)

LEMMA LedgerInvInit == Init => LedgerInv
  BY AtTypes DEF Init, LedgerInv, HasCurrent, OneAssetPerId, Delete_OK, HoldsWhileDeleting,
     HoldsItsOwn, IsPassed, OthersAreNewer, Actors

\* A step that leaves the rows alone, and no delete enters or leaves.
LEMMA NoDeleteMoves ==
    ASSUME LedgerInv, checks' = checks, doomed' = doomed,
           \A a \in Assets : exists[a] => exists'[a],
           \A r \in Requests : session[r].pc = "deleting" => session[r].asset \in Assets,
           \A r \in Requests : \/ session'[r] = session[r]
                               \/ session[r].pc # "deleting" /\ session'[r].pc # "deleting"
    PROVE  LedgerInv'
<1>1. HasCurrent' /\ OneAssetPerId'
  BY DEF LedgerInv, HasCurrent, OneAssetPerId
<1>2. ASSUME NEW r \in Requests PROVE Delete_OK(r)'
  <2>1. Delete_OK(r)
    BY DEF LedgerInv
  <2>2. CASE session'[r] = session[r]
    BY <2>1, <2>2 DEF Delete_OK, HoldsWhileDeleting, HoldsItsOwn, IsPassed, OthersAreNewer
  <2>3. CASE session[r].pc # "deleting" /\ session'[r].pc # "deleting"
    BY <2>1, <2>3 DEF Delete_OK, HoldsWhileDeleting, HoldsItsOwn, IsPassed, OthersAreNewer
  <2>4. QED
    BY <2>2, <2>3
<1>3. QED
  BY <1>1, <1>2 DEF LedgerInv

\* An actor's step that is not one of a delete.
LEMMA OneActorMoves ==
    ASSUME TypeOK, NEW x \in Actors, NEW s, session' = [session EXCEPT ![x] = s],
           session[x].pc # "deleting", s.pc # "deleting"
    PROVE  \A r \in Requests : \/ session'[r] = session[r]
                               \/ session[r].pc # "deleting" /\ session'[r].pc # "deleting"
  BY DEF TypeOK, Actors

LEMMA DeletingHasAsset ==
    ASSUME TypeOK
    PROVE  \A r \in Requests : session[r].pc = "deleting" => session[r].asset \in Assets
  BY DEF TypeOK, Actors, Session

\* Where record_check leaves its caller.
LEMMA AfterRecordMoves ==
    ASSUME TypeOK, NEW x \in Actors, NEW pc \in {"saved", "failed"},
           session[x].pc = "recording", AfterRecord(x, pc)
    PROVE  \A r \in Requests : \/ session'[r] = session[r]
                               \/ session[r].pc # "deleting" /\ session'[r].pc # "deleting"
<1>1. session[x] \in Session
  BY DEF TypeOK
<1>2. PICK s : session' = [session EXCEPT ![x] = s] /\ s.pc # "deleting"
  <2>1. CASE x = Cycle
    <3>1. session' = [session EXCEPT ![x] = [session[x] EXCEPT !.pc = pc]]
      BY <2>1, ActorsAssumption DEF AfterRecord, Goto
    <3>2. [session[x] EXCEPT !.pc = pc].pc = pc
      BY <1>1 DEF Session
    <3>3. QED
      BY <3>1, <3>2
  <2>2. CASE x \in Workers
    <3>1. session' = [session EXCEPT ![x] = [session[x] EXCEPT !.pc = "finishing"]]
      BY <2>2, ActorsAssumption DEF AfterRecord, Goto
    <3>2. [session[x] EXCEPT !.pc = "finishing"].pc = "finishing"
      BY <1>1 DEF Session
    <3>3. QED
      BY <3>1, <3>2
  <2>3. CASE x \in Requests
    <3>1. session' = [session EXCEPT ![x] = At("idle")]
      BY <2>3, ActorsAssumption DEF AfterRecord, Leave
    <3>2. QED
      BY <3>1, AtTypes
  <2>4. QED
    BY <2>1, <2>2, <2>3 DEF Actors
<1>3. QED
  BY <1>2, OneActorMoves

\* What a save does to the rows: each keeps its id and asset, those of other
\* assets stay as they are, and the new one is current and above all.
LEMMA SavedRows ==
    ASSUME TypeOK, NEW x \in Actors, Save(x)
    PROVE  \E new \in CheckRow :
             /\ new \in checks' /\ new.asset = session[x].asset /\ new.status = "current"
             /\ \A c \in checks : c.id < new.id
             /\ \A c \in checks' : c = new \/ \E b \in checks : LedgerRow(b) = LedgerRow(c)
             /\ \A c \in checks : \E b \in checks' : LedgerRow(b) = LedgerRow(c)
             /\ \A c \in checks : c.asset # new.asset => c \in checks'
             /\ new.outcome \in AllOutcomes
<1> DEFINE a == session[x].asset
<1>1. PICK i \in 1..MaxChecks :
        /\ NewCheckId(i)
        /\ checks' = MarkHistorical(checks, a) \cup
                       {[id |-> i, asset |-> a, status |-> "current",
                         outcome |-> session[x].result]}
  BY DEF Save
<1> DEFINE new == [id |-> i, asset |-> a, status |-> "current",
                   outcome |-> session[x].result]
<1>2. new \in CheckRow
  BY DEF TypeOK, Save, Session, CheckRow
<1> HIDE DEF a
<1>3. \A c \in checks : c.id < i
  BY <1>1 DEF NewCheckId
<1>4. \A c \in MarkHistorical(checks, a) : \E b \in checks : LedgerRow(b) = LedgerRow(c)
  BY DEF MarkHistorical, TypeOK, CheckRow, LedgerRow
<1>5. \A c \in checks : \E b \in MarkHistorical(checks, a) : LedgerRow(b) = LedgerRow(c)
  <2>1. SUFFICES ASSUME NEW c \in checks
                 PROVE  \E b \in MarkHistorical(checks, a) : LedgerRow(b) = LedgerRow(c)
    OBVIOUS
  <2>2. LedgerRow(c) = LedgerRow([c EXCEPT !.status = "historical"])
    BY DEF TypeOK, CheckRow, LedgerRow
  <2>3. QED
    BY <2>2 DEF MarkHistorical
<1>6. \A c \in checks : c.asset # a => c \in MarkHistorical(checks, a)
  BY DEF MarkHistorical
<1>7. QED
  <2>1. new \in checks' /\ new.asset = a /\ new.status = "current" /\ new.id = i
    BY <1>1
  <2>2. new.outcome \in AllOutcomes
    BY <1>2 DEF CheckRow
  <2>3. /\ \A c \in checks' : c = new \/ \E b \in checks : LedgerRow(b) = LedgerRow(c)
        /\ \A c \in checks : \E b \in checks' : LedgerRow(b) = LedgerRow(c)
        /\ \A c \in checks : c.asset # a => c \in checks'
    BY <1>1, <1>4, <1>5, <1>6
  <2>4. a = session[x].asset
    BY DEF a
  <2>5. QED
    BY <1>2, <1>3, <2>1, <2>2, <2>3, <2>4

LEMMA SameLedgerRow ==
    ASSUME NEW c, NEW b, LedgerRow(b) = LedgerRow(c)
    PROVE  b.id = c.id /\ b.asset = c.asset
  BY DEF LedgerRow

LEMMA SaveKeepsLedgerInv ==
    ASSUME TypeOK, LedgerInv, NEW x \in Actors, Save(x)
    PROVE  LedgerInv'
<1>1. PICK new \in CheckRow :
        /\ new \in checks' /\ new.asset = session[x].asset /\ new.status = "current"
        /\ \A c \in checks : c.id < new.id
        /\ \A c \in checks' : c = new \/ \E b \in checks : LedgerRow(b) = LedgerRow(c)
        /\ \A c \in checks : c.asset # new.asset => c \in checks'
  BY SavedRows
\* A row of the new table is the new one or has kept its id and its asset.
<1>2. ASSUME NEW c \in checks', c # new
      PROVE  \E b \in checks : b.id = c.id /\ b.asset = c.asset
  BY <1>1, <1>2, SameLedgerRow
<1>3. HasCurrent'
  <2>1. SUFFICES ASSUME NEW c \in checks'
                 PROVE  \E d \in checks' : d.asset = c.asset /\ d.status = "current"
    BY DEF HasCurrent
  <2>2. CASE c.asset = new.asset
    BY <1>1, <2>2
  <2>3. CASE c.asset # new.asset
    <3>1. PICK b \in checks : b.asset = c.asset
      BY <1>2, <2>3
    <3>2. PICK d \in checks : d.asset = b.asset /\ d.status = "current"
      BY DEF LedgerInv, HasCurrent
    <3>3. QED
      BY <1>1, <2>3, <3>1, <3>2
  <2>4. QED
    BY <2>2, <2>3
<1>4. /\ doomed' = doomed /\ exists' = exists
      /\ \A r \in Requests : \/ session'[r] = session[r]
                             \/ session[r].pc # "deleting" /\ session'[r].pc # "deleting"
  BY AfterRecordMoves DEF Save
<1>5. ASSUME NEW r \in Requests PROVE Delete_OK(r)'
  <2>1. Delete_OK(r)
    BY DEF LedgerInv
  <2>2. CASE session[r].pc # "deleting"
    <3>1. doomed'[r] = {} /\ session'[r].pc # "deleting"
      BY <1>4, <2>1, <2>2 DEF Delete_OK, HoldsWhileDeleting
    <3>2. QED
      BY <3>1 DEF Delete_OK, HoldsWhileDeleting, HoldsItsOwn, IsPassed, OthersAreNewer
  <2>3. CASE session[r].pc = "deleting"
    <3>1. session'[r] = session[r]
      BY <1>4, <2>3
    <3>2. new.id \notin doomed[r] /\ \A i \in doomed[r] : i < new.id
      <4>1. SUFFICES ASSUME NEW i \in doomed[r] PROVE i < new.id
        BY <1>1 DEF CheckRow
      <4>2. PICK c \in checks : i <= c.id
        BY <2>1 DEF Delete_OK, IsPassed
      <4>3. i \in Nat /\ c.id \in Nat /\ new.id \in Nat
        BY DEF TypeOK, CheckRow
      <4>4. QED
        BY <1>1, <4>2, <4>3
    <3>3. HoldsWhileDeleting(r)'
      BY <1>4, <2>1, <3>1 DEF Delete_OK, HoldsWhileDeleting
    <3>4. HoldsItsOwn(r)'
      BY <1>2, <1>4, <2>1, <3>1, <3>2 DEF Delete_OK, HoldsItsOwn
    <3>5. OthersAreNewer(r)'
      BY <1>2, <1>4, <2>1, <3>1, <3>2 DEF Delete_OK, OthersAreNewer
    <3>6. IsPassed(r)'
      <4>1. CASE new.asset = session[r].asset
        <5>1. \A i \in doomed[r] : i \in Nat
          BY DEF TypeOK
        <5>2. \A i \in doomed[r] : i <= new.id
          BY <3>2, <5>1 DEF CheckRow
        <5>3. QED
          BY <1>1, <1>4, <3>1, <4>1, <5>2 DEF IsPassed
      <4>2. CASE new.asset # session[r].asset
        BY <1>1, <1>4, <2>1, <3>1, <4>2 DEF Delete_OK, IsPassed
      <4>3. QED
        BY <4>1, <4>2
    <3>7. QED
      BY <3>3, <3>4, <3>5, <3>6 DEF Delete_OK
  <2>4. QED
    BY <2>2, <2>3
<1>6. OneAssetPerId'
  <2>1. SUFFICES ASSUME NEW c \in checks', NEW d \in checks', c.id = d.id, c # d
                 PROVE  c.asset = d.asset
    BY DEF OneAssetPerId
  <2>2. c # new /\ d # new
    <3>1. \A b \in checks : b.id # new.id
      BY <1>1 DEF TypeOK, CheckRow
    <3>2. QED
      BY <1>2, <2>1, <3>1
  <2>3. QED
    BY <1>2, <2>1, <2>2 DEF LedgerInv, OneAssetPerId
<1>7. QED
  BY <1>3, <1>5, <1>6 DEF LedgerInv

\* Pruning removes historical rows.
LEMMA PruneKeepsLedgerInv ==
    ASSUME TypeOK, LedgerInv, FinishCycle
    PROVE  LedgerInv'
<1>1. /\ checks' \subseteq checks
      /\ \A c \in checks : c.status = "current" => c \in checks'
      /\ doomed' = doomed /\ exists' = exists
  BY DEF FinishCycle, Prune, EndOfCycle
<1>2. HasCurrent' /\ OneAssetPerId'
  BY <1>1 DEF LedgerInv, HasCurrent, OneAssetPerId
<1>3. session' = [session EXCEPT ![Cycle] = At("idle")] /\ session[Cycle].pc = "saving"
  BY DEF FinishCycle, EndOfCycle, Leave
<1>4. \A r \in Requests : session'[r] = session[r]
  BY <1>3, ActorsAssumption DEF TypeOK, Actors
<1>5. ASSUME NEW r \in Requests PROVE Delete_OK(r)'
  <2>1. Delete_OK(r)
    BY DEF LedgerInv
  <2>2. QED
    BY <1>1, <1>4, <2>1 DEF Delete_OK, HoldsWhileDeleting, HoldsItsOwn, IsPassed,
       OthersAreNewer
<1>6. QED
  BY <1>2, <1>5 DEF LedgerInv

\* A delete that begins holds every row of its asset, the current one, which is
\* the newest, among them.
LEMMA DeleteKeepsLedgerInv ==
    ASSUME TypeOK, CurrentIsTheNewest, LedgerInv,
           NEW r \in Requests, NEW a \in Assets, Delete(r, a)
    PROVE  LedgerInv'
<1> DEFINE held == {c.id : c \in {d \in checks : d.asset = a}}
<1>1. /\ checks' = checks /\ exists' = exists /\ exists[a]
      /\ doomed' = [doomed EXCEPT ![r] = held]
      /\ session' = [session EXCEPT ![r] = Working("deleting", a, FALSE)]
  BY DEF Delete, db
<1>2. doomed'[r] = held /\ session'[r].pc = "deleting" /\ session'[r].asset = a
  BY <1>1 DEF TypeOK, Actors, Working
<1>3. \A q \in Requests \ {r} : doomed'[q] = doomed[q] /\ session'[q] = session[q]
  BY <1>1 DEF TypeOK, Actors
<1>4. HasCurrent' /\ OneAssetPerId'
  BY <1>1 DEF LedgerInv, HasCurrent, OneAssetPerId
<1>5. HoldsWhileDeleting(r)' /\ OthersAreNewer(r)'
  BY <1>1, <1>2 DEF HoldsWhileDeleting, OthersAreNewer
<1>6. ASSUME NEW c \in checks, c.asset = a
      PROVE  \E d \in checks : d.asset = a /\ d.status = "current" /\ c.id <= d.id
  <2>1. PICK d \in checks : d.asset = c.asset /\ d.status = "current"
    BY DEF LedgerInv, HasCurrent
  <2>2. c.id \in Nat /\ d.id \in Nat
    BY DEF TypeOK, CheckRow
  <2>3. c = d \/ c.id < d.id
    BY <2>1 DEF CurrentIsTheNewest
  <2>4. QED
    BY <1>6, <2>1, <2>2, <2>3
<1>7. IsPassed(r)'
  <2>1. SUFFICES ASSUME NEW i \in held
                 PROVE  \E d \in checks : d.asset = a /\ d.status = "current" /\ i <= d.id
    BY <1>1, <1>2 DEF IsPassed
  <2>2. PICK c \in checks : c.asset = a /\ c.id = i
    OBVIOUS
  <2>3. QED
    BY <1>6, <2>2
<1>8. HoldsItsOwn(r)'
  <2>1. SUFFICES ASSUME NEW c \in checks, NEW d \in checks, d.asset = a, c.id = d.id
                 PROVE  c.asset = a
    BY <1>1, <1>2 DEF HoldsItsOwn
  <2>2. QED
    BY <2>1 DEF LedgerInv, OneAssetPerId
<1>9. ASSUME NEW q \in Requests \ {r} PROVE Delete_OK(q)'
  BY <1>1, <1>3, <1>9 DEF LedgerInv, Delete_OK, HoldsWhileDeleting, HoldsItsOwn,
     IsPassed, OthersAreNewer
<1>10. QED
  BY <1>4, <1>5, <1>7, <1>8, <1>9 DEF LedgerInv, Delete_OK

\* The commit removes the rows held.  A row that stays is newer than they are,
\* so the asset's current row, the newest, stays if any other does.
LEMMA CommitKeepsLedgerInv ==
    ASSUME TypeOK, CurrentIsTheNewest, LedgerInv, OneDelete,
           NEW r \in Requests, CommitDelete(r)
    PROVE  LedgerInv'
<1> DEFINE a == session[r].asset
<1>1. /\ session[r].pc = "deleting" /\ a \in Assets
      /\ exists' = [exists EXCEPT ![a] = FALSE]
      /\ checks' = {c \in checks : c.id \notin doomed[r]}
      /\ doomed' = [doomed EXCEPT ![r] = {}]
      /\ session' = [session EXCEPT ![r] = At("idle")]
  BY DeletingHasAsset DEF CommitDelete, Leave
<1>2. Delete_OK(r)
  BY DEF LedgerInv
<1>3. HasCurrent'
  <2>1. SUFFICES ASSUME NEW c \in checks, c.id \notin doomed[r]
                 PROVE  \E d \in checks : /\ d.asset = c.asset /\ d.status = "current"
                                          /\ d.id \notin doomed[r]
    BY <1>1 DEF HasCurrent
  <2>2. PICK d \in checks : d.asset = c.asset /\ d.status = "current"
    BY DEF LedgerInv, HasCurrent
  <2>3. c.id \in Nat /\ d.id \in Nat
    BY DEF TypeOK, CheckRow
  <2>4. CASE c.asset = a
    <3>1. ASSUME d.id \in doomed[r] PROVE FALSE
      <4>1. d.id < c.id
        BY <1>2, <2>1, <2>4, <3>1 DEF Delete_OK, OthersAreNewer
      <4>2. c = d \/ c.id < d.id
        BY <2>2 DEF CurrentIsTheNewest
      <4>3. QED
        BY <2>3, <4>1, <4>2
    <3>2. QED
      BY <2>2, <3>1
  <2>5. CASE c.asset # a
    BY <1>2, <2>2, <2>5 DEF Delete_OK, HoldsItsOwn
  <2>6. QED
    BY <2>4, <2>5
<1>4. OneAssetPerId'
  BY <1>1 DEF LedgerInv, OneAssetPerId
<1>5. ASSUME NEW q \in Requests PROVE Delete_OK(q)'
  <2>1. doomed'[q] = {} /\ session'[q].pc # "deleting"
    <3>1. CASE q = r
      BY <1>1, <3>1, AtTypes DEF TypeOK, Actors
    <3>2. CASE q # r
      <4>1. session[q].pc # "deleting"
        BY <1>1, <3>2 DEF OneDelete
      <4>2. doomed[q] = {}
        BY <4>1 DEF LedgerInv, Delete_OK, HoldsWhileDeleting
      <4>3. QED
        BY <1>1, <3>2, <4>1, <4>2 DEF TypeOK, Actors
    <3>3. QED
      BY <3>1, <3>2
  <2>2. QED
    BY <2>1 DEF Delete_OK, HoldsWhileDeleting, HoldsItsOwn, IsPassed, OthersAreNewer
<1>6. QED
  BY <1>3, <1>4, <1>5 DEF LedgerInv

LEMMA LedgerInvStep ==
    ASSUME TypeOK, CurrentIsTheNewest, LedgerInv, OneDelete, [Next]_vars
    PROVE  LedgerInv'
<1> USE ActorsAssumption
<1> DEFINE DeletesStay == \A r \in Requests :
             \/ session'[r] = session[r]
             \/ session[r].pc # "deleting" /\ session'[r].pc # "deleting"
<1>0. /\ Cycle \in Actors /\ Workers \subseteq Actors /\ Requests \subseteq Actors
      /\ \A r \in Requests : session[r].pc = "deleting" => session[r].asset \in Assets
  BY DeletingHasAsset DEF Actors
<1>1. ASSUME NEW x \in Actors, ReadPrevious(x) PROVE LedgerInv'
  <2>1. PICK o \in Outcomes, p \in AllOutcomes \cup {"none"} :
          session' = [session EXCEPT ![x] =
                        [@ EXCEPT !.pc = "recording", !.prev = p, !.result = o]]
    BY <1>1 DEF ReadPrevious
  <2>2. /\ session[x].pc # "deleting"
        /\ [session[x] EXCEPT !.pc = "recording", !.prev = p, !.result = o].pc # "deleting"
    BY <1>1 DEF ReadPrevious, TypeOK, Session
  <2>3. DeletesStay
    BY <2>1, <2>2, OneActorMoves
  <2>4. QED
    BY <1>0, <1>1, <2>3, NoDeleteMoves DEF ReadPrevious, db
<1>2. ASSUME NEW x \in Actors, Save(x) PROVE LedgerInv'
  BY <1>2, SaveKeepsLedgerInv
<1>3. ASSUME NEW x \in Actors, SaveFails(x) PROVE LedgerInv'
  BY <1>0, <1>3, AfterRecordMoves, NoDeleteMoves DEF SaveFails, db
<1>4. CASE FinishCycle
  BY <1>4, PruneKeepsLedgerInv
<1>5. CASE StartCycle \/ SelectDue \/ NextAsset \/ AbortCycle
            \/ \E a \in Assets : NextResult(a) \/ SkipEmpty(a)
  <2>1. (\E s : session' = [session EXCEPT ![Cycle] = s]) \/ session' = session
    BY <1>5 DEF StartCycle, SelectDue, NextResult, SkipEmpty, Goto,
       NextAsset, AbortCycle, EndOfCycle, Leave
  <2>2. DeletesStay
    BY <1>0, <2>1 DEF TypeOK
  <2>3. UNCHANGED <<exists, checks, doomed>>
    BY <1>5 DEF StartCycle, SelectDue, NextResult, SkipEmpty,
       NextAsset, AbortCycle, EndOfCycle, db
  <2>4. QED
    BY <1>0, <2>2, <2>3, NoDeleteMoves
<1>6. ASSUME NEW w \in Workers, StartJob(w) \/ FinishJob(w) PROVE LedgerInv'
  <2>1. \E s : session' = [session EXCEPT ![w] = s]
    BY <1>6 DEF StartJob, FinishJob, Leave
  <2>2. DeletesStay
    BY <1>0, <2>1 DEF TypeOK
  <2>3. UNCHANGED <<exists, checks, doomed>>
    BY <1>6 DEF StartJob, FinishJob, db
  <2>4. QED
    BY <1>0, <2>2, <2>3, NoDeleteMoves
<1>7. ASSUME NEW r \in Requests, NEW a \in Assets, Recheck(r, a) PROVE LedgerInv'
  <2>1. /\ session' = [session EXCEPT ![r] = Working("loaded", a, flag[a])]
        /\ session[r].pc = "idle"
    BY <1>7 DEF Recheck
  <2>2. DeletesStay
    BY <1>0, <2>1, OneActorMoves DEF Working
  <2>3. QED
    BY <1>0, <1>7, <2>2, NoDeleteMoves DEF Recheck, db
<1>8. ASSUME NEW r \in Requests, NEW a \in Assets, Delete(r, a) PROVE LedgerInv'
  BY <1>8, DeleteKeepsLedgerInv
<1>9. ASSUME NEW r \in Requests, NEW a \in Assets, NEW on \in BOOLEAN, Create(r, a, on)
      PROVE  LedgerInv'
  <2>1. DeletesStay
    <3>1. CASE a \in NoToggles
      BY <1>0, <1>9, <3>1, AtTypes, OneActorMoves DEF Create
    <3>2. CASE a \notin NoToggles
      BY <1>0, <1>9, <3>2, OneActorMoves DEF Create, Working
    <3>3. QED
      BY <3>1, <3>2
  <2>2. checks' = checks /\ doomed' = doomed /\ exists' = [exists EXCEPT ![a] = TRUE]
    BY <1>9 DEF Create, Insert
  <2>3. \A b \in Assets : exists[b] => exists'[b]
    BY <2>2 DEF TypeOK
  <2>4. QED
    BY <1>0, <2>1, <2>2, <2>3, NoDeleteMoves
<1>10. ASSUME NEW r \in Requests, CommitDelete(r) PROVE LedgerInv'
  BY <1>10, CommitKeepsLedgerInv
<1>11. ASSUME NEW a \in Assets, NEW on \in BOOLEAN, BulkCreate(a, on) PROVE LedgerInv'
  <2>1. UNCHANGED <<checks, doomed, session>> /\ exists' = [exists EXCEPT ![a] = TRUE]
    BY <1>11 DEF BulkCreate, Insert
  <2>2. \A b \in Assets : exists[b] => exists'[b]
    BY <2>1 DEF TypeOK
  <2>3. QED
    BY <1>0, <2>1, <2>2, NoDeleteMoves
<1>12. CASE Crash
  <2>1. \A r \in Requests : doomed'[r] = {} /\ session'[r].pc # "deleting"
    BY <1>0, <1>12, AtTypes DEF Crash
  <2>2. HasCurrent' /\ OneAssetPerId'
    BY <1>12 DEF Crash, db, LedgerInv, HasCurrent, OneAssetPerId
  <2>3. QED
    BY <2>1, <2>2 DEF LedgerInv, Delete_OK, HoldsWhileDeleting, HoldsItsOwn,
       IsPassed, OthersAreNewer
<1>13. CASE UNCHANGED <<exists, checks, doomed, session>>
  BY <1>0, <1>13, NoDeleteMoves
<1>14. QED
  BY <1>1, <1>2, <1>3, <1>4, <1>5, <1>6, <1>7, <1>8, <1>9, <1>10, <1>11, <1>12, <1>13
     DEF Next, CycleStep, RequestStep, QueueRecheck, SetMonitored, Elapse, vars, db

-----------------------------------------------------------------------------
(* Every step of Monitoring is one of CheckLedger, or leaves it alone. *)

LEMMA SaveRecords ==
    ASSUME TypeOK, NEW x \in Actors, Save(x)
    PROVE  \E a \in Assets, o \in AllOutcomes : Ledger!Record(a, o)
<1>1. PICK new \in CheckRow :
        /\ new \in checks' /\ new.asset = session[x].asset
        /\ \A c \in checks : c.id < new.id
        /\ \A c \in checks' : c = new \/ \E b \in checks : LedgerRow(b) = LedgerRow(c)
        /\ \A c \in checks : \E b \in checks' : LedgerRow(b) = LedgerRow(c)
        /\ new.outcome \in AllOutcomes
  BY SavedRows
<1>2. exists[new.asset] /\ exists' = exists /\ new.asset \in Assets /\ new.id \in 1..MaxChecks
  BY <1>1 DEF Save, RowMatched, CheckRow
<1>3. Rows' = Rows \cup {LedgerRow(new)}
  <2>1. Rows' \subseteq Rows \cup {LedgerRow(new)}
    BY <1>1 DEF Rows
  <2>2. LedgerRow(new) \in Rows'
    BY <1>1 DEF Rows
  <2>3. Rows \subseteq Rows'
    BY <1>1 DEF Rows
  <2>4. QED
    BY <2>1, <2>2, <2>3
<1>4. \A c \in Rows : c.id < new.id
  BY <1>1 DEF Rows, LedgerRow
<1>5. Ledger!Record(new.asset, new.outcome)
  BY <1>2, <1>3, <1>4 DEF Ledger!Record, Rows, LedgerRow
<1>6. QED
  BY <1>1, <1>2, <1>5

LEMMA InsertRegisters ==
    ASSUME TypeOK, NEW a \in Assets, NEW on, NEW checked, Insert(a, on, checked)
    PROVE  Ledger!Register(a)
<1>1. ~exists[a]
  BY DEF Insert, NewAssetId, Assets
<1>2. Known' = Known \cup {a} /\ Rows' = Rows
  BY DEF Insert, TypeOK, Known, Rows
<1>3. QED
  BY <1>1, <1>2 DEF Ledger!Register, Known, Rows

LEMMA PruneForgets ==
    ASSUME TypeOK, CurrentIsTheNewest, LedgerInv, FinishCycle
    PROVE  \E old \in SUBSET Rows : Ledger!Forget(old)
<1> DEFINE old == Rows \ Rows'
<1>1. /\ exists' = exists /\ checks' \subseteq checks
      /\ \A c \in checks : c.status = "current" => c \in checks'
  BY DEF FinishCycle, Prune
<1>2. Rows' = Rows \ old /\ Known' = Known
  BY <1>1 DEF Rows, Known
<1>3. ASSUME NEW c \in old PROVE \E d \in Rows : d.asset = c.asset /\ ~(d.id <= c.id)
  <2>1. PICK b \in checks : c = LedgerRow(b) /\ b \notin checks'
    BY DEF Rows
  <2>2. PICK d \in checks : d.asset = b.asset /\ d.status = "current"
    BY DEF LedgerInv, HasCurrent
  <2>3. d # b /\ b.id \in Nat /\ d.id \in Nat
    BY <1>1, <2>1, <2>2 DEF TypeOK, CheckRow
  <2>4. b.id < d.id
    BY <2>2, <2>3 DEF CurrentIsTheNewest
  <2>5. LedgerRow(d) \in Rows
    BY DEF Rows
  <2>6. QED
    BY <2>1, <2>2, <2>3, <2>4, <2>5 DEF LedgerRow
<1>4. Ledger!Forget(old)
  BY <1>2, <1>3 DEF Ledger!Forget, Ledger!Newest, Rows, Known
<1>5. QED
  BY <1>4

LEMMA CommitRemoves ==
    ASSUME TypeOK, LedgerInv, NEW r \in Requests, CommitDelete(r)
    PROVE  \E a \in Assets : \E gone \in SUBSET Rows : Ledger!Remove(a, gone)
<1>1. PICK a \in Assets :
        /\ a = session[r].asset /\ session[r].pc = "deleting"
        /\ exists' = [exists EXCEPT ![a] = FALSE]
        /\ checks' = {c \in checks : c.id \notin doomed[r]}
  BY DeletingHasAsset DEF CommitDelete
<1>2. PICK gone \in SUBSET Rows :
        gone = {LedgerRow(c) : c \in {d \in checks : d.id \in doomed[r]}}
  BY DEF Rows
<1>3. exists[a] /\ \A c \in checks : c.id \in doomed[r] => c.asset = a
  BY <1>1 DEF LedgerInv, Delete_OK, HoldsWhileDeleting, HoldsItsOwn
<1>4. Known' = Known \ {a}
  BY <1>1 DEF Known, TypeOK
<1>5. Rows' = Rows \ gone
  BY <1>1, <1>2 DEF Rows, LedgerRow
<1>6. \A c \in gone : c.asset = a
  BY <1>2, <1>3 DEF LedgerRow
<1>7. Ledger!Remove(a, gone)
  BY <1>1, <1>3, <1>4, <1>5, <1>6 DEF Ledger!Remove, Rows, Known
<1>8. QED
  BY <1>1, <1>2, <1>7

LEMMA StepIsLedgerStep ==
    ASSUME TypeOK, CurrentIsTheNewest, LedgerInv, [Next]_vars
    PROVE  Ledger!Next \/ UNCHANGED <<Known, Rows>>
<1>1. ASSUME NEW x \in Actors, Save(x) PROVE Ledger!Next
  BY <1>1, SaveRecords DEF Ledger!Next
<1>2. ASSUME NEW r \in Requests, NEW a \in Assets, NEW on \in BOOLEAN, Create(r, a, on)
      PROVE  Ledger!Next
  BY <1>2, InsertRegisters DEF Create, Ledger!Next
<1>3. ASSUME NEW a \in Assets, NEW on \in BOOLEAN, BulkCreate(a, on) PROVE Ledger!Next
  BY <1>3, InsertRegisters DEF BulkCreate, Ledger!Next
<1>4. CASE FinishCycle
  BY <1>4, PruneForgets DEF Ledger!Next, Rows
<1>5. ASSUME NEW r \in Requests, CommitDelete(r) PROVE Ledger!Next
  BY <1>5, CommitRemoves DEF Ledger!Next, Rows
<1>6. CASE UNCHANGED <<exists, checks>>
  BY <1>6 DEF Known, Rows
<1>7. QED
  BY <1>1, <1>2, <1>3, <1>4, <1>5, <1>6
     DEF Next, CycleStep, RequestStep, ReadPrevious, SaveFails, StartCycle,
         SelectDue, NextResult, SkipEmpty, NextAsset, AbortCycle, QueueRecheck,
         StartJob, FinishJob, Recheck, Delete, SetMonitored, Elapse, Crash, vars, db

\* The rows kept by record_check, prune_history and delete_hostname, in any
\* interleaving, are a ledger of results: each recorded for an asset that exists
\* and after all others, the newest of an asset never pruned, and no delete
\* taking a row of another asset.
THEOREM MonitoringImplementsLedger == Spec /\ []OneDelete => ImplementsLedger
<1>1. Init => Ledger!Init
  BY DEF Init, Ledger!Init
<1>2. TypeOK /\ CurrentIsTheNewest /\ LedgerInv /\ [Next]_vars
        => [Ledger!Next]_<<Known, Rows>>
  BY StepIsLedgerStep
<1>3. TypeOK /\ CurrentIsTheNewest /\ LedgerInv /\ OneDelete /\ [Next]_vars
        => LedgerInv'
  BY LedgerInvStep
<1>4. Spec /\ []OneDelete => []LedgerInv
  BY <1>3, LedgerInvInit, TypeCorrect, CurrentRowIsTheNewest, PTL DEF Spec
<1>5. Spec /\ []OneDelete => Ledger!Init /\ [][Ledger!Next]_<<Known, Rows>>
  BY <1>1, <1>2, <1>4, TypeCorrect, CurrentRowIsTheNewest, PTL DEF Spec
<1>6. QED
  BY <1>5, PTL DEF ImplementsLedger, Ledger!Spec, Known, Rows

\* What latest_check finds is the newest row of the ledger.
CurrentRow(c) == c.status = "current"
CurrentIsLedgerNewest ==
    \A c \in checks : CurrentRow(c) <=> Ledger!Newest(LedgerRow(c))

LEMMA CurrentIsTheLedgersNewest ==
    ASSUME TypeOK, CurrentIsTheNewest, LedgerInv
    PROVE  CurrentIsLedgerNewest
<1>1. SUFFICES ASSUME TypeOK, CurrentIsTheNewest, LedgerInv, NEW c \in checks
               PROVE  CurrentRow(c) <=> Ledger!Newest(LedgerRow(c))
  BY DEF CurrentIsLedgerNewest
<1>2. Ledger!Newest(LedgerRow(c)) <=> \A d \in checks : d.asset = c.asset => d.id <= c.id
  <2>1. \A d : LedgerRow(d).asset = d.asset /\ LedgerRow(d).id = d.id
    BY DEF LedgerRow
  <2>2. Ledger!Newest(LedgerRow(c)) <=>
          \A d \in Rows : d.asset = LedgerRow(c).asset => d.id <= LedgerRow(c).id
    BY DEF Ledger!Newest, Rows
  <2>3. QED
    BY <2>1, <2>2 DEF Rows
<1>3. ASSUME CurrentRow(c), NEW d \in checks, d.asset = c.asset PROVE d.id <= c.id
  <2>1. c.id \in Nat /\ d.id \in Nat
    BY <1>1 DEF TypeOK, CheckRow
  <2>2. d = c \/ d.id < c.id
    BY <1>1, <1>3 DEF CurrentRow, CurrentIsTheNewest
  <2>3. QED
    BY <2>1, <2>2
<1>4. ASSUME \A d \in checks : d.asset = c.asset => d.id <= c.id PROVE CurrentRow(c)
  <2>1. PICK d \in checks : d.asset = c.asset /\ d.status = "current"
    BY <1>1 DEF LedgerInv, HasCurrent
  <2>2. c.id \in Nat /\ d.id \in Nat /\ d.id <= c.id
    BY <1>1, <1>4, <2>1 DEF TypeOK, CheckRow
  <2>3. c = d \/ c.id < d.id
    BY <1>1, <2>1 DEF CurrentIsTheNewest
  <2>4. QED
    BY <2>1, <2>2, <2>3 DEF CurrentRow
<1>5. QED
  BY <1>2, <1>3, <1>4

\* What latest_check finds is the newest row the asset has, and an asset with
\* rows has such a row.
THEOREM LatestCheckFindsTheNewest == Spec /\ []OneDelete => []CurrentIsLedgerNewest
<1>1. TypeOK /\ CurrentIsTheNewest /\ LedgerInv => CurrentIsLedgerNewest
  BY CurrentIsTheLedgersNewest
<1>2. TypeOK /\ CurrentIsTheNewest /\ LedgerInv /\ OneDelete /\ [Next]_vars
        => LedgerInv'
  BY LedgerInvStep
<1>3. QED
  BY <1>1, <1>2, LedgerInvInit, TypeCorrect, CurrentRowIsTheNewest, PTL DEF Spec

\* The current result of an asset goes away only for a newer one or with its
\* asset (prune_history, record_check, delete_hostname): it is the newest row
\* of the ledger, which the ledger neither forgets nor removes with another
\* asset.
THEOREM CurrentRowIsKept == Spec /\ []OneDelete => CurrentIsKept
<1> DEFINE Kept == \A c \in checks : c.status = "current" /\ exists'[c.asset] =>
                     \E d \in checks' : /\ d.asset = c.asset /\ d.status = "current"
                                        /\ d.id >= c.id
<1>1. ASSUME TypeOK, TypeOK', CurrentIsTheNewest, CurrentIsTheNewest', LedgerInv,
             LedgerInv', [Next]_vars
      PROVE  Kept
  <2>1. SUFFICES ASSUME NEW c \in checks, c.status = "current", exists'[c.asset]
                 PROVE  \E d \in checks' : /\ d.asset = c.asset /\ d.status = "current"
                                           /\ d.id >= c.id
    OBVIOUS
  <2>2. LedgerRow(c) \in Rows /\ Ledger!Newest(LedgerRow(c))
    BY <1>1, <2>1, CurrentIsTheLedgersNewest DEF Rows, CurrentIsLedgerNewest, CurrentRow
  <2>3. c.asset \in Known' /\ LedgerRow(c).asset = c.asset
    BY <1>1, <2>1 DEF Known, TypeOK, CheckRow, LedgerRow
  <2>4. LedgerRow(c) \in Rows'
    <3>1. CASE UNCHANGED <<Known, Rows>>
      BY <2>2, <3>1
    <3>2. CASE Ledger!Next
      BY <2>2, <2>3, <3>2 DEF Ledger!Next, Ledger!Register, Ledger!Record,
         Ledger!Forget, Ledger!Remove, Known, Rows
    <3>3. QED
      BY <1>1, <3>1, <3>2, StepIsLedgerStep
  <2>5. PICK e \in checks' : LedgerRow(e) = LedgerRow(c)
    BY <2>4 DEF Rows
  <2>6. e.asset = c.asset /\ e.id = c.id
    BY <2>5 DEF LedgerRow
  <2>7. PICK d \in checks' : d.asset = c.asset /\ d.status = "current"
    BY <1>1, <2>6 DEF LedgerInv, HasCurrent
  <2>8. e = d \/ e.id < d.id
    BY <1>1, <2>6, <2>7 DEF CurrentIsTheNewest
  <2>9. e.id \in Nat /\ d.id \in Nat
    BY <1>1 DEF TypeOK, CheckRow
  <2>10. QED
    BY <2>6, <2>7, <2>8, <2>9
<1>2. TypeOK /\ CurrentIsTheNewest /\ LedgerInv /\ OneDelete /\ [Next]_vars => LedgerInv'
  BY LedgerInvStep
<1>3. Spec /\ []OneDelete => []LedgerInv
  BY <1>2, LedgerInvInit, TypeCorrect, CurrentRowIsTheNewest, PTL DEF Spec
<1>4. TypeOK /\ TypeOK' /\ CurrentIsTheNewest /\ CurrentIsTheNewest' /\ LedgerInv
        /\ LedgerInv' /\ [Next]_vars => [Kept]_vars
  BY <1>1
<1>5. Spec /\ []OneDelete => [][Kept]_vars
  BY <1>3, <1>4, TypeCorrect, CurrentRowIsTheNewest, PTL DEF Spec
<1>6. QED
  BY <1>5 DEF CurrentIsKept
=============================================================================
