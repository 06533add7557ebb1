----------------------------- MODULE StartupProofs -----------------------------
(***************************************************************************)
(* What is proved of Startup for any number of processes and starts, with  *)
(* a crash between any two steps: a signing key is kept, the password file *)
(* opens the account, and no request is served without the tables and      *)
(* columns of the models.                                                  *)
(***************************************************************************)
EXTENDS Startup, TLAPS

-----------------------------------------------------------------------------

LEMMA RevisionTables ==
    Revision = {"app_settings", "blacklisted_hostnames", "users", "hostnames"}
<1>1. /\ Baseline[1] = "app_settings" /\ Baseline[2] = "blacklisted_hostnames"
      /\ Baseline[3] = "users" /\ Baseline[4] = "hostnames"
  BY DEF Baseline
<1>2. \A n : n \in 1..4 <=> n \in {1, 2, 3, 4}
  OBVIOUS
<1> HIDE DEF Baseline
<1>3. Revision = {Baseline[n] : n \in {1, 2, 3, 4}}
  BY <1>2 DEF Revision
<1> QED
  BY <1>1, <1>3

LEMMA BaselineIsRevision == \A n \in 1..4 : Baseline[n] \in Revision
  BY DEF Revision

\* The places a process goes to.
LEMMA Orders ==
    /\ LegacyOrder["inspecting"] = "creating"
    /\ LegacyOrder["creating"] = "altering"
    /\ LegacyOrder["altering"] = "stamping"
    /\ LegacyOrder["stamping"] = "versioning"
    /\ ChangeOrder["serving"] = "forgetting"
    /\ ChangeOrder["forgetting"] = "clearing"
    /\ ChangeOrder["clearing"] = "serving"
  BY DEF LegacyOrder, ChangeOrder

-----------------------------------------------------------------------------
(* Types.  A process executes what it has found missing in one of two      *)
(* places, and goes on from there.                                         *)

Process == [at : Places, key : Nat \cup {NoFile}, todo : SUBSET (Revision \cup Columns),
            from : Versions \cup {"creating", "altering"}]

TypeInv ==
    /\ TypeOK
    /\ \A p \in Processes : At(p, "executing") => proc[p].from \in {"creating", "altering"}

LEMMA AccountsAreAccounts ==
    \A source \in {"generated", "configured", "published", "chosen", "reset"}, must \in BOOLEAN :
      /\ [password |-> source, must |-> must] \in Accounts
      /\ [password |-> source, must |-> must] # NoAccount
<1>1. \A source \in {"generated", "configured", "published", "chosen", "reset"}, must \in BOOLEAN :
        [password |-> source, must |-> must] \in Accounts
  BY Zenon DEF Accounts
<1> QED
  BY <1>1 DEF NoAccount

LEMMA TypeInit == Init => TypeInv
<1> SUFFICES ASSUME Init PROVE TypeInv
  OBVIOUS
<1>1. Down \in Process
  <2>1. {} \in SUBSET (Revision \cup Columns)
    OBVIOUS
  <2>2. "down" \in Places /\ "none" \in Versions /\ Empty \in Nat
    BY DEF Empty, Places, Versions
  <2> QED
    BY <2>1, <2>2, Zenon DEF Down, Process
<1>2. proc = [p \in Processes |-> Down]
  BY DEF Init
<1>3. proc \in [Processes -> Process]
  BY <1>1, <1>2
<1>4. \A p \in Processes : ~At(p, "executing")
  BY <1>2 DEF At, Down
<1>x. IndexesOK
  BY DEF Init, IndexesOK
<1>5. TypeOK
  <2>1. account \in Accounts \cup {NoAccount}
    BY AccountsAreAccounts DEF Init
  <2>2. tables \subseteq Revision
    BY RevisionTables DEF Init, Models
  <2>5. version \in Versions
    BY DEF Init, Versions
  <2>3. lacking \subseteq Columns
    BY DEF Init, Columns
  <2>4. keyfile = NoFile /\ pwfile = "none" /\ told = FALSE /\ starts = 0
    BY DEF Init
  <2> QED
    BY <1>3, <1>x, <2>1, <2>2, <2>3, <2>4, <2>5 DEF TypeOK, Process
<1> QED
  BY <1>4, <1>5 DEF TypeInv

\* A process that goes somewhere keeps its shape, and the others stay.
LEMMA StepsKeepPlaces ==
    ASSUME TypeInv, NEW p \in Processes, NEW place \in Process,
           place.at = "executing" => place.from \in {"creating", "altering"},
           proc' = [proc EXCEPT ![p] = place]
    PROVE  /\ proc' \in [Processes -> Process]
           /\ \A q \in Processes : At(q, "executing")' => proc'[q].from \in {"creating", "altering"}
  BY DEF TypeInv, TypeOK, At, Process

LEMMA GotoKeepsPlaces ==
    ASSUME TypeInv, NEW p \in Processes, NEW place \in Places, place # "executing",
           Goto(p, place)
    PROVE  /\ proc' \in [Processes -> Process]
           /\ \A q \in Processes : At(q, "executing")' => proc'[q].from \in {"creating", "altering"}
<1> DEFINE there == [proc[p] EXCEPT !.at = place]
<1>1. proc[p] \in Process
  BY DEF TypeInv, TypeOK, Process
<1>2. there \in Process /\ there.at = place
  BY <1>1 DEF Process
<1>3. proc' = [proc EXCEPT ![p] = there]
  BY <1>1 DEF Goto
<1> HIDE DEF there
<1> QED
  BY <1>2, <1>3, StepsKeepPlaces

LEMMA LegacyPlaces ==
    /\ \A place \in {"inspecting", "creating", "altering", "stamping"} :
         LegacyOrder[place] \in Places \ {"executing"}
    /\ \A place \in {"serving", "forgetting", "clearing"} :
         ChangeOrder[place] \in Places \ {"executing"}
  BY Orders DEF Places

LEMMA DownIsAProcess == Down \in Process /\ Down.at = "down"
<1>1. {} \in SUBSET (Revision \cup Columns)
  OBVIOUS
<1>2. "down" \in Places /\ "none" \in Versions /\ Empty \in Nat
  BY DEF Empty, Places, Versions
<1>3. Down \in Process
  BY <1>1, <1>2, Zenon DEF Down, Process
<1> QED
  BY <1>3 DEF Down

LEMMA FailKeepsPlaces ==
    ASSUME TypeInv, NEW p \in Processes, Fail(p)
    PROVE  /\ proc' \in [Processes -> Process]
           /\ \A q \in Processes : At(q, "executing")' => proc'[q].from \in {"creating", "altering"}
  BY DownIsAProcess, StepsKeepPlaces DEF Fail

LEMMA ColumnsOfModels == Models \subseteq Revision
  BY DEF Models

LEMMA IndexesNext == IndexesOK /\ [Next]_vars => IndexesOK'
<1> SUFFICES ASSUME IndexesOK, [Next]_vars PROVE IndexesOK'
  OBVIOUS
<1>1. CASE UNCHANGED indexes
  BY <1>1 DEF IndexesOK, indexes
<1>2. CASE unindexed' \subseteq unindexed /\ UNCHANGED indexing
  BY <1>2 DEF IndexesOK
<1>3. ASSUME NEW p \in Processes, NEW table, IndexNext(p, table) PROVE IndexesOK'
  BY <1>1, <1>3 DEF IndexNext, IndexesOK
<1>4. ASSUME NEW p \in Processes, Crash(p) \/ CreateIndexes(p) PROVE IndexesOK'
  BY <1>4 DEF Crash, CreateIndexes, IndexesOK
<1>5. CASE UNCHANGED vars
  BY <1>1, <1>5 DEF vars
<1>6. ASSUME NEW p \in Processes, FirstChange(p) \/ FinishUpgrade(p) PROVE IndexesOK'
  BY <1>2, <1>6 DEF FirstChange, FinishUpgrade
<1>7. ASSUME NEW p \in Processes, NEW name \in Models \cup Columns, Execute(p, name)
      PROVE  IndexesOK'
  BY <1>1, <1>3, <1>7 DEF Execute
<1>8. ASSUME NEW p \in Processes, NEW n \in 1..4, CreateBaseline(p, n)
      PROVE  IndexesOK'
  BY <1>1, <1>3, <1>8 DEF CreateBaseline
<1>9. ASSUME NEW p \in Processes,
             \/ ReadKey(p) \/ OpenKey(p) \/ WriteKey(p) \/ RereadKey(p)
             \/ Inspect(p) \/ FindMissing(p, "creating") \/ FindMissing(p, "altering")
             \/ EnsureVersion(p) \/ Stamp(p) \/ Plan(p)
      PROVE  IndexesOK'
  BY <1>1, <1>9 DEF ReadKey, OpenKey, WriteKey, RereadKey, Inspect, FindMissing,
                    EnsureVersion, Stamp, Plan
<1>10. ASSUME NEW p \in Processes,
              \/ Seed(p) \/ InsertAdmin(p) \/ SavePassword(p)
              \/ ChangePassword(p) \/ Forget(p) \/ CommitPassword(p) \/ ResetPassword(p)
       PROVE  IndexesOK'
  BY <1>1, <1>10 DEF Seed, InsertAdmin, SavePassword, ChangePassword, Forget,
                     CommitPassword, ResetPassword
<1> QED
  BY <1>4, <1>5, <1>6, <1>7, <1>8, <1>9, <1>10 DEF Next

LEMMA TypeNext == TypeInv /\ [Next]_vars => TypeInv'
<1> SUFFICES ASSUME TypeInv, [Next]_vars PROVE TypeInv'
  OBVIOUS
<1>x. IndexesOK'
  BY IndexesNext DEF TypeInv, TypeOK
<1> USE <1>x
<1> DEFINE ShapeKept ==
      /\ proc' \in [Processes -> Process]
      /\ \A q \in Processes : At(q, "executing")' => proc'[q].from \in {"creating", "altering"}
<1>t. /\ TypeOK
      /\ proc \in [Processes -> Process]
      /\ \A q \in Processes : At(q, "executing") => proc[q].from \in {"creating", "altering"}
  BY DEF TypeInv, TypeOK, Process
<1>f. ASSUME ShapeKept, UNCHANGED <<database, keyfile, pwfile, told, starts>> PROVE TypeInv'
  BY <1>f, <1>t DEF TypeInv, TypeOK, Process, database
<1>g. UNCHANGED proc => ShapeKept
  BY <1>t DEF At
<1>h. ASSUME NEW p \in Processes, NEW place \in Places \ {"executing"}, Goto(p, place)
      PROVE ShapeKept
  BY <1>h, GotoKeepsPlaces
<1>i. \A place \in {"down", "opening", "writing", "rereading", "inspecting", "creating",
         "altering", "stamping", "versioning", "baseline", "dropping", "adding",
         "finishing", "seeding", "inserting", "saving", "serving", "forgetting",
         "clearing", "committing"} : place \in Places \ {"executing"}
  BY DEF Places
<1>1. CASE UNCHANGED vars
  BY <1>1, <1>f, <1>g DEF vars
<1>2. ASSUME NEW p \in Processes, Crash(p) PROVE TypeInv'
  <2>1. ShapeKept
    BY <1>2, FailKeepsPlaces DEF Crash
  <2> QED
    BY <1>2, <1>f, <2>1 DEF Crash
<1>3. ASSUME NEW p \in Processes, ReadKey(p) PROVE TypeInv'
  <2>1. starts + 1 \in Nat /\ (keyfile \notin {NoFile, Empty} => keyfile \in Nat)
    BY <1>t DEF TypeOK
  <2>2. PICK place :
          /\ place = IF keyfile \in {NoFile, Empty}
                     THEN [Down EXCEPT !.at = "opening", !.key = starts + 1]
                     ELSE [Down EXCEPT !.at = "inspecting", !.key = keyfile]
          /\ proc' = [proc EXCEPT ![p] = place]
    BY <1>3 DEF ReadKey
  <2>3. place \in Process /\ place.at # "executing"
    BY <2>1, <2>2, DownIsAProcess, <1>i DEF Process
  <2>4. ShapeKept
    BY <2>2, <2>3, StepsKeepPlaces
  <2>5. UNCHANGED <<database, keyfile, pwfile, told>> /\ starts' = starts + 1
    BY <1>3 DEF ReadKey
  <2> QED
    BY <1>t, <2>1, <2>4, <2>5 DEF TypeInv, TypeOK, Process, database
<1>4. ASSUME NEW p \in Processes, OpenKey(p) PROVE TypeInv'
  <2>1. ShapeKept
    BY <1>4, <1>h, <1>i DEF OpenKey
  <2>2. keyfile' \in Nat \cup {NoFile}
    BY <1>4, <1>t DEF OpenKey, TypeOK, Empty
  <2>3. UNCHANGED <<database, pwfile, told, starts>>
    BY <1>4 DEF OpenKey
  <2> QED
    BY <1>t, <2>1, <2>2, <2>3 DEF TypeInv, TypeOK, Process, database
<1>5. ASSUME NEW p \in Processes, WriteKey(p) PROVE TypeInv'
  <2>1. ShapeKept
    BY <1>5, <1>h, <1>i DEF WriteKey
  <2>2. keyfile' \in Nat \cup {NoFile}
    BY <1>5, <1>t DEF WriteKey, TypeOK, Process
  <2>3. UNCHANGED <<database, pwfile, told, starts>>
    BY <1>5 DEF WriteKey
  <2> QED
    BY <1>t, <2>1, <2>2, <2>3 DEF TypeInv, TypeOK, Process, database
<1>6. ASSUME NEW p \in Processes, RereadKey(p) PROVE TypeInv'
  <2>1. PICK place :
          /\ place = [proc[p] EXCEPT !.at = "inspecting",
                                     !.key = IF keyfile = Empty THEN @ ELSE keyfile]
          /\ proc' = [proc EXCEPT ![p] = place]
    <3>1. proc[p] \in Process
      BY <1>t
    <3> QED
      BY <1>6, <3>1, <1>t DEF RereadKey
  <2>2. place \in Process /\ place.at = "inspecting"
    BY <1>t, <2>1, <1>i DEF TypeOK, Process, Empty
  <2> QED
    BY <1>6, <1>f, <2>1, <2>2, StepsKeepPlaces DEF RereadKey
<1>7. ASSUME NEW p \in Processes, Inspect(p) PROVE TypeInv'
  BY <1>7, <1>f, <1>h, <1>i, LegacyPlaces DEF Inspect
<1>8. ASSUME NEW p \in Processes, NEW from \in {"creating", "altering"}, FindMissing(p, from)
      PROVE TypeInv'
  <2>1. Missing(from) \subseteq Revision \cup Columns
    BY <1>t DEF Missing, Models, TypeOK
  <2>2. PICK place :
          /\ place = IF Missing(from) = {}
                     THEN [proc[p] EXCEPT !.at = LegacyOrder[from]]
                     ELSE [proc[p] EXCEPT !.at = "executing", !.from = from,
                                          !.todo = Missing(from)]
          /\ proc' = [proc EXCEPT ![p] = place]
    <3>1. proc[p] \in Process
      BY <1>t
    <3> QED
      BY <1>8, <3>1, <1>t DEF FindMissing, Process
  <2>3. "executing" \in Places
    BY DEF Places
  <2>4. place \in Process /\ (place.at = "executing" => place.from \in {"creating", "altering"})
    BY <1>t, <2>1, <2>2, <2>3, LegacyPlaces DEF Process
  <2> QED
    BY <1>8, <1>f, <2>2, <2>4, StepsKeepPlaces DEF FindMissing
<1>9. ASSUME NEW p \in Processes, NEW name \in Models \cup Columns, Execute(p, name)
      PROVE TypeInv'
  <2>1. tables' \subseteq Revision /\ lacking' \subseteq Columns
    BY <1>9, <1>t, ColumnsOfModels DEF Execute, TypeOK
  <2>2. ASSUME ~Fail(p) PROVE ShapeKept
    <3>1. proc[p].from \in {"creating", "altering"} /\ proc[p] \in Process
      BY <1>9, <1>t DEF Execute
    <3>2. PICK place :
            /\ place = [proc[p] EXCEPT !.todo = proc[p].todo \ {name},
                          !.at = IF proc[p].todo \ {name} = {}
                                 THEN LegacyOrder[proc[p].from] ELSE @]
            /\ proc' = [proc EXCEPT ![p] = place]
      BY <1>9, <2>2, <3>1, <1>t DEF Execute, Process
    <3>3. place \in Process /\ place.from \in {"creating", "altering"}
      BY <3>1, <3>2, LegacyPlaces DEF Process
    <3> QED
      BY <3>2, <3>3, StepsKeepPlaces
  <2>3. ShapeKept
    BY <2>2, FailKeepsPlaces
  <2>4. UNCHANGED <<version, account, keyfile, pwfile, told, starts>>
    BY <1>9 DEF Execute
  <2> QED
    BY <1>t, <2>1, <2>3, <2>4 DEF TypeInv, TypeOK, Process
<1>10. ASSUME NEW p \in Processes, EnsureVersion(p) \/ Stamp(p) PROVE TypeInv'
  <2>1. ShapeKept
    BY <1>10, <1>g, <1>h, LegacyPlaces DEF EnsureVersion, Stamp
  <2>2. version' \in Versions
    BY <1>10 DEF EnsureVersion, Stamp, Versions
  <2>3. UNCHANGED <<tables, lacking, account, keyfile, pwfile, told, starts>>
    BY <1>10 DEF EnsureVersion, Stamp
  <2> QED
    BY <1>t, <2>1, <2>2, <2>3 DEF TypeInv, TypeOK, Process
<1>11. ASSUME NEW p \in Processes, Plan(p) PROVE TypeInv'
  <2>1. version \in Versions \ {"none"}
    BY <1>11, <1>t DEF Plan, TypeOK
  <2>2. PICK place :
          /\ place = [proc[p] EXCEPT
               !.at = UpgradeOf(version),
               !.todo = IF version = "empty" THEN Revision ELSE {},
               !.from = version]
          /\ proc' = [proc EXCEPT ![p] = place]
    <3>1. proc[p] \in Process
      BY <1>t
    <3> QED
      BY <1>11, <3>1, <1>t DEF Plan, Process
  <2>3. place \in Process /\ place.at \in Places \ {"executing"}
    <3>1. UpgradeOf(version) \in Places \ {"executing"}
      BY <2>1, <1>i DEF UpgradeOf, Versions
    <3> QED
      BY <1>t, <2>1, <2>2, <3>1 DEF Process
  <2> QED
    BY <1>11, <1>f, <2>2, <2>3, StepsKeepPlaces DEF Plan
<1>12. ASSUME NEW p \in Processes, NEW n \in 1..4, CreateBaseline(p, n) PROVE TypeInv'
  <2>1. tables' \subseteq Revision /\ lacking' \subseteq Columns
    BY <1>12, <1>t, BaselineIsRevision DEF CreateBaseline, TypeOK, Columns
  <2>2. ASSUME ~Fail(p) PROVE ShapeKept
    <3>1. At(p, "baseline") /\ proc[p] \in Process
      BY <1>12, <1>t DEF CreateBaseline
    <3>2. PICK place :
            /\ place = [proc[p] EXCEPT !.todo = proc[p].todo \ {Baseline[n]},
                          !.at = IF proc[p].todo \ {Baseline[n]} = {} THEN "finishing" ELSE @]
            /\ proc' = [proc EXCEPT ![p] = place]
      BY <1>12, <2>2, <3>1, <1>t DEF CreateBaseline, Process
    <3>3. place \in Process /\ place.at \in {"baseline", "finishing"}
      BY <3>1, <3>2, <1>i DEF Process, At
    <3> QED
      BY <3>2, <3>3, StepsKeepPlaces
  <2>3. ShapeKept
    BY <2>2, FailKeepsPlaces
  <2>4. UNCHANGED <<version, account, keyfile, pwfile, told, starts>>
    BY <1>12 DEF CreateBaseline
  <2> QED
    BY <1>t, <2>1, <2>3, <2>4 DEF TypeInv, TypeOK, Process
<1>13. ASSUME NEW p \in Processes, FirstChange(p) \/ FinishUpgrade(p) PROVE TypeInv'
  <2>1. ShapeKept
    BY <1>13, <1>h, <1>i, FailKeepsPlaces DEF FirstChange, FinishUpgrade
  <2>2. tables' \subseteq Revision /\ lacking' \subseteq Columns /\ version' \in Versions
    BY <1>13, <1>t DEF FirstChange, FinishUpgrade, TypeOK, Versions
  <2>3. UNCHANGED <<account, keyfile, pwfile, told, starts>>
    BY <1>13 DEF FirstChange, FinishUpgrade
  <2> QED
    BY <1>t, <2>1, <2>2, <2>3 DEF TypeInv, TypeOK, Process
<1>14. ASSUME NEW p \in Processes, Seed(p) \/ InsertAdmin(p) \/ CommitPassword(p) \/ ResetPassword(p)
       PROVE TypeInv'
  <2>1. ShapeKept
    BY <1>14, <1>g, <1>h, <1>i, LegacyPlaces, FailKeepsPlaces
       DEF Seed, InsertAdmin, CommitPassword, ResetPassword
  <2>2. account = NoAccount \/ account \in Accounts
    BY <1>t DEF TypeOK
  <2>3. account' = NoAccount \/ account' \in Accounts
    <3>1. ASSUME Seed(p) PROVE account' = NoAccount \/ account' \in Accounts
      BY <2>2, <3>1 DEF Seed, Accounts
    <3>2. ASSUME InsertAdmin(p) PROVE account' = NoAccount \/ account' \in Accounts
      <4>1. CASE account = NoAccount
        <5>1. PICK password \in {"generated", "configured"} :
                account' = [password |-> password, must |-> TRUE]
          BY <3>2, <4>1 DEF InsertAdmin
        <5> QED
          BY <5>1 DEF Accounts
      <4>2. CASE account # NoAccount
        BY <2>2, <3>2, <4>2 DEF InsertAdmin
      <4> QED
        BY <4>1, <4>2
    <3>3. ASSUME CommitPassword(p) PROVE account' = NoAccount \/ account' \in Accounts
      BY <3>3 DEF CommitPassword, Accounts
    <3>4. ASSUME ResetPassword(p) PROVE account' = NoAccount \/ account' \in Accounts
      BY <2>2, <3>4 DEF ResetPassword, Accounts
    <3> QED
      BY <1>14, <3>1, <3>2, <3>3, <3>4
  <2>4. UNCHANGED <<tables, lacking, version, keyfile, pwfile, told, starts>>
    BY <1>14 DEF Seed, InsertAdmin, CommitPassword, ResetPassword
  <2> QED
    BY <1>t, <2>1, <2>3, <2>4 DEF TypeInv, TypeOK, Process
<1>15. ASSUME NEW p \in Processes, SavePassword(p) \/ Forget(p) PROVE TypeInv'
  <2>1. ShapeKept
    BY <1>15, <1>h, <1>i, LegacyPlaces DEF SavePassword, Forget
  <2>2. pwfile' \in {"none", "generated"} /\ told' \in BOOLEAN
    BY <1>15, <1>t DEF SavePassword, Forget, TypeOK
  <2>3. UNCHANGED <<database, keyfile, starts>>
    BY <1>15 DEF SavePassword, Forget
  <2> QED
    BY <1>t, <2>1, <2>2, <2>3 DEF TypeInv, TypeOK, Process, database
<1>16. ASSUME NEW p \in Processes, ChangePassword(p) PROVE TypeInv'
  BY <1>16, <1>f, <1>h, <1>i, LegacyPlaces DEF ChangePassword
<1>17. ASSUME NEW p \in Processes, CreateIndexes(p) PROVE TypeInv'
  BY <1>17, <1>f, <1>g DEF CreateIndexes
<1> HIDE DEF ShapeKept
<1> QED
  BY <1>1, <1>2, <1>3, <1>4, <1>5, <1>6, <1>7, <1>8, <1>9, <1>10, <1>11, <1>12, <1>13,
     <1>14, <1>15, <1>16, <1>17 DEF Next

\* Every variable keeps its type.
THEOREM TypeCorrect == Spec => []TypeOK
<1>1. Spec => []TypeInv
  BY TypeInit, TypeNext, PTL DEF Spec
<1>2. TypeInv => TypeOK
  BY DEF TypeInv
<1> QED
  BY <1>1, <1>2, PTL

-----------------------------------------------------------------------------
(* Where a step takes its process; the others stay where they are.         *)

Moved(p, places) ==
    /\ proc'[p].at \in places
    /\ \A q \in Processes \ {p} : proc'[q] = proc[q]

LEMMA GotoMoves ==
    ASSUME TypeInv, NEW p \in Processes, NEW place, Goto(p, place)
    PROVE  Moved(p, {place})
  BY DEF TypeInv, TypeOK, Goto, Moved

LEMMA FailMoves ==
    ASSUME TypeInv, NEW p \in Processes, Fail(p)
    PROVE  Moved(p, {"down"})
  BY DownIsAProcess DEF TypeInv, TypeOK, Fail, Moved

LegacyMoves == {"creating", "altering", "executing", "stamping", "versioning"}
UpgradeMoves == {"baseline", "dropping", "adding", "finishing", "seeding"}

\* A step of the start-up before seed_default_admin, but for those that create
\* and write the key file.
MigrationStep(p) ==
    \/ ReadKey(p) \/ RereadKey(p)
    \/ Inspect(p) \/ FindMissing(p, "creating") \/ FindMissing(p, "altering")
    \/ \E name \in Models \cup Columns : Execute(p, name)
    \/ EnsureVersion(p) \/ Stamp(p) \/ Plan(p)
    \/ \E n \in 1..4 : CreateBaseline(p, n)
    \/ FirstChange(p) \/ FinishUpgrade(p)

LEMMA MigrationMoves ==
    ASSUME TypeInv, NEW p \in Processes, MigrationStep(p)
    PROVE  /\ Moved(p, {"down", "opening", "inspecting"} \cup LegacyMoves \cup UpgradeMoves)
           /\ UNCHANGED <<account, keyfile, pwfile, told>>
<1> DEFINE Moves == {"down", "opening", "inspecting"} \cup LegacyMoves \cup UpgradeMoves
<1>t. proc \in [Processes -> Process]
  BY DEF TypeInv, TypeOK, Process
<1>g. \A place \in Moves : Goto(p, place) => Moved(p, Moves)
  BY GotoMoves DEF Moved
<1>f. Fail(p) => Moved(p, Moves)
  BY FailMoves DEF Moved
<1>1. ASSUME ReadKey(p) \/ RereadKey(p)
      PROVE Moved(p, Moves) /\ UNCHANGED <<account, keyfile, pwfile, told>>
  <2>1. CASE ReadKey(p)
    <3>1. Down \in Process
      BY DownIsAProcess
    <3> QED
      BY <1>t, <2>1, <3>1 DEF ReadKey, Moved, Process, database
  <2>2. CASE RereadKey(p)
    BY <1>t, <2>2 DEF RereadKey, Moved, Process, database
  <2> QED
    BY <1>1, <2>1, <2>2
<1>2. ASSUME NEW from \in {"creating", "altering"}, FindMissing(p, from)
      PROVE Moved(p, Moves) /\ UNCHANGED <<account, keyfile, pwfile, told>>
  BY <1>t, <1>2, Orders DEF FindMissing, Moved, Process, database, LegacyMoves
<1>3. ASSUME NEW name \in Models \cup Columns, Execute(p, name)
      PROVE Moved(p, Moves) /\ UNCHANGED <<account, keyfile, pwfile, told>>
  <2>1. proc[p].from \in {"creating", "altering"}
    BY <1>3 DEF TypeInv, Execute
  <2>2. LegacyOrder[proc[p].from] \in Moves /\ "executing" \in Moves
    BY <2>1, Orders DEF LegacyMoves
  <2>3. CASE Fail(p)
    BY <1>3, <1>f, <2>3 DEF Execute
  <2>4. CASE ~Fail(p)
    BY <1>t, <1>3, <2>2, <2>4 DEF Execute, Moved, Process, At
  <2> QED
    BY <2>3, <2>4
<1>4. ASSUME Plan(p)
      PROVE Moved(p, Moves) /\ UNCHANGED <<account, keyfile, pwfile, told>>
  <2>1. UpgradeOf(version) \in Moves
    BY <1>4 DEF TypeInv, TypeOK, Plan, UpgradeOf, Versions, UpgradeMoves
  <2> QED
    BY <1>t, <1>4, <2>1 DEF Plan, Moved, Process, database
<1>5. ASSUME NEW n \in 1..4, CreateBaseline(p, n)
      PROVE Moved(p, Moves) /\ UNCHANGED <<account, keyfile, pwfile, told>>
  <2>1. CASE Fail(p)
    BY <1>5, <1>f, <2>1 DEF CreateBaseline
  <2>2. CASE ~Fail(p)
    BY <1>t, <1>5, <2>2 DEF CreateBaseline, Moved, Process, At, UpgradeMoves
  <2> QED
    BY <2>1, <2>2
<1>6. ASSUME Inspect(p) \/ Stamp(p) \/ FirstChange(p) \/ FinishUpgrade(p)
      PROVE Moved(p, Moves) /\ UNCHANGED <<account, keyfile, pwfile, told>>
  BY <1>6, <1>f, <1>g, Orders
     DEF Inspect, Stamp, FirstChange, FinishUpgrade, database, LegacyMoves, UpgradeMoves
<1>7. ASSUME EnsureVersion(p)
      PROVE Moved(p, Moves) /\ UNCHANGED <<account, keyfile, pwfile, told>>
  BY <1>7 DEF EnsureVersion, Moved, At, LegacyMoves
<1> HIDE DEF Moves
<1> QED
  BY <1>1, <1>2, <1>3, <1>4, <1>5, <1>6, <1>7 DEF MigrationStep, Moves

-----------------------------------------------------------------------------
(* The signing key.  Only the process that has created the file writes it, *)
(* and until then the file is empty.                                       *)

KeyInv ==
    \A p \in Processes : At(p, "writing") =>
        keyfile = Empty /\ \A q \in Processes : At(q, "writing") => q = p

\* No step but these touches the key file or lets a process write it.
LEMMA KeyLeftAlone ==
    ASSUME KeyInv, UNCHANGED keyfile, NEW p \in Processes, NEW places,
           Moved(p, places), "writing" \notin places
    PROVE  KeyInv'
  BY DEF KeyInv, Moved, At

LEMMA KeyInit == Init => KeyInv
  BY DEF Init, KeyInv, At, Down

LEMMA KeyNext == TypeInv /\ KeyInv /\ [Next]_vars => KeyInv'
<1> SUFFICES ASSUME TypeInv, KeyInv, [Next]_vars PROVE KeyInv'
  OBVIOUS
<1>1. CASE UNCHANGED vars
  BY <1>1 DEF vars, KeyInv, At
<1>2. ASSUME NEW p \in Processes, Crash(p) PROVE KeyInv'
  BY <1>2, FailMoves, KeyLeftAlone DEF Crash
<1>3. ASSUME NEW p \in Processes, MigrationStep(p) PROVE KeyInv'
  <2>1. "writing" \notin {"down", "opening", "inspecting"} \cup LegacyMoves \cup UpgradeMoves
    BY DEF LegacyMoves, UpgradeMoves
  <2> QED
    BY <1>3, <2>1, MigrationMoves, KeyLeftAlone
<1>4. ASSUME NEW p \in Processes, OpenKey(p) PROVE KeyInv'
  <2>1. CASE UNCHANGED keyfile
    <3>1. Goto(p, "rereading") \/ Goto(p, "inspecting")
      BY <1>4, <2>1 DEF OpenKey, MayCreate, NoFile, Empty
    <3> QED
      BY <2>1, <3>1, GotoMoves, KeyLeftAlone
  <2>2. CASE ~UNCHANGED keyfile
    <3>1. keyfile = NoFile /\ keyfile' = Empty /\ Goto(p, "writing")
      BY <1>4, <2>2 DEF OpenKey, MayCreate
    <3>2. \A q \in Processes : ~At(q, "writing")
      BY <3>1 DEF KeyInv, NoFile, Empty
    <3> QED
      BY <3>1, <3>2, GotoMoves DEF KeyInv, Moved, At
  <2> QED
    BY <2>1, <2>2
<1>5. ASSUME NEW p \in Processes, WriteKey(p) PROVE KeyInv'
  <2>1. At(p, "writing") /\ Moved(p, {"inspecting"})
    BY <1>5, GotoMoves DEF WriteKey
  <2> QED
    BY <2>1 DEF KeyInv, Moved, At
<1>6. ASSUME NEW p \in Processes,
             \/ Seed(p) \/ InsertAdmin(p) \/ SavePassword(p)
             \/ ChangePassword(p) \/ Forget(p) \/ CommitPassword(p)
      PROVE KeyInv'
  <2>1. UNCHANGED keyfile
    BY <1>6 DEF Seed, InsertAdmin, SavePassword, ChangePassword, Forget, CommitPassword
  <2>2. PICK place \in {"down", "inserting", "saving", "serving", "forgetting", "clearing", "committing"} :
          Moved(p, {place})
    BY <1>6, GotoMoves, FailMoves, Orders
       DEF Seed, InsertAdmin, SavePassword, ChangePassword, Forget, CommitPassword
  <2> QED
    BY <2>1, <2>2, KeyLeftAlone
<1>7. ASSUME NEW p \in Processes, ResetPassword(p) \/ CreateIndexes(p) PROVE KeyInv'
  BY <1>7 DEF ResetPassword, CreateIndexes, KeyInv, At
<1> QED
  BY <1>1, <1>2, <1>3, <1>4, <1>5, <1>6, <1>7 DEF Next, MigrationStep

\* A signing key that has been written whole is never replaced: whoever may
\* still write the file has found it missing, and it is empty until then.
THEOREM SigningKeyIsKept == Spec => KeyIsKept
<1>1. Spec => [](TypeInv /\ KeyInv)
  BY TypeInit, TypeNext, KeyInit, KeyNext, PTL DEF Spec
<1>2. ASSUME TypeInv, KeyInv, [Next]_vars, keyfile \notin {NoFile, Empty} PROVE keyfile' = keyfile
  <2>1. CASE UNCHANGED vars
    BY <2>1 DEF vars
  <2>2. ASSUME NEW p \in Processes, MigrationStep(p) PROVE keyfile' = keyfile
    BY <1>2, <2>2, MigrationMoves
  <2>3. ASSUME NEW p \in Processes, OpenKey(p) PROVE keyfile' = keyfile
    BY <1>2, <2>3 DEF OpenKey, MayCreate
  <2>4. ASSUME NEW p \in Processes, WriteKey(p) PROVE keyfile' = keyfile
    BY <1>2, <2>4 DEF WriteKey, KeyInv
  <2>5. ASSUME NEW p \in Processes,
               \/ Crash(p) \/ Seed(p) \/ InsertAdmin(p) \/ SavePassword(p)
               \/ ChangePassword(p) \/ Forget(p) \/ CommitPassword(p) \/ ResetPassword(p)
               \/ CreateIndexes(p)
        PROVE keyfile' = keyfile
    BY <2>5 DEF Crash, CreateIndexes, Seed, InsertAdmin, SavePassword, ChangePassword, Forget,
                CommitPassword, ResetPassword
  <2> QED
    BY <1>2, <2>1, <2>2, <2>3, <2>4, <2>5 DEF Next, MigrationStep
<1>3. TypeInv /\ KeyInv /\ [Next]_vars =>
        [keyfile \notin {NoFile, Empty} => keyfile' = keyfile]_keyfile
  BY <1>2
<1> QED
  BY <1>1, <1>3, PTL DEF Spec, KeyIsKept

-----------------------------------------------------------------------------
(* The password file.  Before the account exists there is no file; until   *)
(* the process that made the account has saved its password, nobody knows  *)
(* it and so nobody changes it; and the file is gone before a change is    *)
(* committed.                                                              *)

Afterwards == {"saving", "forgetting", "clearing", "committing"}

FileInv ==
    /\ account = NoAccount =>
         ~told /\ pwfile = "none" /\ \A p \in Processes : proc[p].at \notin Afterwards
    /\ pwfile = "generated" =>
         account # NoAccount /\ account.password \in {"generated", "reset"} /\ account.must
    /\ \A p \in Processes : At(p, "saving") =>
         /\ account # NoAccount /\ account.password = "generated" /\ account.must
         /\ ~told /\ pwfile = "none"
         /\ \A q \in Processes \ {p} : proc[q].at \notin Afterwards
    /\ \A p \in Processes : At(p, "clearing") \/ At(p, "committing") => pwfile = "none"

LEMMA FileInit == Init => FileInv
  BY DEF NoAccount, Init, FileInv, At, Down, Afterwards

LEMMA FileLeftAlone ==
    ASSUME FileInv, NEW p \in Processes, NEW places, Moved(p, places),
           places \cap Afterwards = {}, UNCHANGED <<account, pwfile, told>>
    PROVE  FileInv'
  BY DEF FileInv, Moved, At, Afterwards

LEMMA FileNext == TypeInv /\ FileInv /\ [Next]_vars => FileInv'
<1> SUFFICES ASSUME TypeInv, FileInv, [Next]_vars PROVE FileInv'
  OBVIOUS
<1>1. CASE UNCHANGED vars
  BY <1>1 DEF vars, database, FileInv, At
<1>2. ASSUME NEW p \in Processes, Crash(p) PROVE FileInv'
  BY <1>2, FailMoves, FileLeftAlone DEF Crash, Afterwards, database
<1>3. ASSUME NEW p \in Processes, MigrationStep(p) PROVE FileInv'
  <2>1. ({"down", "opening", "inspecting"} \cup LegacyMoves \cup UpgradeMoves)
          \cap Afterwards = {}
    BY DEF LegacyMoves, UpgradeMoves, Afterwards
  <2> QED
    BY <1>3, <2>1, MigrationMoves, FileLeftAlone
<1>4. ASSUME NEW p \in Processes, OpenKey(p) \/ WriteKey(p) PROVE FileInv'
  <2>1. PICK place \in {"writing", "rereading", "inspecting"} : Moved(p, {place})
    BY <1>4, GotoMoves DEF OpenKey, WriteKey
  <2> QED
    BY <1>4, <2>1, FileLeftAlone DEF OpenKey, WriteKey, Afterwards, database
<1>5. ASSUME NEW p \in Processes, Seed(p) PROVE FileInv'
  <2>1. CASE ~UsersReadable
    BY <1>5, <2>1, FailMoves, FileLeftAlone DEF Seed, Afterwards
  <2>2. CASE UsersReadable
    <3>1. PICK place \in {"inserting", "serving"} : Moved(p, {place})
      BY <1>5, <2>2, GotoMoves DEF Seed
    <3>2. /\ account = NoAccount => account' = NoAccount
          /\ account # NoAccount => /\ account' # NoAccount
                                    /\ account'.password = account.password
                                    /\ account.must => account'.must
      <4>1. account' = account
            \/ /\ account # NoAccount /\ account.password \in {"configured", "published"}
               /\ account' = [account EXCEPT !.must = TRUE]
        BY <1>5, <2>2 DEF Seed
      <4>2. CASE account' = account
        BY <4>2 DEF NoAccount
      <4>3. CASE /\ account # NoAccount /\ account.password \in {"configured", "published"}
                 /\ account' = [account EXCEPT !.must = TRUE]
        <5>1. account \in Accounts
          BY <4>3 DEF TypeInv, TypeOK
        <5>2. account'.password = account.password /\ account'.must
          BY <4>3, <5>1 DEF Accounts
        <5>3. account' # NoAccount
          BY <4>3, <5>2 DEF NoAccount
        <5> QED
          BY <4>3, <5>2, <5>3
      <4> QED
        BY <4>1, <4>2, <4>3
    <3>3. UNCHANGED <<pwfile, told>> /\ At(p, "seeding")
      BY <1>5 DEF Seed
    <3> QED
      BY <3>1, <3>2, <3>3 DEF FileInv, Moved, At, Afterwards
  <2> QED
    BY <2>1, <2>2
<1>6. ASSUME NEW p \in Processes, InsertAdmin(p) PROVE FileInv'
  <2>1. CASE account # NoAccount
    BY <1>6, <2>1, FailMoves, FileLeftAlone DEF InsertAdmin, Afterwards
  <2>2. CASE account = NoAccount
    <3>1. PICK password \in {"generated", "configured"} :
            /\ account' = [password |-> password, must |-> TRUE]
            /\ Goto(p, IF password = "generated" THEN "saving" ELSE "serving")
      BY <1>6, <2>2 DEF InsertAdmin
    <3>2. Moved(p, {IF password = "generated" THEN "saving" ELSE "serving"})
      BY <3>1, GotoMoves
    <3>3. UNCHANGED <<pwfile, told>> /\ account' # NoAccount
      BY <1>6, <3>1, AccountsAreAccounts DEF InsertAdmin
    <3> QED
      BY <2>2, <3>1, <3>2, <3>3 DEF FileInv, Moved, At, Afterwards
  <2> QED
    BY <2>1, <2>2
<1>7. ASSUME NEW p \in Processes, SavePassword(p) PROVE FileInv'
  <2>1. At(p, "saving") /\ Moved(p, {"serving"}) /\ UNCHANGED account
    BY <1>7, GotoMoves DEF SavePassword, database
  <2>2. pwfile' \in {"generated", "none"}
    BY <1>7, <2>1 DEF SavePassword, FileInv
  <2> QED
    BY <2>1, <2>2 DEF FileInv, Moved, At, Afterwards
<1>8. ASSUME NEW p \in Processes, ChangePassword(p) PROVE FileInv'
  <2>1. /\ At(p, "serving") /\ account # NoAccount /\ Known
        /\ Moved(p, {IF account.must THEN "forgetting" ELSE "committing"})
        /\ UNCHANGED <<account, pwfile, told>>
    BY <1>8, GotoMoves, Orders DEF ChangePassword, database
  <2>2. \A q \in Processes : ~At(q, "saving")
    BY <2>1 DEF FileInv, Known
  <2>3. ~account.must => pwfile # "generated"
    BY DEF FileInv
  <2>4. pwfile \in {"none", "generated"}
    BY DEF TypeInv, TypeOK
  <2> QED
    BY <2>1, <2>2, <2>3, <2>4 DEF FileInv, Moved, At, Afterwards
<1>9. ASSUME NEW p \in Processes, Forget(p) PROVE FileInv'
  <2>1. At(p, "forgetting") /\ pwfile' = "none" /\ Moved(p, {"clearing"}) /\ UNCHANGED <<account, told>>
    BY <1>9, GotoMoves, Orders DEF Forget, database
  <2> QED
    BY <2>1 DEF FileInv, Moved, At, Afterwards
<1>10. ASSUME NEW p \in Processes, CommitPassword(p) PROVE FileInv'
  <2>1. /\ At(p, "clearing") \/ At(p, "committing")
        /\ account' = [password |-> "chosen", must |-> account.must /\ ~At(p, "clearing")]
        /\ Moved(p, {"serving"}) /\ UNCHANGED <<pwfile, told>>
    BY <1>10, GotoMoves, Orders DEF CommitPassword
  <2>2. account' # NoAccount
    BY <2>1, AccountsAreAccounts
  <2>3. \A q \in Processes \ {p} : ~At(q, "saving")
    BY <2>1 DEF FileInv, At, Afterwards
  <2> QED
    BY <2>1, <2>2, <2>3 DEF FileInv, Moved, At, Afterwards
<1>11. ASSUME NEW p \in Processes, ResetPassword(p) PROVE FileInv'
  <2>1. /\ account # NoAccount /\ Known
        /\ account' = [account EXCEPT !.password = "reset"]
        /\ UNCHANGED <<pwfile, told, proc>>
    BY <1>11 DEF ResetPassword
  <2>2. account' # NoAccount /\ account'.password = "reset" /\ account'.must = account.must
    <3>1. account \in Accounts
      BY <2>1 DEF TypeInv, TypeOK
    <3> QED
      BY <2>1, <3>1 DEF Accounts, NoAccount
  <2>3. \A q \in Processes : ~At(q, "saving")
    BY <2>1 DEF FileInv, Known
  <2> QED
    BY <2>1, <2>2, <2>3 DEF FileInv, At
<1>12. ASSUME NEW p \in Processes, CreateIndexes(p) PROVE FileInv'
  BY <1>12 DEF CreateIndexes, database, FileInv, At
<1> QED
  BY <1>1, <1>2, <1>3, <1>4, <1>5, <1>6, <1>7, <1>8, <1>9, <1>10, <1>11, <1>12
     DEF Next, MigrationStep

\* While initial_admin_password exists, its password opens the account.
THEOREM PasswordFileOpensAccount == Spec => []FileOpensAccount
<1>1. Spec => [](TypeInv /\ FileInv)
  BY TypeInit, TypeNext, FileInit, FileNext, PTL DEF Spec
<1>2. FileInv => FileOpensAccount
  BY DEF FileInv, FileOpensAccount
<1> QED
  BY <1>1, <1>2, PTL

-----------------------------------------------------------------------------
(* The schema.  What each place of a process says about the database, and  *)
(* what the version table says about it; above all, that only one process  *)
(* gets past the first table of revision 0001, and none does so while an   *)
(* older database is brought to the baseline.                              *)

InLegacy(p) == proc[p].at \in {"creating", "altering", "executing", "stamping"}

\* Revision 0001 has created a table.
InBaseline(p) ==
    \/ At(p, "baseline") /\ proc[p].todo # Revision
    \/ At(p, "finishing") /\ proc[p].from = "empty"

InLater(p) ==
    \/ At(p, "dropping") \/ At(p, "adding")
    \/ At(p, "finishing") /\ proc[p].from # "empty"

Upgraded(p) ==
    proc[p].at \in {"seeding", "inserting", "saving", "serving", "forgetting", "clearing", "committing"}

Migrated == version \notin {"none", "empty"}

Current == tables = Models /\ lacking = {}

DatabaseInv ==
    /\ tables = {} => lacking = {}
    /\ version = "none" /\ "users" \notin tables => tables = {}
    /\ version # "none" /\ "app_settings" \notin tables => tables = {}
    /\ Migrated => Models \subseteq tables /\ lacking \subseteq {"must_change_password"}
    /\ version = "0003" => Current

LegacyInv(p) ==
    /\ InLegacy(p) => "users" \in tables /\ (version # "none" => Models \subseteq tables)
    /\ At(p, "executing") /\ proc[p].from = "creating" =>
         proc[p].todo \subseteq Models /\ Models \ proc[p].todo \subseteq tables
    /\ At(p, "executing") /\ proc[p].from = "altering" =>
         proc[p].todo \subseteq Columns /\ lacking \subseteq proc[p].todo /\ Models \subseteq tables
    /\ At(p, "altering") => Models \subseteq tables
    /\ At(p, "stamping") => Models \subseteq tables /\ lacking = {}

UpgradeInv(p) ==
    /\ At(p, "versioning") /\ version = "none" => tables = {}
    /\ At(p, "baseline") =>
         version # "none" /\ proc[p].from = "empty" /\ proc[p].todo \subseteq Revision
    /\ InBaseline(p) =>
         /\ version = "empty" /\ "app_settings" \in tables \ proc[p].todo
         /\ Revision \ proc[p].todo \subseteq tables
         /\ lacking \subseteq {"must_change_password"}
    /\ At(p, "dropping") \/ At(p, "adding") => proc[p].from # "empty" /\ proc[p].todo = {}
    /\ At(p, "finishing") => proc[p].todo = {}
    /\ InLater(p) => Migrated
    /\ Upgraded(p) => Migrated /\ Current

SchemaInv ==
    /\ DatabaseInv
    /\ \A p \in Processes : LegacyInv(p) /\ UpgradeInv(p)
    /\ \A p, q \in Processes : InBaseline(p) /\ (InBaseline(q) \/ InLegacy(q)) => p = q

LEMMA Names ==
    /\ Models = {"app_settings", "users", "hostnames"}
    /\ Revision = Models \cup {"blacklisted_hostnames"}
    /\ Models \cap Columns = {}
  BY RevisionTables DEF Models, Columns

LEMMA SchemaInit == Init => SchemaInv
<1> SUFFICES ASSUME Init PROVE SchemaInv
  OBVIOUS
<1>1. \A p \in Processes : proc[p].at = "down"
  BY DEF Init, Down
<1>2. \A p \in Processes : LegacyInv(p) /\ UpgradeInv(p) /\ ~InBaseline(p) /\ ~InLegacy(p)
  BY <1>1 DEF LegacyInv, UpgradeInv, InBaseline, InLegacy, InLater, Upgraded, At
<1>3. DatabaseInv
  BY Names DEF Init, DatabaseInv, Migrated, Current, Columns
<1> QED
  BY <1>2, <1>3 DEF SchemaInv

\* A step that leaves the database alone and enters no exclusive place.
LEMMA DatabaseLeftAlone ==
    ASSUME SchemaInv, UNCHANGED <<tables, lacking, version>>, NEW p \in Processes, NEW places,
           Moved(p, places), LegacyInv(p)', UpgradeInv(p)', InBaseline(p)' => InBaseline(p),
           InLegacy(p)' => InLegacy(p) \/ \A q \in Processes : ~InBaseline(q)
    PROVE  SchemaInv'
<1>1. DatabaseInv'
  BY DEF SchemaInv, DatabaseInv, database, Migrated, Current
<1>2. ASSUME NEW q \in Processes \ {p}
      PROVE /\ LegacyInv(q)' /\ UpgradeInv(q)'
            /\ InBaseline(q)' <=> InBaseline(q)
            /\ InLegacy(q)' <=> InLegacy(q)
  <2>1. proc'[q] = proc[q] /\ LegacyInv(q) /\ UpgradeInv(q)
    BY DEF Moved, SchemaInv
  <2>2. (InBaseline(q)' <=> InBaseline(q)) /\ (InLegacy(q)' <=> InLegacy(q))
    BY <2>1 DEF InBaseline, InLegacy, At
  <2>3. LegacyInv(q)'
    BY <2>1, <2>2 DEF LegacyInv, At, database
  <2>4. UpgradeInv(q)'
    BY <2>1, <2>2 DEF UpgradeInv, At, database, InLater, Upgraded, Migrated, Current
  <2> QED
    BY <2>2, <2>3, <2>4
<1>3. \A q, r \in Processes : InBaseline(q)' /\ (InBaseline(r)' \/ InLegacy(r)') => q = r
  BY <1>2 DEF SchemaInv
<1> QED
  BY <1>1, <1>2, <1>3 DEF SchemaInv

\* Places of which the invariant says nothing.
LEMMA FreePlaces ==
    ASSUME SchemaInv, UNCHANGED <<tables, lacking, version>>, NEW p \in Processes,
           Moved(p, {"down", "opening", "writing", "rereading", "inspecting"})
    PROVE  SchemaInv'
<1>1. LegacyInv(p)' /\ UpgradeInv(p)' /\ ~InBaseline(p)' /\ ~InLegacy(p)'
  BY DEF Moved, LegacyInv, UpgradeInv, InBaseline, InLegacy, InLater, Upgraded, At
<1> QED
  BY <1>1, DatabaseLeftAlone

LEMMA SteadyPlaces ==
    ASSUME SchemaInv, UNCHANGED <<tables, lacking, version>>, NEW p \in Processes, Upgraded(p),
           Moved(p, {"down", "inserting", "saving", "serving", "forgetting", "clearing", "committing"})
    PROVE  SchemaInv'
<1>1. LegacyInv(p)' /\ ~InBaseline(p)' /\ ~InLegacy(p)' /\ UpgradeInv(p)'
  BY DEF Moved, LegacyInv, UpgradeInv, InBaseline, InLegacy, InLater, Upgraded, At, SchemaInv,
         Migrated, Current, database
<1> QED
  BY <1>1, DatabaseLeftAlone

LEMMA InspectKeepsSchema ==
    ASSUME TypeInv, SchemaInv, NEW p \in Processes, Inspect(p)
    PROVE  SchemaInv'
<1>1. UNCHANGED <<tables, lacking, version>> /\ At(p, "inspecting") /\ DatabaseInv
  BY DEF Inspect, SchemaInv, database
<1>2. CASE IsLegacy
  <2>1. Moved(p, {"creating"})
    BY <1>2, GotoMoves, Orders DEF Inspect
  <2>2. LegacyInv(p)' /\ UpgradeInv(p)' /\ ~InBaseline(p)'
    BY <1>1, <1>2, <2>1 DEF Moved, IsLegacy, database, LegacyInv, UpgradeInv, InLegacy,
         InBaseline, InLater, Upgraded, At
  <2>3. \A q \in Processes : ~InBaseline(q)
    BY <1>2 DEF SchemaInv, UpgradeInv, IsLegacy
  <2> QED
    BY <1>1, <2>1, <2>2, <2>3, DatabaseLeftAlone
<1>3. CASE ~IsLegacy
  <2>1. Moved(p, {"versioning"})
    BY <1>3, GotoMoves DEF Inspect
  <2>2. LegacyInv(p)' /\ UpgradeInv(p)' /\ ~InBaseline(p)' /\ ~InLegacy(p)'
    BY <1>1, <1>3, <2>1 DEF Moved, IsLegacy, database, DatabaseInv, LegacyInv, UpgradeInv,
         InLegacy, InBaseline, InLater, Upgraded, At
  <2> QED
    BY <1>1, <2>1, <2>2, DatabaseLeftAlone
<1> QED
  BY <1>2, <1>3

LEMMA FindMissingKeepsSchema ==
    ASSUME TypeInv, SchemaInv, NEW p \in Processes, NEW from \in {"creating", "altering"},
           FindMissing(p, from)
    PROVE  SchemaInv'
<1>1. UNCHANGED <<tables, lacking, version>> /\ At(p, from) /\ LegacyInv(p) /\ InLegacy(p)
  BY DEF FindMissing, SchemaInv, InLegacy, At, database
<1>t. proc \in [Processes -> Process]
  BY DEF TypeInv, TypeOK, Process
<1>2. CASE Missing(from) = {}
  <2>1. Moved(p, {LegacyOrder[from]})
    BY <1>2, <1>t DEF FindMissing, Moved, Process
  <2>2. proc'[p].at = IF from = "creating" THEN "altering" ELSE "stamping"
    BY <2>1, Orders DEF Moved
  <2>3. from = "creating" => Models \subseteq tables
    BY <1>2 DEF Missing
  <2>4. from = "altering" => Models \subseteq tables /\ lacking = {}
    BY <1>1, <1>2 DEF Missing, LegacyInv
  <2>5. LegacyInv(p)' /\ UpgradeInv(p)' /\ ~InBaseline(p)'
    BY <1>1, <2>2, <2>3, <2>4 DEF database, LegacyInv, UpgradeInv, InLegacy, InBaseline,
         InLater, Upgraded, At
  <2> QED
    BY <1>1, <2>1, <2>5, DatabaseLeftAlone
<1>3. CASE Missing(from) # {}
  <2>1. /\ Moved(p, {"executing"})
        /\ proc'[p].from = from /\ proc'[p].todo = Missing(from)
    BY <1>3, <1>t DEF FindMissing, Moved, Process
  <2>2. from = "creating" => Missing(from) = Models \ tables
    BY DEF Missing
  <2>3. from = "altering" => Missing(from) = lacking /\ Models \subseteq tables /\ lacking \subseteq Columns
    BY <1>1 DEF Missing, LegacyInv, TypeInv, TypeOK
  <2>4. LegacyInv(p)'
    BY <1>1, <2>1, <2>2, <2>3 DEF Moved, database, LegacyInv, InLegacy, At
  <2>5. UpgradeInv(p)' /\ ~InBaseline(p)'
    BY <2>1 DEF Moved, UpgradeInv, InBaseline, InLater, Upgraded, At
  <2> QED
    BY <1>1, <2>1, <2>4, <2>5, DatabaseLeftAlone
<1> QED
  BY <1>2, <1>3

LEMMA PlanKeepsSchema ==
    ASSUME TypeInv, SchemaInv, NEW p \in Processes, Plan(p)
    PROVE  SchemaInv'
<1>t. proc \in [Processes -> Process] /\ version \in Versions \ {"none"}
  BY DEF Plan, TypeInv, TypeOK, Process
<1>1. UNCHANGED <<tables, lacking, version>> /\ DatabaseInv
  BY DEF Plan, SchemaInv, database
<1>2. /\ Moved(p, {UpgradeOf(version)})
      /\ proc'[p].from = version
      /\ proc'[p].todo = IF version = "empty" THEN Revision ELSE {}
  BY <1>t DEF Plan, Moved, Process
<1>3. proc'[p].at = UpgradeOf(version)
  BY <1>2 DEF Moved
<1>4. LegacyInv(p)' /\ UpgradeInv(p)' /\ ~InBaseline(p)' /\ ~InLegacy(p)'
  BY <1>t, <1>1, <1>2, <1>3 DEF UpgradeOf, Versions, database, DatabaseInv, Migrated, Current,
       LegacyInv, UpgradeInv, InLegacy, InBaseline, InLater, Upgraded, At
<1> QED
  BY <1>1, <1>2, <1>4, DatabaseLeftAlone

\* The other processes stay where they are, whatever happens to the database.
LEMMA OthersStay ==
    ASSUME NEW p \in Processes, NEW places, Moved(p, places), NEW q \in Processes \ {p}
    PROVE  /\ proc'[q] = proc[q]
           /\ InBaseline(q)' <=> InBaseline(q)
           /\ InLegacy(q)' <=> InLegacy(q)
           /\ InLater(q)' <=> InLater(q)
           /\ Upgraded(q)' <=> Upgraded(q)
           /\ \A place : At(q, place)' <=> At(q, place)
  BY DEF Moved, InBaseline, InLegacy, InLater, Upgraded, At

LEMMA ExecuteKeepsSchema ==
    ASSUME TypeInv, SchemaInv, NEW p \in Processes, NEW name \in Models \cup Columns,
           Execute(p, name)
    PROVE  SchemaInv'
<1>t. proc \in [Processes -> Process] /\ tables \subseteq Revision /\ lacking \subseteq Columns
  BY DEF TypeInv, TypeOK, Process
<1>1. CASE name \in tables \cup (Columns \ lacking)
  <2>1. Moved(p, {"down"}) /\ UNCHANGED <<tables, lacking, version>>
    BY <1>1, FailMoves DEF Execute, database
  <2> QED
    BY <2>1, FreePlaces DEF Moved
<1>2. CASE name \notin tables \cup (Columns \ lacking)
  <2> DEFINE rest == proc[p].todo \ {name}
             from == proc[p].from
  <2>1. /\ At(p, "executing") /\ name \in proc[p].todo /\ from \in {"creating", "altering"}
        /\ LegacyInv(p) /\ DatabaseInv /\ InLegacy(p)
    BY DEF Execute, TypeInv, SchemaInv, InLegacy, At
  <2>2. /\ tables' = tables \cup ({name} \ Columns) /\ lacking' = lacking \ {name}
        /\ UNCHANGED version
        /\ proc' = [proc EXCEPT ![p].todo = rest,
                      ![p].at = IF rest = {} THEN LegacyOrder[from] ELSE @]
    BY <1>2 DEF Execute
  <2>3. /\ \A q \in Processes \ {p} : proc'[q] = proc[q]
        /\ proc'[p].todo = rest /\ proc'[p].from = from
        /\ proc'[p].at = IF rest = {} THEN IF from = "creating" THEN "altering" ELSE "stamping"
                         ELSE "executing"
    BY <1>t, <2>1, <2>2, Orders DEF Process, At
  <2> HIDE DEF rest
  <2>4. Moved(p, {"altering", "stamping", "executing"})
    BY <2>3 DEF Moved
  <2>5. \A q \in Processes : ~InBaseline(q)
    BY <2>1 DEF SchemaInv, InLegacy, InBaseline, At
  <2>6. CASE from = "creating"
    <3>1. /\ name \in Models /\ name \notin tables
          /\ tables' = tables \cup {name} /\ lacking' = lacking
      BY <1>2, <1>t, <2>1, <2>2, <2>6, Names DEF LegacyInv
    <3>2. ~Migrated /\ ~Current
      BY <2>1, <3>1 DEF DatabaseInv, Current
    <3>3. DatabaseInv'
      BY <2>1, <2>2, <3>1, <3>2, Names DEF DatabaseInv, LegacyInv, Migrated, Current
    <3>4. LegacyInv(p)' /\ UpgradeInv(p)' /\ ~InBaseline(p)'
      <4>1. rest \subseteq Models /\ Models \ rest \subseteq tables'
        BY <2>1, <2>6, <3>1 DEF LegacyInv, rest
      <4>2. "users" \in tables' /\ (version' # "none" => Models \subseteq tables')
        BY <2>1, <2>2, <3>1 DEF LegacyInv
      <4> QED
        BY <2>3, <2>6, <4>1, <4>2 DEF LegacyInv, UpgradeInv, InBaseline, InLegacy, InLater, Upgraded, At
    <3>5. ASSUME NEW q \in Processes \ {p} PROVE LegacyInv(q)' /\ UpgradeInv(q)'
      <4>1. LegacyInv(q) /\ UpgradeInv(q)
        BY DEF SchemaInv
      <4>2. LegacyInv(q)'
        BY <2>2, <2>4, <3>1, <4>1, OthersStay DEF LegacyInv
      <4>3. UpgradeInv(q)'
        BY <2>1, <2>2, <2>4, <2>5, <3>1, <3>2, <4>1, OthersStay DEF UpgradeInv, Migrated, LegacyInv
      <4> QED
        BY <4>2, <4>3
    <3> QED
      BY <2>4, <2>5, <3>3, <3>4, <3>5, OthersStay DEF SchemaInv
  <2>7. CASE from = "altering"
    <3>1. /\ name \in lacking /\ name \in Columns /\ Models \subseteq tables
          /\ tables' = tables /\ lacking' = lacking \ {name}
      BY <1>2, <1>t, <2>1, <2>2, <2>7, Names DEF LegacyInv
    <3>2. ~Current
      BY <3>1 DEF Current
    <3>3. DatabaseInv'
      BY <2>1, <2>2, <3>1, <3>2 DEF DatabaseInv, Migrated, Current
    <3>4. LegacyInv(p)' /\ UpgradeInv(p)' /\ ~InBaseline(p)'
      <4>1. rest \subseteq Columns /\ lacking' \subseteq rest
        BY <2>1, <2>7, <3>1 DEF LegacyInv, rest
      <4>2. "users" \in tables' /\ Models \subseteq tables'
        BY <2>1, <3>1 DEF LegacyInv
      <4> QED
        BY <2>3, <2>7, <4>1, <4>2 DEF LegacyInv, UpgradeInv, InBaseline, InLegacy, InLater, Upgraded, At
    <3>5. ASSUME NEW q \in Processes \ {p} PROVE LegacyInv(q)' /\ UpgradeInv(q)'
      <4>1. LegacyInv(q) /\ UpgradeInv(q)
        BY DEF SchemaInv
      <4>2. LegacyInv(q)'
        BY <2>2, <2>4, <3>1, <4>1, OthersStay DEF LegacyInv
      <4>3. UpgradeInv(q)'
        BY <2>2, <2>4, <2>5, <3>1, <3>2, <4>1, OthersStay DEF UpgradeInv, Migrated
      <4> QED
        BY <4>2, <4>3
    <3> QED
      BY <2>4, <2>5, <3>3, <3>4, <3>5, OthersStay DEF SchemaInv
  <2> QED
    BY <2>1, <2>6, <2>7
<1> QED
  BY <1>1, <1>2

LEMMA EnsureVersionKeepsSchema ==
    ASSUME TypeInv, SchemaInv, NEW p \in Processes, EnsureVersion(p)
    PROVE  SchemaInv'
<1>1. /\ At(p, "stamping") \/ At(p, "versioning")
      /\ version = "none" /\ version' = "empty" /\ UNCHANGED <<tables, lacking, proc>>
      /\ DatabaseInv /\ LegacyInv(p) /\ UpgradeInv(p)
  BY DEF EnsureVersion, SchemaInv
<1>2. tables = {} \/ Models \subseteq tables
  BY <1>1 DEF LegacyInv, UpgradeInv
<1>3. DatabaseInv'
  BY <1>1, <1>2, Names DEF DatabaseInv, Migrated
<1>4. ASSUME NEW q \in Processes
      PROVE LegacyInv(q)' /\ UpgradeInv(q)' /\ ~InBaseline(q)'
  <2>1. LegacyInv(q) /\ UpgradeInv(q) /\ ~InBaseline(q)
    BY <1>1 DEF SchemaInv, UpgradeInv
  <2>2. LegacyInv(q)'
    BY <1>1, <1>2, <2>1 DEF LegacyInv, InLegacy, At
  <2>3. UpgradeInv(q)' /\ ~InBaseline(q)'
    BY <1>1, <2>1 DEF UpgradeInv, InBaseline, InLater, Upgraded, Migrated, At
  <2> QED
    BY <2>2, <2>3
<1> QED
  BY <1>3, <1>4 DEF SchemaInv

LEMMA StampKeepsSchema ==
    ASSUME TypeInv, SchemaInv, NEW p \in Processes, Stamp(p)
    PROVE  SchemaInv'
<1>1. /\ At(p, "stamping") /\ version # "none" /\ version' = "0001"
      /\ UNCHANGED <<tables, lacking>> /\ Moved(p, {"versioning"})
      /\ DatabaseInv /\ LegacyInv(p) /\ InLegacy(p)
  BY GotoMoves, Orders DEF Stamp, SchemaInv, InLegacy, At
<1>2. Models \subseteq tables /\ lacking = {}
  BY <1>1 DEF LegacyInv
<1>3. DatabaseInv'
  BY <1>1, <1>2 DEF DatabaseInv, Migrated
<1>4. \A q \in Processes : ~InBaseline(q)
  BY <1>1 DEF SchemaInv, InLegacy, InBaseline, At
<1>5. LegacyInv(p)' /\ UpgradeInv(p)' /\ ~InBaseline(p)'
  BY <1>1 DEF Moved, LegacyInv, UpgradeInv, InBaseline, InLegacy, InLater, Upgraded, At
<1>6. ASSUME NEW q \in Processes \ {p} PROVE LegacyInv(q)' /\ UpgradeInv(q)'
  <2>1. LegacyInv(q) /\ UpgradeInv(q)
    BY DEF SchemaInv
  <2>2. LegacyInv(q)'
    BY <1>1, <1>2, <2>1, OthersStay DEF LegacyInv
  <2>3. UpgradeInv(q)'
    BY <1>1, <1>4, <2>1, OthersStay DEF UpgradeInv, Migrated, Current
  <2> QED
    BY <2>2, <2>3
<1> QED
  BY <1>1, <1>3, <1>4, <1>5, <1>6, OthersStay DEF SchemaInv

LEMMA CreateBaselineKeepsSchema ==
    ASSUME TypeInv, SchemaInv, NEW p \in Processes, NEW n \in 1..4, CreateBaseline(p, n)
    PROVE  SchemaInv'
<1>t. /\ proc \in [Processes -> Process] /\ tables \subseteq Revision
      /\ version \in Versions
  BY DEF TypeInv, TypeOK, Process
<1>1. CASE Baseline[n] \in tables
  <2>1. Moved(p, {"down"}) /\ UNCHANGED <<tables, lacking, version>>
    BY <1>1, FailMoves DEF CreateBaseline, database
  <2> QED
    BY <2>1, FreePlaces DEF Moved
<1>2. CASE Baseline[n] \notin tables
  <2> DEFINE name == Baseline[n]
             rest == proc[p].todo \ {name}
  <2>1. /\ At(p, "baseline") /\ name \in proc[p].todo
        /\ \A k \in 1..(n - 1) : Baseline[k] \notin proc[p].todo
        /\ tables' = tables \cup {name}
        /\ lacking' = lacking \cup (IF name = "users" THEN {"must_change_password"} ELSE {})
        /\ UNCHANGED version
        /\ proc' = [proc EXCEPT ![p].todo = rest,
                      ![p].at = IF rest = {} THEN "finishing" ELSE @]
        /\ DatabaseInv /\ UpgradeInv(p)
    BY <1>2 DEF CreateBaseline, SchemaInv
  <2>2. /\ \A q \in Processes \ {p} : proc'[q] = proc[q]
        /\ proc'[p].todo = rest /\ proc'[p].from = proc[p].from
        /\ proc'[p].at = IF rest = {} THEN "finishing" ELSE "baseline"
    BY <1>t, <2>1 DEF Process, At
  <2>3. name \in Revision /\ name \notin tables /\ rest # Revision
    BY <1>2, BaselineIsRevision
  <2>4. Baseline[1] = "app_settings" /\ (n # 1 => 1 \in 1..(n - 1))
    BY DEF Baseline
  <2> HIDE DEF name, rest
  <2>5. Moved(p, {"baseline", "finishing"})
    BY <2>2 DEF Moved
  \* The first table is created in an empty database.
  <2>6. InBaseline(p) \/ (tables = {} /\ name = "app_settings" /\ proc[p].todo = Revision)
    <3>1. SUFFICES ASSUME proc[p].todo = Revision
                   PROVE  tables = {} /\ name = "app_settings"
      BY <2>1 DEF InBaseline
    <3>2. n = 1
      BY <2>1, <2>4, <3>1, Names
    <3>3. name = "app_settings"
      BY <2>4, <3>2 DEF name
    <3> QED
      BY <2>1, <2>3, <3>3 DEF DatabaseInv, UpgradeInv
  <2>7. /\ version = "empty" /\ lacking \subseteq {"must_change_password"}
        /\ Revision \ proc[p].todo \subseteq tables
        /\ "app_settings" \in tables' \ rest
    <3>1. CASE InBaseline(p)
      BY <2>1, <3>1 DEF UpgradeInv, rest
    <3>2. CASE ~InBaseline(p)
      BY <1>t, <2>1, <2>6, <3>2, Names DEF DatabaseInv, UpgradeInv, Migrated, rest, Versions
    <3> QED
      BY <3>1, <3>2
  <2>8. \A q \in Processes \ {p} : ~InBaseline(q) /\ ~InLegacy(q)
    <3>1. CASE InBaseline(p)
      BY <3>1 DEF SchemaInv
    <3>2. CASE tables = {}
      BY <3>2 DEF SchemaInv, LegacyInv, UpgradeInv
    <3> QED
      BY <2>6, <3>1, <3>2
  <2>9. DatabaseInv'
    BY <2>1, <2>3, <2>7 DEF DatabaseInv, Migrated
  <2>10. LegacyInv(p)' /\ UpgradeInv(p)' /\ ~InLegacy(p)'
    <3>1. rest \subseteq Revision /\ Revision \ rest \subseteq tables'
      BY <2>1, <2>7 DEF UpgradeInv, rest
    <3>2. /\ lacking' \subseteq {"must_change_password"} /\ version' = "empty"
          /\ proc'[p].from = "empty"
      BY <2>1, <2>2, <2>7 DEF UpgradeInv
    <3>3. UpgradeInv(p)'
      BY <2>2, <2>7, <3>1, <3>2 DEF UpgradeInv, InBaseline, InLater, Upgraded, At
    <3> QED
      BY <2>2, <3>3 DEF LegacyInv, InLegacy, At
  <2>11. ASSUME NEW q \in Processes \ {p} PROVE LegacyInv(q)' /\ UpgradeInv(q)'
    <3>1. UpgradeInv(q) /\ ~Migrated
      BY <2>7 DEF SchemaInv, Migrated
    <3>2. LegacyInv(q)'
      BY <2>5, <2>8, OthersStay DEF LegacyInv, InLegacy, At
    <3>3. UpgradeInv(q)'
      BY <2>1, <2>5, <2>7, <2>8, <3>1, OthersStay DEF UpgradeInv, Migrated
    <3> QED
      BY <3>2, <3>3
  <2> QED
    BY <2>5, <2>8, <2>9, <2>10, <2>11, OthersStay DEF SchemaInv
<1> QED
  BY <1>1, <1>2

LEMMA FirstChangeKeepsSchema ==
    ASSUME TypeInv, SchemaInv, NEW p \in Processes, FirstChange(p)
    PROVE  SchemaInv'
<1>1. /\ proc[p].from # "empty" /\ Migrated /\ InLater(p)
      /\ DatabaseInv
  BY DEF FirstChange, SchemaInv, UpgradeInv, InLater
<1>2. /\ tables' \in {tables, tables \ {"blacklisted_hostnames"}}
      /\ lacking' \in {lacking, lacking \ {"must_change_password"}}
      /\ UNCHANGED version
      /\ Goto(p, "finishing") /\ Moved(p, {"finishing"})
  BY GotoMoves DEF FirstChange
<1>3. /\ proc'[p].from = proc[p].from /\ proc'[p].todo = proc[p].todo
  BY <1>2 DEF Goto, TypeInv, TypeOK
<1>4. /\ Models \subseteq tables' /\ lacking' \subseteq lacking
      /\ Current => tables' = tables /\ lacking' = lacking
  BY <1>1, <1>2, Names DEF DatabaseInv, Current
<1>5. DatabaseInv'
  BY <1>1, <1>2, <1>4, Names DEF DatabaseInv, Migrated, Current
<1>6. \A q \in Processes : ~InBaseline(q)
  BY <1>1 DEF SchemaInv, UpgradeInv, Migrated
<1>7. proc[p].todo = {}
  BY DEF SchemaInv, UpgradeInv, FirstChange
<1>8. LegacyInv(p)' /\ UpgradeInv(p)' /\ ~InBaseline(p)'
  BY <1>1, <1>2, <1>3, <1>7
     DEF Moved, LegacyInv, UpgradeInv, InBaseline, InLegacy, InLater, Upgraded, At, Migrated
<1>9. ASSUME NEW q \in Processes \ {p} PROVE LegacyInv(q)' /\ UpgradeInv(q)'
  <2>1. LegacyInv(q) /\ UpgradeInv(q)
    BY DEF SchemaInv
  <2>2. LegacyInv(q)'
    BY <1>1, <1>2, <1>4, <2>1, Names, OthersStay DEF LegacyInv
  <2>3. UpgradeInv(q)'
    BY <1>1, <1>2, <1>4, <1>6, <2>1, OthersStay DEF UpgradeInv, Migrated, Current
  <2> QED
    BY <2>2, <2>3
<1> QED
  BY <1>2, <1>5, <1>6, <1>8, <1>9, OthersStay DEF SchemaInv

LEMMA FinishUpgradeKeepsSchema ==
    ASSUME TypeInv, SchemaInv, NEW p \in Processes, FinishUpgrade(p)
    PROVE  SchemaInv'
<1>1. CASE version # proc[p].from
  <2>1. Moved(p, {"down"}) /\ UNCHANGED <<tables, lacking, version>>
    BY <1>1, FailMoves DEF FinishUpgrade, database
  <2> QED
    BY <2>1, FreePlaces DEF Moved
<1>2. CASE version = proc[p].from
  <2>1. /\ tables' = tables \ {"blacklisted_hostnames"}
        /\ lacking' = lacking \ {"must_change_password"}
        /\ version' = "0003" /\ Moved(p, {"seeding"})
        /\ At(p, "finishing") /\ UpgradeInv(p) /\ DatabaseInv
    BY <1>2, GotoMoves DEF FinishUpgrade, SchemaInv
  <2>2. /\ Models \subseteq tables /\ lacking \subseteq {"must_change_password"}
        /\ version # "none"
    <3>1. CASE proc[p].from = "empty"
      BY <1>2, <2>1, <3>1, Names DEF UpgradeInv, InBaseline
    <3>2. CASE proc[p].from # "empty"
      BY <2>1, <3>2 DEF UpgradeInv, InLater, DatabaseInv, Migrated
    <3> QED
      BY <3>1, <3>2
  <2>3. tables \subseteq Revision
    BY DEF TypeInv, TypeOK
  <2>4. tables' = Models /\ lacking' = {}
    BY <2>1, <2>2, <2>3, Names
  <2>5. \A q \in Processes \ {p} : ~InBaseline(q)
    <3>1. CASE proc[p].from = "empty"
      BY <2>1, <3>1 DEF SchemaInv, InBaseline
    <3>2. CASE proc[p].from # "empty"
      BY <1>2, <3>2 DEF SchemaInv, UpgradeInv
    <3> QED
      BY <3>1, <3>2
  <2>6. DatabaseInv'
    BY <2>1, <2>4, Names DEF DatabaseInv, Current
  <2>7. LegacyInv(p)' /\ UpgradeInv(p)' /\ ~InBaseline(p)'
    BY <2>1, <2>4
       DEF Moved, LegacyInv, UpgradeInv, InBaseline, InLegacy, InLater, Upgraded, At, Migrated, Current
  <2>8. ASSUME NEW q \in Processes \ {p} PROVE LegacyInv(q)' /\ UpgradeInv(q)'
    <3>1. LegacyInv(q) /\ UpgradeInv(q)
      BY DEF SchemaInv
    <3>2. LegacyInv(q)'
      BY <2>1, <2>4, <3>1, Names, OthersStay DEF LegacyInv
    <3>3. UpgradeInv(q)'
      BY <2>1, <2>2, <2>4, <2>5, <3>1, OthersStay DEF UpgradeInv, Migrated, Current
    <3> QED
      BY <3>2, <3>3
  <2> QED
    BY <2>1, <2>5, <2>6, <2>7, <2>8, OthersStay DEF SchemaInv
<1> QED
  BY <1>1, <1>2

LEMMA SchemaNext == TypeInv /\ SchemaInv /\ [Next]_vars => SchemaInv'
<1> SUFFICES ASSUME TypeInv, SchemaInv, [Next]_vars PROVE SchemaInv'
  OBVIOUS
<1>1. CASE UNCHANGED vars
  <2>1. UNCHANGED <<database, proc>>
    BY <1>1 DEF vars
  <2> QED
    BY <2>1 DEF database, SchemaInv, DatabaseInv, LegacyInv, UpgradeInv, InBaseline, InLegacy,
                InLater, Upgraded, Migrated, Current, At
<1>2. ASSUME NEW p \in Processes, Crash(p) PROVE SchemaInv'
  <2>1. Moved(p, {"down"}) /\ UNCHANGED <<tables, lacking, version>>
    BY <1>2, FailMoves DEF Crash, database
  <2> QED
    BY <2>1, FreePlaces DEF Moved
<1>3. ASSUME NEW p \in Processes, ReadKey(p) \/ OpenKey(p) \/ WriteKey(p) \/ RereadKey(p)
      PROVE SchemaInv'
  <2>1. UNCHANGED <<tables, lacking, version>>
    BY <1>3 DEF ReadKey, OpenKey, WriteKey, RereadKey, database
  <2>2. Moved(p, {"down", "opening", "writing", "rereading", "inspecting"})
    <3>1. ASSUME OpenKey(p) \/ WriteKey(p)
          PROVE  Moved(p, {"down", "opening", "writing", "rereading", "inspecting"})
      BY <3>1, GotoMoves DEF OpenKey, WriteKey, Moved
    <3>2. ASSUME ReadKey(p) \/ RereadKey(p)
          PROVE  Moved(p, {"down", "opening", "writing", "rereading", "inspecting"})
      <4>1. Down \in Process /\ proc \in [Processes -> Process]
        BY DownIsAProcess DEF TypeInv, TypeOK, Process
      <4>2. CASE ReadKey(p)
        BY <4>1, <4>2 DEF ReadKey, Moved, Process
      <4>3. CASE RereadKey(p)
        BY <4>1, <4>3 DEF RereadKey, Moved, Process
      <4> QED
        BY <3>2, <4>2, <4>3
    <3> QED
      BY <1>3, <3>1, <3>2
  <2> QED
    BY <2>1, <2>2, FreePlaces
<1>4. ASSUME NEW p \in Processes, NEW from \in {"creating", "altering"}, FindMissing(p, from)
      PROVE SchemaInv'
  BY <1>4, FindMissingKeepsSchema
<1>5. ASSUME NEW p \in Processes, NEW name \in Models \cup Columns, Execute(p, name)
      PROVE SchemaInv'
  BY <1>5, ExecuteKeepsSchema
<1>6. ASSUME NEW p \in Processes, NEW n \in 1..4, CreateBaseline(p, n)
      PROVE SchemaInv'
  BY <1>6, CreateBaselineKeepsSchema
<1>7. ASSUME NEW p \in Processes,
             \/ Inspect(p) \/ EnsureVersion(p) \/ Stamp(p) \/ Plan(p)
             \/ FirstChange(p) \/ FinishUpgrade(p)
      PROVE SchemaInv'
  BY <1>7, InspectKeepsSchema, EnsureVersionKeepsSchema, StampKeepsSchema, PlanKeepsSchema,
     FirstChangeKeepsSchema, FinishUpgradeKeepsSchema
<1>8. ASSUME NEW p \in Processes,
             \/ Seed(p) \/ InsertAdmin(p) \/ SavePassword(p)
             \/ ChangePassword(p) \/ Forget(p) \/ CommitPassword(p)
      PROVE SchemaInv'
  <2>1. Upgraded(p)
    BY <1>8 DEF Seed, InsertAdmin, SavePassword, ChangePassword, Forget, CommitPassword,
                Upgraded, At
  <2>2. UNCHANGED <<tables, lacking, version>>
    BY <1>8 DEF Seed, InsertAdmin, SavePassword, ChangePassword, Forget, CommitPassword, database
  <2>3. PICK place \in {"down", "inserting", "saving", "serving", "forgetting", "clearing", "committing"} :
          Moved(p, {place})
    BY <1>8, GotoMoves, FailMoves, Orders
       DEF Seed, InsertAdmin, SavePassword, ChangePassword, Forget, CommitPassword
  <2>4. Moved(p, {"down", "inserting", "saving", "serving", "forgetting", "clearing", "committing"})
    BY <2>3 DEF Moved
  <2> QED
    BY <2>1, <2>2, <2>4, SteadyPlaces
<1>9. ASSUME NEW p \in Processes, ResetPassword(p) \/ CreateIndexes(p) PROVE SchemaInv'
  <2>1. UNCHANGED <<tables, lacking, version, proc>>
    BY <1>9 DEF ResetPassword, CreateIndexes, database
  <2> QED
    BY <2>1 DEF SchemaInv, DatabaseInv, LegacyInv, UpgradeInv, InBaseline, InLegacy,
                InLater, Upgraded, Migrated, Current, At
<1> QED
  BY <1>1, <1>2, <1>3, <1>4, <1>5, <1>6, <1>7, <1>8, <1>9 DEF Next

\* No process serves requests while a table or a column of the models is missing,
\* or a table they no longer have is left,
\* however many start at once and wherever earlier starts have died.
THEOREM CurrentSchemaIsServed == Spec => []ServesCurrentSchema
<1>1. Spec => [](TypeInv /\ SchemaInv)
  BY TypeInit, TypeNext, SchemaInit, SchemaNext, PTL DEF Spec
<1>2. SchemaInv => ServesCurrentSchema
  BY DEF SchemaInv, UpgradeInv, Upgraded, Current, ServesCurrentSchema, Serving
<1> QED
  BY <1>1, <1>2, PTL
=============================================================================
