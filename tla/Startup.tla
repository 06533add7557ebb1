-------------------------------- MODULE Startup --------------------------------
(***************************************************************************)
(* Start-up: the signing key (load_secret_key, core/config.py), the schema *)
(* (run_migrations, db/migrate.py, with the revisions under                *)
(* db/migrations/versions) and the first administrator                     *)
(* (seed_default_admin, db/init_data.py).  Any number of processes start   *)
(* on one data directory, whatever release has left it, and each may die   *)
(* at any moment and be started again.                                     *)
(*                                                                         *)
(* On SQLite each CREATE, ALTER and DROP is committed by itself until the  *)
(* first INSERT or UPDATE opens a transaction; hence one step for each     *)
(* statement up to there, the indexes of a table counting as one, and one  *)
(* for the transaction.  An exception ends the process.                    *)
(*                                                                         *)
(* Definitions named Wrong... are faulty variants of the definition that   *)
(* follows them, used only to test the properties.                         *)
(***************************************************************************)
EXTENDS Integers

CONSTANTS
    Processes, \* processes that run the application on one data directory
    MaxStarts  \* bound: how often a process is started

\* The tables of revision 0001 in its order, each standing for those like it.
\* The models have all but one.
Baseline == <<"app_settings", "blacklisted_hostnames", "users", "hostnames">>
Revision == {Baseline[n] : n \in 1..4}
Models   == Revision \ {"blacklisted_hostnames"}

\* The tables that have indexes.
Indexed == Revision \ {"app_settings"}

\* Columns that tables of older databases lack: one that a release before
\* 1.3.0 added, standing for all of these, and the one of revision 0003.
Columns == {"check_interval_minutes", "must_change_password"}

Versions == {"none", "empty", "0001", "0002", "0003"}

\* The places of a process: out of operation, load_secret_key, run_migrations,
\* seed_default_admin, and serving requests.
Places == {"down"} \cup {"opening", "writing", "rereading"}
    \cup {"inspecting", "creating", "altering", "executing", "stamping", "versioning",
           "baseline", "dropping", "adding", "finishing"}
    \cup {"seeding", "inserting", "saving"}
    \cup {"serving", "forgetting", "clearing", "committing"}

\* The signing key is the number of the start that generated it.
NoFile == -1
Empty  == 0

\* The default administrator's account: where its password comes from, and
\* must_change_password.
Accounts ==
    [password : {"generated", "configured", "published", "chosen", "reset"}, must : BOOLEAN]
NoAccount == [password |-> "none", must |-> FALSE]

\* Where a process is, its key, the names it has yet to create, and what it
\* goes on from: the place it left, or the version it upgrades.
Down == [at |-> "down", key |-> Empty, todo |-> {}, from |-> "none"]

\* A process has no table to index.
NoTable == "none"

VARIABLES
    tables,    \* the database: its tables,
    lacking,   \* the columns its tables lack,
    version,   \* alembic_version: no table, an empty one, or its revision,
    account,   \* the default administrator,
    unindexed, \* and the tables that lack their indexes
    keyfile,   \* the file of the signing key
    pwfile,    \* initial_admin_password
    told,      \* the log has shown the generated password
    starts,    \* processes started so far
    proc,      \* per process: where it is,
    indexing   \* and the table it has created whose indexes come next

database == <<tables, lacking, version, account>>
indexes  == <<unindexed, indexing>>
vars     == <<database, indexes, keyfile, pwfile, told, starts, proc>>

IndexesOK ==
    /\ unindexed \subseteq Indexed
    /\ indexing \in [Processes -> Indexed \cup {NoTable}]

TypeOK ==
    /\ IndexesOK
    /\ tables \subseteq Revision
    /\ lacking \subseteq Columns
    /\ version \in Versions
    /\ account \in Accounts \cup {NoAccount}
    /\ keyfile \in Nat \cup {NoFile}
    /\ pwfile \in {"none", "generated"}
    /\ told \in BOOLEAN
    /\ starts \in Nat
    /\ proc \in [Processes ->
         [at : Places, key : Nat \cup {NoFile}, todo : SUBSET (Revision \cup Columns),
          from : Versions \cup {"creating", "altering"}]]

\* An empty data directory, one of a release before 1.3.0, or a later one.
Init ==
    /\ \/ tables = {} /\ lacking = {} /\ version = "none"
       \/ \E later \in SUBSET {"app_settings", "hostnames"} :
            /\ tables = later \cup {"users", "blacklisted_hostnames"}
            /\ lacking \in {{"must_change_password"}}
                 \cup (IF "hostnames" \in later THEN {Columns} ELSE {})
            /\ version = "none"
       \/ tables = Models /\ lacking = {"must_change_password"} /\ version = "0002"
       \/ tables = Models /\ lacking = {} /\ version = "0003"
    /\ account = IF tables = {} THEN NoAccount ELSE [password |-> "published", must |-> FALSE]
    /\ unindexed = {}
    /\ keyfile = NoFile
    /\ pwfile = "none"
    /\ told = FALSE
    /\ starts = 0
    /\ proc = [p \in Processes |-> Down]
    /\ indexing = [p \in Processes |-> NoTable]

At(p, place) == proc[p].at = place

Goto(p, place) == proc' = [proc EXCEPT ![p].at = place]

\* An exception during start-up, or the death of the process.
Fail(p) == proc' = [proc EXCEPT ![p] = Down]

Crash(p) ==
    /\ ~At(p, "down")
    /\ Fail(p)
    /\ indexing' = [indexing EXCEPT ![p] = NoTable]
    /\ UNCHANGED <<database, unindexed, keyfile, pwfile, told, starts>>

-----------------------------------------------------------------------------
(* load_secret_key. *)

\* A new key is generated when the file is missing or empty.
ReadKey(p) ==
    /\ At(p, "down") /\ starts < MaxStarts
    /\ starts' = starts + 1
    /\ proc' = [proc EXCEPT ![p] =
         IF keyfile \in {NoFile, Empty}
         THEN [Down EXCEPT !.at = "opening", !.key = starts + 1]
         ELSE [Down EXCEPT !.at = "inspecting", !.key = keyfile]]
    /\ UNCHANGED <<database, keyfile, pwfile, told, indexes>>

\* O_CREAT without O_EXCL.
WrongMayCreate == TRUE

MayCreate == keyfile = NoFile

\* A directory that cannot be written to leaves the key in memory.
OpenKey(p) ==
    /\ At(p, "opening")
    /\ \/ /\ keyfile' = IF MayCreate THEN Empty ELSE keyfile
          /\ Goto(p, IF MayCreate THEN "writing" ELSE "rereading")
       \/ UNCHANGED keyfile /\ Goto(p, "inspecting")
    /\ UNCHANGED <<database, pwfile, told, starts, indexes>>

\* A full disk leaves the file empty.
WriteKey(p) ==
    /\ At(p, "writing")
    /\ keyfile' \in {proc[p].key, keyfile}
    /\ Goto(p, "inspecting")
    /\ UNCHANGED <<database, pwfile, told, starts, indexes>>

\* "If another worker created the file first, use its key instead."
RereadKey(p) ==
    /\ At(p, "rereading")
    /\ proc' = [proc EXCEPT ![p].at = "inspecting",
                            ![p].key = IF keyfile = Empty THEN @ ELSE keyfile]
    /\ UNCHANGED <<database, keyfile, pwfile, told, starts, indexes>>

-----------------------------------------------------------------------------
(* run_migrations. *)

\* The legacy database is stamped first and brought to the baseline after.
WrongLegacyOrder ==
    [inspecting |-> "stamping", stamping |-> "creating", creating |-> "altering",
     altering |-> "versioning"]

\* Bring a database from before 1.3.0 to the baseline, then stamp it.
LegacyOrder ==
    [inspecting |-> "creating", creating |-> "altering", altering |-> "stamping",
     stamping |-> "versioning"]

IsLegacy == version = "none" /\ "users" \in tables

Inspect(p) ==
    /\ At(p, "inspecting")
    /\ Goto(p, IF IsLegacy THEN LegacyOrder["inspecting"] ELSE "versioning")
    /\ UNCHANGED <<database, keyfile, pwfile, told, starts, indexes>>

\* CREATE INDEX follows the CREATE TABLE of a table that has indexes.
IndexNext(p, table) ==
    IF table \in Indexed
    THEN /\ unindexed' = unindexed \cup {table}
         /\ indexing' = [indexing EXCEPT ![p] = table]
    ELSE UNCHANGED indexes

NothingToIndex(p) == indexing[p] = NoTable

\* The CREATE INDEX statements of a table.
CreateIndexes(p) ==
    /\ ~NothingToIndex(p)
    /\ unindexed' = unindexed \ {indexing[p]}
    /\ indexing' = [indexing EXCEPT ![p] = NoTable]
    /\ UNCHANGED <<database, keyfile, pwfile, told, starts, proc>>

\* create_all, and the loop over the columns: what is missing is read first.
Missing(place) == IF place = "creating" THEN Models \ tables ELSE lacking

FindMissing(p, place) ==
    /\ At(p, place) /\ NothingToIndex(p)
    /\ proc' = IF Missing(place) = {}
               THEN [proc EXCEPT ![p].at = LegacyOrder[place]]
               ELSE [proc EXCEPT ![p].at = "executing", ![p].from = place,
                                 ![p].todo = Missing(place)]
    /\ UNCHANGED <<database, keyfile, pwfile, told, starts, indexes>>

\* One CREATE TABLE or ADD COLUMN; it raises if another process was faster.
Execute(p, name) ==
    LET rest == proc[p].todo \ {name}
    IN  /\ At(p, "executing") /\ NothingToIndex(p) /\ name \in proc[p].todo
        /\ IF name \in tables \cup (Columns \ lacking)
           THEN Fail(p) /\ UNCHANGED <<tables, lacking, indexes>>
           ELSE /\ IndexNext(p, name)
                /\ tables' = tables \cup ({name} \ Columns)
                /\ lacking' = lacking \ {name}
                /\ proc' = [proc EXCEPT ![p].todo = rest,
                              ![p].at = IF rest = {} THEN LegacyOrder[proc[p].from] ELSE @]
        /\ UNCHANGED <<version, account, keyfile, pwfile, told, starts>>

\* alembic creates its table by itself, for stamp and for upgrade.
EnsureVersion(p) ==
    /\ At(p, "stamping") \/ At(p, "versioning")
    /\ version = "none"
    /\ version' = "empty"
    /\ UNCHANGED <<tables, lacking, account, keyfile, pwfile, told, starts, proc, indexes>>

Stamp(p) ==
    /\ At(p, "stamping") /\ version # "none"
    /\ version' = "0001"
    /\ Goto(p, LegacyOrder["stamping"])
    /\ UNCHANGED <<tables, lacking, account, keyfile, pwfile, told, starts, indexes>>

\* The revisions to run follow from the one the database is at.
UpgradeOf(revision) ==
    CASE revision = "empty" -> "baseline"
      [] revision = "0001"  -> "dropping"
      [] revision = "0002"  -> "adding"
      [] revision = "0003"  -> "seeding"

\* alembic's upgrade.
Plan(p) ==
    /\ At(p, "versioning") /\ version # "none"
    /\ proc' = [proc EXCEPT
         ![p].at = UpgradeOf(version),
         ![p].todo = IF version = "empty" THEN Revision ELSE {},
         ![p].from = version]
    /\ UNCHANGED <<database, keyfile, pwfile, told, starts, indexes>>

\* One CREATE TABLE of revision 0001, which expects none of its tables.
CreateBaseline(p, n) ==
    LET name == Baseline[n]
        rest == proc[p].todo \ {name}
    IN  /\ At(p, "baseline") /\ NothingToIndex(p)
        /\ name \in proc[p].todo /\ \A k \in 1..(n - 1) : Baseline[k] \notin proc[p].todo
        /\ IF name \in tables
           THEN Fail(p) /\ UNCHANGED <<tables, lacking, indexes>>
           ELSE /\ IndexNext(p, name)
                /\ tables' = tables \cup {name}
                /\ lacking' = lacking \cup
                     (IF name = "users" THEN {"must_change_password"} ELSE {})
                /\ proc' = [proc EXCEPT ![p].todo = rest,
                              ![p].at = IF rest = {} THEN "finishing" ELSE @]
        /\ UNCHANGED <<version, account, keyfile, pwfile, told, starts>>

\* The first statement of revision 0002, or of 0003 when it comes first.
FirstChange(p) ==
    /\ At(p, "dropping") \/ At(p, "adding")
    /\ IF At(p, "dropping")
       THEN /\ tables' = tables \ {"blacklisted_hostnames"}
            /\ unindexed' = unindexed \ {"blacklisted_hostnames"}
       ELSE UNCHANGED <<tables, unindexed>>
    /\ lacking' = IF At(p, "adding") THEN lacking \ {"must_change_password"} ELSE lacking
    /\ Goto(p, "finishing")
    /\ UNCHANGED <<version, account, indexing, keyfile, pwfile, told, starts>>

\* From the first change of alembic_version on, all is one transaction.
FinishUpgrade(p) ==
    /\ At(p, "finishing") /\ NothingToIndex(p)
    /\ IF version = proc[p].from
       THEN /\ tables' = tables \ {"blacklisted_hostnames"}
            /\ unindexed' = unindexed \ {"blacklisted_hostnames"}
            /\ lacking' = lacking \ {"must_change_password"}
            /\ version' = "0003"
            /\ Goto(p, "seeding")
       ELSE Fail(p) /\ UNCHANGED <<tables, lacking, version, unindexed>>
    /\ UNCHANGED <<account, indexing, keyfile, pwfile, told, starts>>

-----------------------------------------------------------------------------
(* seed_default_admin. *)

UsersReadable == "users" \in tables /\ "must_change_password" \notin lacking

\* An account that still has a published password has to change it.
Seed(p) ==
    /\ At(p, "seeding")
    /\ IF UsersReadable
       THEN /\ Goto(p, IF account = NoAccount THEN "inserting" ELSE "serving")
            /\ account' = IF account # NoAccount /\ account.password \in {"configured", "published"}
                          THEN [account EXCEPT !.must = TRUE] ELSE account
       ELSE Fail(p) /\ UNCHANGED account
    /\ UNCHANGED <<tables, lacking, version, keyfile, pwfile, told, starts, indexes>>

\* DEFAULT_ADMIN_PASSWORD, or a generated one.  User.username is unique.
InsertAdmin(p) ==
    /\ At(p, "inserting")
    /\ IF account = NoAccount
       THEN \E password \in {"generated", "configured"} :
              /\ account' = [password |-> password, must |-> TRUE]
              /\ Goto(p, IF password = "generated" THEN "saving" ELSE "serving")
       ELSE Fail(p) /\ UNCHANGED account
    /\ UNCHANGED <<tables, lacking, version, keyfile, pwfile, told, starts, indexes>>

\* The file may not be writable; the log shows the password in any case.
SavePassword(p) ==
    /\ At(p, "saving")
    /\ pwfile' \in {"generated", pwfile}
    /\ told' = TRUE
    /\ Goto(p, "serving")
    /\ UNCHANGED <<database, keyfile, starts, indexes>>

-----------------------------------------------------------------------------
(* What happens to that account while the application serves. *)

Known == account.password = "generated" => told

\* The account is changed before its file is removed.
WrongChangeOrder ==
    [serving |-> "clearing", clearing |-> "forgetting", forgetting |-> "serving"]

\* How an account gets rid of its password that must be changed.
ChangeOrder ==
    [serving |-> "forgetting", forgetting |-> "clearing", clearing |-> "serving"]

\* change_password, for one who knows the current password.  An account that
\* need not change it has no file.
ChangePassword(p) ==
    /\ At(p, "serving") /\ account # NoAccount /\ Known
    /\ Goto(p, IF account.must THEN ChangeOrder["serving"] ELSE "committing")
    /\ UNCHANGED <<database, keyfile, pwfile, told, starts, indexes>>

\* forget_initial_password, in a directory that is still writable.
Forget(p) ==
    /\ At(p, "forgetting")
    /\ pwfile' = "none"
    /\ Goto(p, ChangeOrder["forgetting"])
    /\ UNCHANGED <<database, keyfile, told, starts, indexes>>

\* must_change_password is cleared only if it was set when it was read.
CommitPassword(p) ==
    /\ At(p, "clearing") \/ At(p, "committing")
    /\ account' = [password |-> "chosen", must |-> account.must /\ ~At(p, "clearing")]
    /\ Goto(p, IF At(p, "clearing") THEN ChangeOrder["clearing"] ELSE "serving")
    /\ UNCHANGED <<tables, lacking, version, keyfile, pwfile, told, starts, indexes>>

\* update_user: another administrator, whom the first one has created.
ResetPassword(p) ==
    /\ At(p, "serving") /\ account # NoAccount /\ Known
    /\ account' = [account EXCEPT !.password = "reset"]
    /\ UNCHANGED <<tables, lacking, version, keyfile, pwfile, told, starts, proc, indexes>>

-----------------------------------------------------------------------------

Next == \E p \in Processes :
    \/ Crash(p)
    \/ ReadKey(p) \/ OpenKey(p) \/ WriteKey(p) \/ RereadKey(p)
    \/ Inspect(p) \/ FindMissing(p, "creating") \/ FindMissing(p, "altering")
    \/ \E name \in Models \cup Columns : Execute(p, name)
    \/ CreateIndexes(p)
    \/ EnsureVersion(p) \/ Stamp(p) \/ Plan(p)
    \/ \E n \in 1..4 : CreateBaseline(p, n)
    \/ FirstChange(p) \/ FinishUpgrade(p)
    \/ Seed(p) \/ InsertAdmin(p) \/ SavePassword(p)
    \/ ChangePassword(p) \/ Forget(p) \/ CommitPassword(p) \/ ResetPassword(p)

Spec == Init /\ [][Next]_vars

-----------------------------------------------------------------------------
(* Properties. *)

Serving(p) == proc[p].at \in {"serving", "forgetting", "clearing", "committing"}

\* Whatever release has left the database, wherever earlier starts died and
\* however starts overlap: the application serves no request while a table or a
\* column of its models is missing, or the table it no longer has is left
\* (run_migrations).  Indexes are not meant: see the next property.
ServesCurrentSchema ==
    \A p \in Processes : Serving(p) => tables = Models /\ lacking = {}

\* "Differences between the migrated database and the models; must be none"
\* (_schema_drift of test_migrations.py), for indexes.  It does not hold: a start
\* that dies between CREATE TABLE and CREATE INDEX leaves a table that every
\* later create_all skips.
ServesWithIndexes ==
    \A p \in Processes : Serving(p) => unindexed = {}

\* While initial_admin_password exists, the password in it opens the account,
\* also when a change of the password is cut short (change_password,
\* forget_initial_password).  Only another administrator's reset makes it stale.
FileOpensAccount ==
    pwfile = "generated" =>
        account # NoAccount /\ account.password \in {"generated", "reset"}

\* A signing key that has been written whole is never replaced, so the tokens
\* signed with it survive restarts and starts that overlap (load_secret_key).
KeyIsKept == [][keyfile \notin {NoFile, Empty} => keyfile' = keyfile]_keyfile
=============================================================================
