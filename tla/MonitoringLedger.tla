--------------------------- MODULE MonitoringLedger ---------------------------
(***************************************************************************)
(* Monitoring implements CheckLedger.  The mapping drops the status column *)
(* and everything the sessions hold, so the property says: the rows marked *)
(* "current" by concurrent sessions, and kept by the pruning, are the      *)
(* newest ones; a result is recorded only for an asset that exists and     *)
(* after every other result; and a deletion takes no row of another asset. *)
(***************************************************************************)
EXTENDS Monitoring

LedgerRow(c) == [id |-> c.id, asset |-> c.asset, outcome |-> c.outcome]

Ledger == INSTANCE CheckLedger WITH
    Assets   <- Assets,
    Outcomes <- AllOutcomes,
    known    <- {a \in Assets : exists[a]},
    rows     <- {LedgerRow(c) : c \in checks}

\* The recording of results by many threads at once behaves, to whoever reads
\* the history, like a ledger written by one: record_check, prune_history and
\* delete_hostname together keep the current result of every asset its newest.
ImplementsLedger == Ledger!Spec
=============================================================================
