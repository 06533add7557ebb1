------------------------------ MODULE CheckLedger ------------------------------
(***************************************************************************)
(* What the users of the check history rely on, without its status column, *)
(* its sessions and its threads: every asset has a ledger of check rows,   *)
(* and the newest of them is its current result.  MonitoringLedger shows   *)
(* that Monitoring implements it.                                          *)
(***************************************************************************)
EXTENDS Naturals

CONSTANTS Assets, Outcomes, MaxChecks

VARIABLES
    known,  \* the assets that exist
    rows    \* the check rows kept: an id, the asset and the outcome

Row == [id: 1..MaxChecks, asset: Assets, outcome: Outcomes]

Newest(c) == \A d \in rows : d.asset = c.asset => d.id <= c.id

Init == known = {} /\ rows = {}

\* An asset is created.
Register(a) ==
    /\ a \notin known
    /\ known' = known \cup {a}
    /\ UNCHANGED rows

\* A result is recorded for an asset that exists, after every other result.
Record(a, o) ==
    /\ a \in known
    /\ \E i \in 1..MaxChecks :
         /\ \A c \in rows : c.id < i
         /\ rows' = rows \cup {[id |-> i, asset |-> a, outcome |-> o]}
    /\ UNCHANGED known

\* Old results are forgotten, the newest of an asset never.
Forget(old) ==
    /\ \A c \in old : ~Newest(c)
    /\ rows' = rows \ old
    /\ UNCHANGED known

\* An asset is deleted with its rows, or with those the deletion knew of.
Remove(a, gone) ==
    /\ a \in known
    /\ known' = known \ {a}
    /\ \A c \in gone : c.asset = a
    /\ rows' = rows \ gone

Next ==
    \/ \E a \in Assets : Register(a)
    \/ \E a \in Assets, o \in Outcomes : Record(a, o)
    \/ \E old \in SUBSET rows : Forget(old)
    \/ \E a \in Assets : \E gone \in SUBSET rows : Remove(a, gone)

Spec == Init /\ [][Next]_<<known, rows>>
=============================================================================
