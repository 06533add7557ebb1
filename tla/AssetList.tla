------------------------------- MODULE AssetList -------------------------------
(***************************************************************************)
(* The assets page of the browser: the list it shows and the selection its *)
(* bulk actions use, frontend/src/pages/dashboard/Assets.jsx with          *)
(* components/shared/AutoRefresh.jsx.                                      *)
(*                                                                         *)
(* A list is fetched when the page is opened, after each change, by the    *)
(* refresh button and by a timer that does not wait for the fetch before.  *)
(* So fetches overlap, each answer shows the assets of the moment it was   *)
(* given, and answers arrive in any order.  An asset is its id.            *)
(*                                                                         *)
(* Definitions named Wrong... are faulty variants of the definition that   *)
(* follows them, used only to test the properties.                         *)
(***************************************************************************)
EXTENDS Naturals, FiniteSetsExt

CONSTANTS
    Requests,  \* bound: fetches under way
    MaxId,     \* bound: the largest id
    MaxActs,   \* bound: changes that are asked for
    MaxLosses  \* bound: requests or answers that are lost

\* What the constants must be.
AssetListAssumption ==
    Requests # {} /\ MaxId \in Nat /\ MaxActs \in Nat /\ MaxLosses \in Nat

VARIABLES
    open,     \* the page is mounted, with a token
    server,   \* ids in the database
    assets,   \* ids on the page
    selected, \* selected ids
    fetch,    \* per request: where it is, and the list it brings
    removal,  \* per id: where its handleDelete is
    bulk,     \* where runBulk is, and the ids it was called with
    adding,   \* where the form, the CIDR import or the bulk import is
    acts, losses

user   == <<removal, bulk, adding>>
bounds == <<acts, losses>>
vars   == <<open, server, assets, selected, fetch, user, bounds>>

Ids == 1..MaxId

NoFetch == [phase |-> "none", list |-> {}]
NoBulk  == [phase |-> "none", delete |-> FALSE, ids |-> {}]

Init ==
    /\ open = FALSE
    /\ server \in SUBSET Ids
    /\ assets = {} /\ selected = {}
    /\ fetch = [r \in Requests |-> NoFetch]
    /\ removal = [a \in Ids |-> "none"]
    /\ bulk = NoBulk
    /\ adding = "none"
    /\ acts = 0 /\ losses = 0

-----------------------------------------------------------------------------
(* Fetching the list. *)

Act  == acts < MaxActs /\ acts' = acts + 1 /\ UNCHANGED losses
Lose == losses < MaxLosses /\ losses' = losses + 1 /\ UNCHANGED acts

refresh ==
    \E r \in Requests :
        /\ fetch[r].phase = "none"
        /\ fetch' = [fetch EXCEPT ![r].phase = "sent"]

Open ==
    /\ ~open
    /\ open' = TRUE
    /\ refresh
    /\ UNCHANGED <<server, assets, selected, user, bounds>>

\* The timer of AutoRefresh, the button, or the later refresh of a re-check.
AutoRefresh ==
    /\ open
    /\ refresh
    /\ UNCHANGED <<open, server, assets, selected, user, bounds>>

ServeFetch(r) ==
    /\ fetch[r].phase = "sent"
    /\ fetch' = [fetch EXCEPT ![r] = [phase |-> "answered", list |-> server]]
    /\ UNCHANGED <<open, server, assets, selected, user, bounds>>

\* What is on the page stays.
WrongFetched(r) ==
    /\ fetch[r].phase = "answered"
    /\ fetch' = [fetch EXCEPT ![r] = NoFetch]
    /\ assets' = assets \cup fetch[r].list
    /\ selected' = selected \cap fetch[r].list
    /\ UNCHANGED <<open, server, user, bounds>>

\* The selection is left alone.
WrongKeepSelected(r) ==
    /\ fetch[r].phase = "answered"
    /\ fetch' = [fetch EXCEPT ![r] = NoFetch]
    /\ assets' = fetch[r].list
    /\ UNCHANGED <<open, server, selected, user, bounds>>

\* fetchAssets goes on.
Fetched(r) ==
    /\ fetch[r].phase = "answered"
    /\ fetch' = [fetch EXCEPT ![r] = NoFetch]
    /\ assets' = fetch[r].list
    /\ selected' = selected \cap fetch[r].list
    /\ UNCHANGED <<open, server, user, bounds>>

\* The page shows an error in the place of the list, which it keeps.
FetchFailed(r) ==
    /\ fetch[r].phase \in {"sent", "answered"}
    /\ fetch' = [fetch EXCEPT ![r] = NoFetch]
    /\ Lose
    /\ UNCHANGED <<open, server, assets, selected, user>>

-----------------------------------------------------------------------------
(* The user. *)

\* toggle and toggleAllShown, with the filter and the page that are set.
Toggle(shown) ==
    /\ shown \subseteq assets /\ shown # {}
    /\ selected' = IF shown \subseteq selected THEN selected \ shown ELSE selected \cup shown
    /\ UNCHANGED <<open, server, assets, fetch, user, bounds>>

handleDelete(a) ==
    /\ a \in assets /\ removal[a] = "none"
    /\ removal' = [removal EXCEPT ![a] = "sent"]
    /\ Act
    /\ UNCHANGED <<open, server, assets, selected, fetch, bulk, adding>>

\* An asset that is gone is answered with 404.
ServeDelete(a) ==
    /\ removal[a] = "sent"
    /\ removal' = [removal EXCEPT ![a] = IF a \in server THEN "deleted" ELSE "failed"]
    /\ server' = server \ {a}
    /\ UNCHANGED <<open, assets, selected, fetch, bulk, adding, bounds>>

DeleteAnswered(a) ==
    /\ removal[a] \in {"deleted", "failed"}
    /\ removal' = [removal EXCEPT ![a] = "none"]
    /\ IF removal[a] = "deleted"
       THEN assets' = assets \ {a} /\ selected' = selected \ {a}
       ELSE UNCHANGED <<assets, selected>>
    /\ UNCHANGED <<open, server, fetch, bulk, adding, bounds>>

DeleteLost(a) ==
    /\ removal[a] \in {"sent", "deleted"}
    /\ removal' = [removal EXCEPT ![a] = "failed"]
    /\ Lose
    /\ UNCHANGED <<open, server, assets, selected, fetch, bulk, adding>>

\* The ids are the ones selected now, whatever happens to the selection later.
runBulk(delete) ==
    /\ bulk.phase = "none" /\ selected # {}
    /\ bulk' = [phase |-> "sent", delete |-> delete, ids |-> selected]
    /\ Act
    /\ UNCHANGED <<open, server, assets, selected, fetch, removal, adding>>

ServeBulk ==
    /\ bulk.phase = "sent"
    /\ bulk' = [bulk EXCEPT !.phase = "done"]
    /\ server' = IF bulk.delete THEN server \ bulk.ids ELSE server
    /\ UNCHANGED <<open, assets, selected, fetch, removal, adding, bounds>>

BulkAnswered ==
    /\ bulk.phase = "done"
    /\ selected' = IF bulk.delete THEN {} ELSE selected
    /\ refresh
    /\ bulk' = NoBulk
    /\ UNCHANGED <<open, server, assets, removal, adding, bounds>>

BulkLost ==
    /\ bulk.phase \in {"sent", "done"}
    /\ bulk' = NoBulk
    /\ Lose
    /\ UNCHANGED <<open, server, assets, selected, fetch, removal, adding>>

\* handleSubmit, handleCidrImport and handleBulkImport.
handleSubmit ==
    /\ open /\ adding = "none"
    /\ adding' = "sent"
    /\ Act
    /\ UNCHANGED <<open, server, assets, selected, fetch, removal, bulk>>

\* SQLite gives a new row the id after the largest, the last one's over again.
Insert ==
    LET id == 1 + Max({0} \cup server)
    IN  id \in Ids /\ server' = server \cup {id}

\* The target may be a duplicate or over the limit.
ServeAdd ==
    /\ adding = "sent"
    /\ \/ adding' = "added" /\ Insert
       \/ adding' = "failed" /\ UNCHANGED server
    /\ UNCHANGED <<open, assets, selected, fetch, removal, bulk, bounds>>

AddAnswered ==
    /\ adding \in {"added", "failed"}
    /\ adding' = "none"
    /\ IF adding = "added" THEN refresh ELSE UNCHANGED fetch
    /\ UNCHANGED <<open, server, assets, selected, removal, bulk, bounds>>

AddLost ==
    /\ adding \in {"sent", "added"}
    /\ adding' = "failed"
    /\ Lose
    /\ UNCHANGED <<open, server, assets, selected, fetch, removal, bulk>>

\* Somebody else, on another page.
Elsewhere ==
    /\ Insert \/ \E a \in server : server' = server \ {a}
    /\ Act
    /\ UNCHANGED <<open, assets, selected, fetch, user>>

Next ==
    \/ Open \/ AutoRefresh
    \/ \E r \in Requests : ServeFetch(r) \/ Fetched(r) \/ FetchFailed(r)
    \/ \E shown \in SUBSET assets : Toggle(shown)
    \/ \E a \in Ids : handleDelete(a) \/ ServeDelete(a) \/ DeleteAnswered(a) \/ DeleteLost(a)
    \/ \E delete \in BOOLEAN : runBulk(delete)
    \/ ServeBulk \/ BulkAnswered \/ BulkLost
    \/ handleSubmit \/ ServeAdd \/ AddAnswered \/ AddLost
    \/ Elsewhere

Spec == Init /\ [][Next]_vars

\* AutoRefresh is switched on; every request is answered or fails in time.
Fairness ==
    /\ WF_vars(AutoRefresh)
    /\ \A r \in Requests : WF_vars(ServeFetch(r)) /\ WF_vars(Fetched(r))
    /\ WF_vars(ServeBulk \/ ServeAdd \/ \E a \in Ids : ServeDelete(a))
    /\ WF_vars(\E a \in Ids : DeleteAnswered(a))

-----------------------------------------------------------------------------
(* Properties. *)

\* A bulk action only hits assets that are on the page: whatever deletions,
\* imports and late answers do to the list, the selection follows it.
SelectionIsListed ==
    selected \subseteq assets

\* With AutoRefresh on, the page comes to show what the server has, however the
\* fetches overtake each other, the changes of this page and of others, and
\* answers of deletions that come after the id has been given away again.
ListConverges == <>[](open => assets = server)
================================================================================
