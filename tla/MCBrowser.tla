------------------------------- MODULE MCBrowser -------------------------------
(***************************************************************************)
(* The browser's session (TokenRefresh) and its list of assets (AssetList) *)
(* for TLC.  They share no state: a behaviour is of one of the two, and    *)
(* the other one stays as it started.                                      *)
(***************************************************************************)
EXTENDS TokenRefresh, FiniteSets

CONSTANTS
    Main,     \* the tab that makes every kind of call
    MaxCalls, \* bound: calls that are made
    Requests, MaxId, MaxActs, MaxLosses

VARIABLES focus, open, server, assets, selected, fetch, removal, bulk, adding, acts, losses

List == INSTANCE AssetList

ASSUME ListAssumption == List!AssetListAssumption

listvars == <<open, server, assets, selected, fetch, removal, bulk, adding, acts, losses>>
mcvars   == <<focus, vars, listvars>>

SelectionIsListed == List!SelectionIsListed
ListConverges     == List!ListConverges

MCInit ==
    /\ focus \in {"session", "list"}
    /\ Init /\ List!Init
    /\ focus = "session" => server = {}
    /\ focus = "list" => stored = None

Made == {m \in Tabs \X Calls : call[m[1]][m[2]].phase # "unused"}

\* Either one page makes calls of all kinds, or the pages make only reads and
\* no answer is lost.
Bounded ==
    /\ Cardinality(Made) <= MaxCalls
    /\ (\E m \in Made : m[1] # Main) => (\A m \in Made : m[2] \in Reads) /\ lost = 0

MCNext ==
    \/ /\ focus = "session" /\ Next /\ Bounded'
       /\ UNCHANGED <<focus, listvars>>
    \/ /\ focus = "list" /\ List!Next
       /\ UNCHANGED <<focus, vars>>

MCSpec == MCInit /\ [][MCNext]_mcvars /\ Fairness /\ List!Fairness
================================================================================
