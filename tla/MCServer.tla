-------------------------------- MODULE MCServer --------------------------------
(***************************************************************************)
(* Five parts of the server for TLC, each with state of its own: WHOIS     *)
(* lookups (WhoisCache), blacklist lookups (Dnsbl), the limit on public    *)
(* checks (PublicLimit), the lock-out after failed logins (LoginLimit),    *)
(* and start-up with the files and the schema it leaves (Startup).  None   *)
(* reads what another writes: a behaviour is of one of the five, and the   *)
(* others stay as they started.                                            *)
(***************************************************************************)
EXTENDS WhoisCache

CONSTANTS
    Providers, Spamhaus, Checks, Dashboards, TooMany, TestTTL, MaxTest, TestTime,
    MaxChanges,
    Clients, Limit, CheckWindow,
    Keys, MaxFailures, LoginWindow, LockTime,
    MaxTracked, MaxWait,
    Processes, MaxStarts

VARIABLES
    focus,
    listing, mode, changed, changes, okUntil, check, test,
    requests, waiting, admitted,
    attempts, locked, login, failures,
    tables, lacking, version, account, unindexed, keyfile, pwfile, told, starts, proc,
    indexing

dnsblvars  == <<listing, mode, changed, changes, okUntil, check, test>>
publicvars == <<requests, waiting, admitted>>
loginvars  == <<attempts, locked, login, failures>>
startvars  == <<tables, lacking, version, account, unindexed, keyfile, pwfile, told,
                starts, proc, indexing>>
whoisvars  == <<cache, lookup, reply, kept>>
mcvars     == <<focus, now, whoisvars, dnsblvars, publicvars, loginvars,
                startvars>>

Blacklists == INSTANCE Dnsbl WITH TTL <- TestTTL, MaxTime <- TestTime
Public     == INSTANCE PublicLimit WITH Window <- CheckWindow
Login      == INSTANCE LoginLimit WITH Window <- LoginWindow
Start      == INSTANCE Startup

ASSUME ServerAssumption ==
    Blacklists!DnsblAssumption /\ Public!PublicLimitAssumption /\ Login!LoginLimitAssumption

ResultsAreTrue      == Blacklists!ResultsAreTrue
AtMostLimitInWindow == Public!AtMostLimitInWindow
FailuresAreBounded  == Login!FailuresAreBounded
ServesCurrentSchema == Start!ServesCurrentSchema
FileOpensAccount    == Start!FileOpensAccount
KeyIsKept           == Start!KeyIsKept

MCInit ==
    /\ focus \in {"whois", "blacklists", "public", "login", "start"}
    /\ Init /\ Blacklists!Init /\ Public!Init /\ Login!Init /\ Start!Init
    /\ mode = [p \in Providers |-> "good"] \* bound: MaxChanges of them go wrong
    /\ focus # "blacklists" => listing = {}
    /\ focus # "start" => version = "0003"

MCNext ==
    /\ UNCHANGED focus
    /\ \/ focus = "whois" /\ Next
            /\ UNCHANGED <<dnsblvars, publicvars, loginvars, startvars>>
       \/ focus = "blacklists" /\ Blacklists!Next
            /\ UNCHANGED <<whoisvars, publicvars, loginvars, startvars>>
       \/ focus = "public" /\ Public!Next
            /\ UNCHANGED <<whoisvars, dnsblvars, loginvars, startvars>>
       \/ focus = "login" /\ Login!Next
            /\ UNCHANGED <<whoisvars, dnsblvars, publicvars, startvars>>
       \/ focus = "start" /\ Start!Next
            /\ UNCHANGED <<now, whoisvars, dnsblvars, publicvars, loginvars>>

MCSpec == MCInit /\ [][MCNext]_mcvars
================================================================================
