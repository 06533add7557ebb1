----------------------------- MODULE TokenRefresh -----------------------------
(***************************************************************************)
(* The session in the browser: frontend/src/services/auth/authProvider.jsx *)
(* (the 401 interceptor, its queue, setToken and the provider's effects),  *)
(* authService.jsx and the handlers that sign in, sign out and change the  *)
(* password, against the token rules of backend/app/api/routers/auth.py    *)
(* and core/security.py.                                                   *)
(*                                                                         *)
(* JavaScript runs to completion, so one callback with the promise         *)
(* continuations it releases is one action; answers of the network arrive  *)
(* between callbacks in any order.  React renders a requested state later, *)
(* and runs the effects of that render later still.  Every tab has its own *)
(* page; localStorage is shared.  One account.                             *)
(*                                                                         *)
(* Definitions named Wrong... are faulty variants of the definition that   *)
(* follows them, used only to test the properties.                         *)
(***************************************************************************)
EXTENDS Naturals

CONSTANTS
    None,        \* no token pair
    Tabs,        \* pages open in one browser
    Reads,       \* API calls of a dashboard page
    Forms,       \* bound: which of the calls with forms of their own are made
    MaxExpiries, \* bound: how often access tokens run out
    MaxRevokes,  \* bound: sign-outs and password resets from elsewhere
    MaxLost      \* bound: answers the network loses

ASSUME TokenAssumption ==
    /\ Tabs # {}
    /\ Forms \subseteq {"login", "signOut", "changePassword"}
    /\ Reads \cap {"login", "signOut", "changePassword"} = {}
    /\ {MaxExpiries, MaxRevokes, MaxLost} \subseteq Nat
    /\ None \notin [ver : Nat, epoch : Nat]

VARIABLES
    version,    \* the account's token_version
    epoch,      \* access tokens of earlier epochs have expired
    stored,     \* the pair in localStorage
    header,     \* per tab: axios' default Authorization
    requested,  \* per tab: the pair last given to setToken_ / setRefreshToken_
    rendered,   \* per tab: the pair of the last render
    effected,   \* per tab: the pair the effects last ran for
    refreshing, \* per tab: isRefreshing
    refresh,    \* per tab: the POST to /user/token/refresh/
    call,       \* per tab and call: where it is
    revokes, lost

page   == <<header, requested, rendered, effected>>
bounds == <<revokes, lost>>
vars   == <<version, epoch, stored, page, refreshing, refresh, call, bounds>>

\* login has its own axios instance, which no interceptor is attached to.
Calls == Reads \cup {"login", "signOut", "changePassword"}

\* An access and a refresh token, minted for a version and in an epoch.
Pair == [ver : Nat, epoch : Nat]

Minted(v)    == [ver |-> v, epoch |-> epoch]
Current(p)   == p # None /\ p.ver = version
ValidAccess(p) == Current(p) /\ p.epoch = epoch

\* A call waits for its answer, for a refresh it started, or in failedQueue.
Waiting == {"queued", "leading"}
Settled == {"done", "failed"}
Phases  == {"unused", "sent", "ok", "unauthorized", "error"} \cup Waiting \cup Settled

TypeOK ==
    /\ version \in Nat /\ epoch \in Nat
    /\ stored \in Pair \cup {None}
    /\ header \in [Tabs -> Pair \cup {None}]
    /\ requested \in [Tabs -> Pair \cup {None}]
    /\ rendered \in [Tabs -> Pair \cup {None}]
    /\ effected \in [Tabs -> Pair \cup {None}]
    /\ refreshing \in [Tabs -> BOOLEAN]
    /\ refresh \in [Tabs -> [phase : {"idle", "sent", "granted", "refused"},
                             pair : Pair \cup {None}]]
    /\ call \in [Tabs -> [Calls -> [phase : Phases, pair : Pair \cup {None},
                                    retry : BOOLEAN]]]
    /\ revokes \in Nat /\ lost \in Nat

\* The pages are loaded signed in or signed out: the header is set from
\* localStorage while the module loads, before anything is sent.
Init ==
    /\ version = 0 /\ epoch = 0
    /\ stored \in {None, [ver |-> 0, epoch |-> 0]}
    /\ header = [t \in Tabs |-> stored]
    /\ requested = [t \in Tabs |-> stored]
    /\ rendered = [t \in Tabs |-> stored]
    /\ effected = [t \in Tabs |-> stored]
    /\ refreshing = [t \in Tabs |-> FALSE]
    /\ refresh = [t \in Tabs |-> [phase |-> "idle", pair |-> None]]
    /\ call = [t \in Tabs |-> [c \in Calls |->
                 [phase |-> "unused", pair |-> None, retry |-> FALSE]]]
    /\ revokes = 0 /\ lost = 0

-----------------------------------------------------------------------------
(* The page. *)

WrongSetToken(t, p) ==
    /\ stored' = [access |-> p]
    /\ header' = [header EXCEPT ![t] = p]
    /\ requested' = [requested EXCEPT ![t] = p]
    /\ UNCHANGED <<rendered, effected>>

\* setToken: header and storage at once, the React state for a later render.
SetToken(t, p) ==
    /\ stored' = p
    /\ header' = [header EXCEPT ![t] = p]
    /\ requested' = [requested EXCEPT ![t] = p]
    /\ UNCHANGED <<rendered, effected>>

\* React runs the effects of one render before it renders again.
Render(t) ==
    /\ requested[t] # rendered[t]
    /\ effected[t] = rendered[t]
    /\ rendered' = [rendered EXCEPT ![t] = requested[t]]
    /\ UNCHANGED <<version, epoch, stored, header, requested, effected, refreshing,
                   refresh, call, bounds>>

\* The effects write the rendered pair, or its absence, once more.
RunEffects(t) ==
    /\ effected[t] # rendered[t]
    /\ effected' = [effected EXCEPT ![t] = rendered[t]]
    /\ header' = [header EXCEPT ![t] = rendered[t]]
    /\ stored' = rendered[t]
    /\ UNCHANGED <<version, epoch, requested, rendered, refreshing, refresh, call, bounds>>

\* The sign-in page is shown without a token, every other one with a token.
Send(t, c) ==
    /\ c \in Reads \cup Forms
    /\ call[t][c].phase = "unused"
    /\ (rendered[t] = None) <=> (c = "login")
    /\ call' = [call EXCEPT ![t][c] =
                  [phase |-> "sent", pair |-> header[t], retry |-> FALSE]]
    /\ UNCHANGED <<version, epoch, stored, page, refreshing, refresh, bounds>>

\* What the pages do with an answer: sign in, sign out whatever the server
\* said, and switch to the pair that a password change handed back.
handleLogin(t, p)  == SetToken(t, p)
handleLogout(t)    == SetToken(t, None)
handleSubmit(t, p) == SetToken(t, p)

\* The call's promise settles and the page that awaits it goes on.
Settle(t, c, how) ==
    /\ call' = [call EXCEPT ![t][c] = [phase |-> how, pair |-> None, retry |-> FALSE]]
    /\ CASE c = "signOut" -> handleLogout(t)
         [] c = "login" /\ how = "done" -> handleLogin(t, call[t][c].pair)
         [] c = "changePassword" /\ how = "done" -> handleSubmit(t, call[t][c].pair)
         [] OTHER -> UNCHANGED <<stored, page>>

\* The interceptor's early rejections.
Rejected(t, c) ==
    \/ call[t][c].phase = "error"
    \/ call[t][c].phase = "unauthorized"
         /\ (call[t][c].retry \/ c = "login" \/ stored = None)

Answer(t, c) ==
    /\ UNCHANGED <<version, epoch, bounds>>
    /\ \/ /\ call[t][c].phase = "ok"
          /\ Settle(t, c, "done")
          /\ UNCHANGED <<refreshing, refresh>>
       \/ /\ Rejected(t, c)
          /\ Settle(t, c, "failed")
          /\ UNCHANGED <<refreshing, refresh>>
       \/ /\ call[t][c].phase = "unauthorized" /\ ~Rejected(t, c)
          /\ refreshing[t]
          /\ call' = [call EXCEPT ![t][c].phase = "queued", ![t][c].pair = None]
          /\ UNCHANGED <<stored, page, refreshing, refresh>>
       \/ /\ call[t][c].phase = "unauthorized" /\ ~Rejected(t, c)
          /\ ~refreshing[t]
          /\ call' = [call EXCEPT ![t][c] =
                        [phase |-> "leading", pair |-> None, retry |-> TRUE]]
          /\ refreshing' = [refreshing EXCEPT ![t] = TRUE]
          /\ refresh' = [refresh EXCEPT ![t] = [phase |-> "sent", pair |-> stored]]
          /\ UNCHANGED <<stored, page>>

WrongRefreshGranted(t) ==
    /\ refresh[t].phase = "granted"
    /\ stored' = refresh[t].pair
    /\ header' = [header EXCEPT ![t] = refresh[t].pair]
    /\ call' = [call EXCEPT ![t] = [c \in Calls |->
                  IF call[t][c].phase \in Waiting
                  THEN [call[t][c] EXCEPT !.phase = "sent", !.pair = refresh[t].pair]
                  ELSE call[t][c]]]
    /\ refreshing' = [refreshing EXCEPT ![t] = FALSE]
    /\ refresh' = [refresh EXCEPT ![t] = [phase |-> "idle", pair |-> None]]
    /\ UNCHANGED <<version, epoch, requested, rendered, effected, bounds>>

\* The refresh is answered: the pair is kept, processQueue releases the queue
\* and every waiting call is sent again with the new access token.
RefreshGranted(t) ==
    /\ refresh[t].phase = "granted"
    /\ SetToken(t, refresh[t].pair)
    /\ call' = [call EXCEPT ![t] = [c \in Calls |->
                  IF call[t][c].phase \in Waiting
                  THEN [call[t][c] EXCEPT !.phase = "sent", !.pair = refresh[t].pair]
                  ELSE call[t][c]]]
    /\ refreshing' = [refreshing EXCEPT ![t] = FALSE]
    /\ refresh' = [refresh EXCEPT ![t] = [phase |-> "idle", pair |-> None]]
    /\ UNCHANGED <<version, epoch, bounds>>

WrongRefreshRefused(t) ==
    /\ refresh[t].phase = "refused"
    /\ SetToken(t, None)
    /\ call' = [call EXCEPT ![t] = [c \in Calls |->
                  IF call[t][c].phase \in Waiting
                  THEN [phase |-> "failed", pair |-> None, retry |-> FALSE]
                  ELSE call[t][c]]]
    /\ refresh' = [refresh EXCEPT ![t] = [phase |-> "idle", pair |-> None]]
    /\ UNCHANGED <<version, epoch, refreshing, bounds>>

WrongQueueAfterRefusal(t) ==
    /\ refresh[t].phase = "refused"
    /\ SetToken(t, None)
    /\ call' = [call EXCEPT ![t] = [c \in Calls |->
                  IF call[t][c].phase = "leading"
                  THEN [phase |-> "failed", pair |-> None, retry |-> FALSE]
                  ELSE call[t][c]]]
    /\ refreshing' = [refreshing EXCEPT ![t] = FALSE]
    /\ refresh' = [refresh EXCEPT ![t] = [phase |-> "idle", pair |-> None]]
    /\ UNCHANGED <<version, epoch, bounds>>

\* The refresh failed, for whatever reason: every waiting call is rejected
\* and the session is dropped.  (A waiting sign-out then calls
\* setToken(null, null), which changes nothing any more.)
RefreshRefused(t) ==
    /\ refresh[t].phase = "refused"
    /\ SetToken(t, None)
    /\ call' = [call EXCEPT ![t] = [c \in Calls |->
                  IF call[t][c].phase \in Waiting
                  THEN [phase |-> "failed", pair |-> None, retry |-> FALSE]
                  ELSE call[t][c]]]
    /\ refreshing' = [refreshing EXCEPT ![t] = FALSE]
    /\ refresh' = [refresh EXCEPT ![t] = [phase |-> "idle", pair |-> None]]
    /\ UNCHANGED <<version, epoch, bounds>>

-----------------------------------------------------------------------------
(* The server and the network. *)

\* get_current_user, then the handler: logout and change_password bump
\* token_version, and change_password answers with a pair of the new one.
Serve(t, c) ==
    /\ call[t][c].phase = "sent"
    /\ LET welcome == c = "login" \/ ValidAccess(call[t][c].pair)
           bump    == welcome /\ c \in {"signOut", "changePassword"}
       IN  /\ version' = IF bump THEN version + 1 ELSE version
           /\ call' = [call EXCEPT
                ![t][c].phase = IF welcome THEN "ok" ELSE "unauthorized",
                ![t][c].pair = IF welcome /\ c \in {"login", "changePassword"}
                               THEN Minted(version') ELSE None]
    /\ UNCHANGED <<epoch, stored, page, refreshing, refresh, bounds>>

WrongServeRefresh(t) ==
    /\ refresh[t].phase = "sent"
    /\ refresh' = [refresh EXCEPT ![t] =
         IF ValidAccess(refresh[t].pair)
         THEN [phase |-> "granted", pair |-> Minted(version)]
         ELSE [phase |-> "refused", pair |-> None]]
    /\ UNCHANGED <<version, epoch, stored, page, refreshing, call, bounds>>

\* refresh_token: a refresh token of the current version gives a new pair and
\* stays valid itself.
ServeRefresh(t) ==
    /\ refresh[t].phase = "sent"
    /\ refresh' = [refresh EXCEPT ![t] =
         IF Current(refresh[t].pair)
         THEN [phase |-> "granted", pair |-> Minted(version)]
         ELSE [phase |-> "refused", pair |-> None]]
    /\ UNCHANGED <<version, epoch, stored, page, refreshing, call, bounds>>

\* No answer, a timeout or an answer of another kind (400, 5xx), before or
\* after the server did its work.
LoseCall(t, c) ==
    /\ lost < MaxLost
    /\ call[t][c].phase \in {"sent", "ok", "unauthorized"}
    /\ call' = [call EXCEPT ![t][c].phase = "error", ![t][c].pair = None]
    /\ lost' = lost + 1
    /\ UNCHANGED <<version, epoch, stored, page, refreshing, refresh, revokes>>

LoseRefresh(t) ==
    /\ lost < MaxLost
    /\ refresh[t].phase \in {"sent", "granted"}
    /\ refresh' = [refresh EXCEPT ![t] = [phase |-> "refused", pair |-> None]]
    /\ lost' = lost + 1
    /\ UNCHANGED <<version, epoch, stored, page, refreshing, call, revokes>>

\* Another device signs out or changes the password.
Revoke ==
    /\ revokes < MaxRevokes
    /\ version' = version + 1
    /\ revokes' = revokes + 1
    /\ UNCHANGED <<epoch, stored, page, refreshing, refresh, call, lost>>

\* Access tokens run out.  They live for minutes, a call for seconds: no call
\* under way carries a token that expires before it is served.
Expire ==
    /\ epoch < MaxExpiries
    /\ \A t \in Tabs : /\ refresh[t].phase # "granted"
                       /\ \A c \in Calls : call[t][c].phase = "sent"
                                             => ~ValidAccess(call[t][c].pair)
    /\ epoch' = epoch + 1
    /\ UNCHANGED <<version, stored, page, refreshing, refresh, call, bounds>>

Next ==
    \/ \E t \in Tabs :
         \/ Render(t)
         \/ RunEffects(t)
         \/ RefreshGranted(t)
         \/ RefreshRefused(t)
         \/ ServeRefresh(t)
         \/ LoseRefresh(t)
         \/ \E c \in Calls : Send(t, c) \/ Answer(t, c) \/ Serve(t, c) \/ LoseCall(t, c)
    \/ Revoke
    \/ Expire

Spec == Init /\ [][Next]_vars

\* The server answers, the network delivers or fails within the time-outs of
\* the browser, and the browser renders: there is always progress somewhere.
SystemStep ==
    \E t \in Tabs :
        \/ Render(t) \/ RunEffects(t)
        \/ ServeRefresh(t) \/ RefreshGranted(t) \/ RefreshRefused(t)
        \/ \E c \in Calls : Serve(t, c) \/ Answer(t, c)

Fairness == WF_vars(SystemStep)

-----------------------------------------------------------------------------
(* Properties. *)

\* Whoever waits, waits for a refresh that is under way, which exactly one of
\* the waiting calls has started: isRefreshing and failedQueue never part.
NobodyWaitsInVain ==
    \A t \in Tabs :
        /\ refreshing[t] <=> refresh[t].phase # "idle"
        /\ \A c \in Calls : call[t][c].phase \in Waiting => refreshing[t]
        /\ refreshing[t] =>
             \E c \in Calls : /\ call[t][c].phase = "leading"
                              /\ \A d \in Calls \ {c} : call[t][d].phase # "leading"

\* As long as the account's tokens are not revoked, no answer is lost and
\* nobody signs out, expired access tokens are invisible: no read fails and no
\* page that was signed in loses its session, however many calls of however
\* many tabs find their token expired at once.
ExpiryIsInvisible ==
    (version = 0 /\ lost = 0 /\ \A t \in Tabs : call[t]["signOut"].phase = "unused")
      => \A t \in Tabs :
           /\ \A r \in Reads : call[t][r].phase # "failed"
           /\ rendered[t] # None => requested[t] # None /\ stored # None

\* Once React has caught up, the requests of a page carry the token the page
\* shows itself signed in with; while no other page has made a call, it is the
\* stored one too.
AgreeAtRest ==
    \A t \in Tabs :
        (requested[t] = rendered[t] /\ rendered[t] = effected[t])
          => /\ header[t] = requested[t]
             /\ (\A u \in Tabs \ {t}, c \in Calls : call[u][c].phase = "unused")
                  => stored = requested[t]

\* Every call a page makes is answered, whatever happens to its token: a call
\* put into failedQueue is sent again or rejected.  (The calls are finitely
\* many, and a settled one stays so.)
CallsSettle ==
    []<>(\A t \in Tabs, c \in Calls : call[t][c].phase \in {"unused"} \cup Settled)
===============================================================================
