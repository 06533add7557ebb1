----------------------------- MODULE BrowserProofs -----------------------------
(***************************************************************************)
(* What is proved of the two parts of the browser: of TokenRefresh for any *)
(* number of tabs and calls, any number of expiries and revocations and    *)
(* any loss of answers, and of AssetList for any fetches, assets and       *)
(* changes.                                                                *)
(***************************************************************************)
EXTENDS MCBrowser, TLAPS

-----------------------------------------------------------------------------

Call    == [phase : Phases, pair : Pair \cup {None}, retry : BOOLEAN]
Request == [phase : {"idle", "sent", "granted", "refused"}, pair : Pair \cup {None}]

PageOK ==
    /\ stored \in Pair \cup {None}
    /\ header \in [Tabs -> Pair \cup {None}]
    /\ requested \in [Tabs -> Pair \cup {None}]
    /\ rendered \in [Tabs -> Pair \cup {None}]
    /\ effected \in [Tabs -> Pair \cup {None}]

LEMMA TypeParts ==
  TypeOK <=> /\ version \in Nat /\ epoch \in Nat /\ PageOK
             /\ refreshing \in [Tabs -> BOOLEAN]
             /\ refresh \in [Tabs -> Request]
             /\ call \in [Tabs -> [Calls -> Call]]
             /\ revokes \in Nat /\ lost \in Nat
  BY DEF TypeOK, PageOK, Request, Call

LEMMA TypesInit == Init => TypeOK
<1> SUFFICES ASSUME Init PROVE TypeOK
  OBVIOUS
<1>1. stored \in Pair \cup {None}
  BY DEF Init, Pair
<1>2. PageOK
  BY <1>1 DEF Init, PageOK
<1>3. [phase |-> "unused", pair |-> None, retry |-> FALSE] \in Call
  BY DEF Call, Phases
<1>4. call \in [Tabs -> [Calls -> Call]]
  BY <1>3 DEF Init
<1>5. [phase |-> "idle", pair |-> None] \in Request
  BY DEF Request
<1>6. refresh \in [Tabs -> Request]
  BY <1>5 DEF Init
<1>7. QED
  BY <1>2, <1>4, <1>6, TypeParts DEF Init

\* setToken keeps the page well formed.
LEMMA SetTokenKeeps ==
  ASSUME PageOK, NEW t \in Tabs, NEW p \in Pair \cup {None}, SetToken(t, p)
  PROVE  PageOK'
  BY DEF PageOK, SetToken

\* One call changes.
LEMMA OneCall ==
  ASSUME call \in [Tabs -> [Calls -> Call]], NEW t \in Tabs, NEW c \in Calls,
         NEW new \in Call, call' = [call EXCEPT ![t][c] = new]
  PROVE  call' \in [Tabs -> [Calls -> Call]]
  OBVIOUS

\* The calls of one tab change.
LEMMA TabCalls ==
  ASSUME call \in [Tabs -> [Calls -> Call]], NEW t \in Tabs,
         NEW new \in [Calls -> Call], call' = [call EXCEPT ![t] = new]
  PROVE  call' \in [Tabs -> [Calls -> Call]]
  OBVIOUS

\* The calls of a tab after its refresh was answered, whatever becomes of the
\* waiting ones.
LEMMA Released ==
  ASSUME call \in [Tabs -> [Calls -> Call]], NEW t \in Tabs, NEW p \in Pair \cup {None},
         NEW phase \in Phases
  PROVE  /\ [c \in Calls |->
               IF call[t][c].phase \in Waiting
               THEN [call[t][c] EXCEPT !.phase = phase, !.pair = p]
               ELSE call[t][c]] \in [Calls -> Call]
         /\ [c \in Calls |->
               IF call[t][c].phase \in Waiting
               THEN [phase |-> phase, pair |-> None, retry |-> FALSE]
               ELSE call[t][c]] \in [Calls -> Call]
<1>1. ASSUME NEW c \in Calls
      PROVE  /\ call[t][c] \in Call
             /\ [call[t][c] EXCEPT !.phase = phase, !.pair = p] \in Call
             /\ [phase |-> phase, pair |-> None, retry |-> FALSE] \in Call
  <2>1. call[t][c] \in Call
    OBVIOUS
  <2>2. QED
    BY <2>1 DEF Call
<1>2. QED
  BY <1>1

LEMMA TypesStep == TypeOK /\ [Next]_vars => TypeOK'
<1> SUFFICES ASSUME TypeOK, [Next]_vars PROVE TypeOK'
  OBVIOUS
<1>t. /\ version \in Nat /\ epoch \in Nat /\ PageOK
      /\ refreshing \in [Tabs -> BOOLEAN]
      /\ refresh \in [Tabs -> Request]
      /\ call \in [Tabs -> [Calls -> Call]]
      /\ revokes \in Nat /\ lost \in Nat
  BY TypeParts
<1>s. SUFFICES /\ version' \in Nat /\ epoch' \in Nat /\ PageOK'
               /\ refreshing' \in [Tabs -> BOOLEAN]
               /\ refresh' \in [Tabs -> Request]
               /\ call' \in [Tabs -> [Calls -> Call]]
               /\ revokes' \in Nat /\ lost' \in Nat
  BY DEF TypeOK, PageOK, Request, Call
<1>r. \A t \in Tabs : refresh[t] \in Request /\ refresh[t].pair \in Pair \cup {None}
  BY <1>t DEF Request
<1>c. \A t \in Tabs, c \in Calls : /\ call[t][c] \in Call
                                   /\ call[t][c].pair \in Pair \cup {None}
                                   /\ call[t][c].retry \in BOOLEAN
  BY <1>t DEF Call
<1>1. ASSUME NEW t \in Tabs, Render(t) \/ RunEffects(t) PROVE <1>s!1
  BY <1>1, <1>t DEF Render, RunEffects, PageOK, bounds
<1>2. ASSUME NEW t \in Tabs, NEW c \in Calls, Send(t, c) PROVE <1>s!1
  <2> DEFINE new == [phase |-> "sent", pair |-> header[t], retry |-> FALSE]
  <2>1. new \in Call
    BY <1>t DEF Call, Phases, PageOK
  <2>2. call' = [call EXCEPT ![t][c] = new]
    BY <1>2 DEF Send
  <2>3. call' \in [Tabs -> [Calls -> Call]]
    BY <1>t, <2>1, <2>2, OneCall
  <2>4. QED
    BY <1>2, <1>t, <2>3 DEF Send, page, PageOK, bounds
<1>3. ASSUME NEW t \in Tabs, NEW c \in Calls, NEW how \in {"done", "failed"}, Settle(t, c, how)
      PROVE  call' \in [Tabs -> [Calls -> Call]] /\ PageOK'
  <2> DEFINE new == [phase |-> how, pair |-> None, retry |-> FALSE]
  <2>1. new \in Call
    BY DEF Call, Phases, Settled
  <2>2. call' = [call EXCEPT ![t][c] = new]
    BY <1>3 DEF Settle
  <2>3. call' \in [Tabs -> [Calls -> Call]]
    BY <1>t, <2>1, <2>2, OneCall
  <2>4. \/ SetToken(t, None) \/ SetToken(t, call[t][c].pair) \/ UNCHANGED <<stored, page>>
    BY <1>3 DEF Settle, handleLogin, handleLogout, handleSubmit
  <2>5. PageOK'
    <3>1. CASE UNCHANGED <<stored, page>>
      BY <1>t, <3>1 DEF page, PageOK
    <3>2. CASE SetToken(t, None) \/ SetToken(t, call[t][c].pair)
      BY <1>t, <1>c, <3>2, SetTokenKeeps
    <3>3. QED
      BY <2>4, <3>1, <3>2
  <2>6. QED
    BY <2>3, <2>5
<1>4. ASSUME NEW t \in Tabs, NEW c \in Calls, Answer(t, c) PROVE <1>s!1
  <2>0. UNCHANGED <<version, epoch, revokes, lost>>
    BY <1>4 DEF Answer, bounds
  <2>1. CASE /\ Settle(t, c, "done") \/ Settle(t, c, "failed")
             /\ UNCHANGED <<refreshing, refresh>>
    BY <1>t, <1>3, <2>0, <2>1
  <2>2. CASE /\ call' = [call EXCEPT ![t][c].phase = "queued", ![t][c].pair = None]
             /\ UNCHANGED <<stored, page, refreshing, refresh>>
    <3> DEFINE new == [call[t][c] EXCEPT !.phase = "queued", !.pair = None]
    <3>1. new \in Call
      BY <1>c DEF Call, Phases, Waiting
    <3>2. call' = [call EXCEPT ![t][c] = new]
      BY <1>t, <2>2
    <3>3. call' \in [Tabs -> [Calls -> Call]]
      BY <1>t, <3>1, <3>2, OneCall
    <3>4. QED
      BY <1>t, <2>0, <2>2, <3>3 DEF page, PageOK
  <2>3. CASE /\ call' = [call EXCEPT ![t][c] =
                           [phase |-> "leading", pair |-> None, retry |-> TRUE]]
             /\ refreshing' = [refreshing EXCEPT ![t] = TRUE]
             /\ refresh' = [refresh EXCEPT ![t] = [phase |-> "sent", pair |-> stored]]
             /\ UNCHANGED <<stored, page>>
    <3> DEFINE new == [phase |-> "leading", pair |-> None, retry |-> TRUE]
    <3>1. new \in Call
      BY DEF Call, Phases, Waiting
    <3>2. call' \in [Tabs -> [Calls -> Call]]
      BY <1>t, <2>3, <3>1, OneCall
    <3>3. [phase |-> "sent", pair |-> stored] \in Request
      BY <1>t DEF Request, PageOK
    <3>4. refresh' \in [Tabs -> Request]
      BY <1>t, <2>3, <3>3
    <3>5. QED
      BY <1>t, <2>0, <2>3, <3>2, <3>4 DEF page, PageOK
  <2>4. QED
    BY <1>4, <2>1, <2>2, <2>3 DEF Answer
<1>5. ASSUME NEW t \in Tabs, RefreshGranted(t) \/ RefreshRefused(t) PROVE <1>s!1
  <2>1. PageOK'
    BY <1>5, <1>t, <1>r, SetTokenKeeps DEF RefreshGranted, RefreshRefused
  <2>2. [phase |-> "idle", pair |-> None] \in Request
    BY DEF Request
  <2>3. refresh' \in [Tabs -> Request] /\ refreshing' \in [Tabs -> BOOLEAN]
    BY <1>5, <1>t, <2>2 DEF RefreshGranted, RefreshRefused
  <2>4. call' \in [Tabs -> [Calls -> Call]]
    <3>1. "sent" \in Phases /\ "failed" \in Phases
      BY DEF Phases, Settled
    <3>2. CASE RefreshGranted(t)
      <4> DEFINE new == [c \in Calls |->
                  IF call[t][c].phase \in Waiting
                  THEN [call[t][c] EXCEPT !.phase = "sent", !.pair = refresh[t].pair]
                  ELSE call[t][c]]
      <4>1. new \in [Calls -> Call]
        <5>1. refresh[t].pair \in Pair \cup {None}
          BY <1>r
        <5>2. ASSUME NEW c \in Calls
              PROVE  /\ call[t][c] \in Call
                     /\ [call[t][c] EXCEPT !.phase = "sent", !.pair = refresh[t].pair] \in Call
          <6>1. call[t][c] \in Call
            BY <1>t
          <6>2. QED
            BY <3>1, <5>1, <6>1 DEF Call
        <5>3. QED
          BY <5>2
      <4>2. call' = [call EXCEPT ![t] = new]
        BY <3>2 DEF RefreshGranted
      <4>3. QED
        BY <1>t, <4>1, <4>2, TabCalls
    <3>3. CASE RefreshRefused(t)
      <4> DEFINE new == [c \in Calls |->
                  IF call[t][c].phase \in Waiting
                  THEN [phase |-> "failed", pair |-> None, retry |-> FALSE]
                  ELSE call[t][c]]
      <4>1. new \in [Calls -> Call]
        BY <1>t, <1>r, <3>1, Released
      <4>2. call' = [call EXCEPT ![t] = new]
        BY <3>3 DEF RefreshRefused
      <4>3. QED
        BY <1>t, <4>1, <4>2, TabCalls
    <3>4. QED
      BY <1>5, <3>2, <3>3
  <2>5. QED
    BY <1>5, <1>t, <2>1, <2>3, <2>4 DEF RefreshGranted, RefreshRefused, bounds
<1>6. ASSUME NEW t \in Tabs, NEW c \in Calls, Serve(t, c) PROVE <1>s!1
  <2>1. PICK phase \in {"ok", "unauthorized"}, p \in {Minted(version'), None} :
          /\ version' \in {version, version + 1}
          /\ call' = [call EXCEPT ![t][c].phase = phase, ![t][c].pair = p]
    BY <1>6 DEF Serve
  <2>2. version' \in Nat
    BY <1>t, <2>1
  <2>3. p \in Pair \cup {None}
    BY <1>t, <2>1, <2>2 DEF Minted, Pair
  <2> DEFINE new == [call[t][c] EXCEPT !.phase = phase, !.pair = p]
  <2>4. new \in Call
    BY <1>c, <2>3 DEF Call, Phases
  <2>5. call' = [call EXCEPT ![t][c] = new]
    BY <1>t, <2>1
  <2>6. call' \in [Tabs -> [Calls -> Call]]
    BY <1>t, <2>4, <2>5, OneCall
  <2>7. QED
    BY <1>6, <1>t, <2>2, <2>6 DEF Serve, page, PageOK, bounds
<1>7. ASSUME NEW t \in Tabs, ServeRefresh(t) PROVE <1>s!1
  <2>1. Minted(version) \in Pair
    BY <1>t DEF Minted, Pair
  <2>2. /\ [phase |-> "granted", pair |-> Minted(version)] \in Request
        /\ [phase |-> "refused", pair |-> None] \in Request
    BY <2>1 DEF Request
  <2>3. refresh' \in [Tabs -> Request]
    BY <1>7, <1>t, <2>2 DEF ServeRefresh
  <2>4. QED
    BY <1>7, <1>t, <2>3 DEF ServeRefresh, page, PageOK, bounds
<1>8. ASSUME NEW t \in Tabs, LoseRefresh(t) PROVE <1>s!1
  <2>1. [phase |-> "refused", pair |-> None] \in Request
    BY DEF Request
  <2>2. refresh' \in [Tabs -> Request]
    BY <1>8, <1>t, <2>1 DEF LoseRefresh
  <2>3. QED
    BY <1>8, <1>t, <2>2 DEF LoseRefresh, page, PageOK
<1>9. ASSUME NEW t \in Tabs, NEW c \in Calls, LoseCall(t, c) PROVE <1>s!1
  <2> DEFINE new == [call[t][c] EXCEPT !.phase = "error", !.pair = None]
  <2>1. new \in Call
    BY <1>c DEF Call, Phases
  <2>2. call' = [call EXCEPT ![t][c] = new]
    BY <1>9, <1>t DEF LoseCall
  <2>3. call' \in [Tabs -> [Calls -> Call]]
    BY <1>t, <2>1, <2>2, OneCall
  <2>4. QED
    BY <1>9, <1>t, <2>3 DEF LoseCall, page, PageOK
<1>10. CASE Revoke \/ Expire
  BY <1>10, <1>t DEF Revoke, Expire, page, PageOK, bounds
<1>11. CASE UNCHANGED vars
  BY <1>11, <1>t DEF vars, page, PageOK, bounds
<1>12. QED
  BY <1>1, <1>2, <1>4, <1>5, <1>6, <1>7, <1>8, <1>9, <1>10, <1>11 DEF Next

\* Tokens, pages, calls and refreshes are always well formed.
THEOREM TypeCorrect == Spec => []TypeOK
  BY TypesInit, TypesStep, PTL DEF Spec

-----------------------------------------------------------------------------
(* Waiting.  NobodyWaitsInVain is inductive by itself: a call starts to    *)
(* wait only behind a refresh, and a refresh ends for all waiting calls of *)
(* its page in one step.                                                   *)

\* Nobody starts or stops leading, and nobody waits who may not.
LEMMA WaitingStays ==
  ASSUME NobodyWaitsInVain, UNCHANGED refreshing,
         \A t \in Tabs : refresh'[t].phase = "idle" <=> refresh[t].phase = "idle",
         \A t \in Tabs, c \in Calls :
            /\ call'[t][c].phase = "leading" <=> call[t][c].phase = "leading"
            /\ call'[t][c].phase \in Waiting => refreshing[t]
  PROVE  NobodyWaitsInVain'
<1> SUFFICES ASSUME NEW t \in Tabs
             PROVE  /\ refreshing'[t] <=> refresh'[t].phase # "idle"
                    /\ \A c \in Calls : call'[t][c].phase \in Waiting => refreshing'[t]
                    /\ refreshing'[t] =>
                         \E c \in Calls : /\ call'[t][c].phase = "leading"
                                          /\ \A d \in Calls \ {c} : call'[t][d].phase # "leading"
  BY DEF NobodyWaitsInVain, Waiting
<1>1. refreshing'[t] <=> refresh'[t].phase # "idle"
  BY DEF NobodyWaitsInVain
<1>2. ASSUME refreshing[t]
      PROVE  \E c \in Calls : /\ call'[t][c].phase = "leading"
                              /\ \A d \in Calls \ {c} : call'[t][d].phase # "leading"
  <2>1. PICK c \in Calls : /\ call[t][c].phase = "leading"
                           /\ \A d \in Calls \ {c} : call[t][d].phase # "leading"
    BY <1>2 DEF NobodyWaitsInVain
  <2>2. QED
    BY <2>1
<1>3. QED
  BY <1>1, <1>2

\* One call goes from a state that is not waiting to another such state, or
\* into the queue of a refresh.
LEMMA OneCallMoves ==
  ASSUME TypeOK, NobodyWaitsInVain, NEW t \in Tabs, NEW c \in Calls, NEW new,
         call[t][c].phase \notin Waiting,
         call' = [call EXCEPT ![t][c] = new],
         new.phase # "leading", new.phase = "queued" => refreshing[t],
         UNCHANGED <<refreshing, refresh>>
  PROVE  NobodyWaitsInVain'
<1>1. \A u \in Tabs, d \in Calls :
         call'[u][d] = IF u = t /\ d = c THEN new ELSE call[u][d]
  BY TypeParts
<1>2. \A u \in Tabs, d \in Calls :
         /\ call'[u][d].phase = "leading" <=> call[u][d].phase = "leading"
         /\ call'[u][d].phase \in Waiting => refreshing[u]
  BY <1>1 DEF Waiting, NobodyWaitsInVain
<1>3. QED
  BY <1>2, WaitingStays

LEMMA WaitingInit == Init => NobodyWaitsInVain
  BY DEF Init, NobodyWaitsInVain, Waiting

LEMMA WaitingStep == TypeOK /\ NobodyWaitsInVain /\ [Next]_vars => NobodyWaitsInVain'
<1> SUFFICES ASSUME TypeOK, NobodyWaitsInVain, [Next]_vars PROVE NobodyWaitsInVain'
  OBVIOUS
<1>t. /\ refreshing \in [Tabs -> BOOLEAN]
      /\ refresh \in [Tabs -> Request]
      /\ call \in [Tabs -> [Calls -> Call]]
  BY TypeParts
<1>1. CASE UNCHANGED <<refreshing, refresh, call>>
  BY <1>1, WaitingStays DEF NobodyWaitsInVain
<1>2. ASSUME NEW t \in Tabs, NEW c \in Calls, Send(t, c) PROVE NobodyWaitsInVain'
  <2> DEFINE new == [phase |-> "sent", pair |-> header[t], retry |-> FALSE]
  <2>1. call' = [call EXCEPT ![t][c] = new] /\ UNCHANGED <<refreshing, refresh>>
    BY <1>2 DEF Send
  <2>2. new.phase # "leading" /\ new.phase # "queued"
    OBVIOUS
  <2>3. call[t][c].phase \notin Waiting
    BY <1>2 DEF Send, Waiting
  <2> HIDE DEF new
  <2>4. QED
    BY <2>1, <2>2, <2>3, OneCallMoves
<1>3. ASSUME NEW t \in Tabs, NEW c \in Calls, Serve(t, c) PROVE NobodyWaitsInVain'
  <2>0. PICK phase \in {"ok", "unauthorized"} :
          \E p : call' = [call EXCEPT ![t][c].phase = phase, ![t][c].pair = p]
    BY <1>3 DEF Serve
  <2>1. PICK p : call' = [call EXCEPT ![t][c].phase = phase, ![t][c].pair = p]
    BY <2>0
  <2> DEFINE new == [call[t][c] EXCEPT !.phase = phase, !.pair = p]
  <2>2. call' = [call EXCEPT ![t][c] = new]
    BY <1>t, <2>1
  <2>3. new.phase # "leading" /\ new.phase # "queued"
    BY <1>t DEF Call
  <2>4. call[t][c].phase \notin Waiting /\ UNCHANGED <<refreshing, refresh>>
    BY <1>3 DEF Serve, Waiting
  <2> HIDE DEF new
  <2>5. QED
    BY <2>2, <2>3, <2>4, OneCallMoves
<1>4. ASSUME NEW t \in Tabs, NEW c \in Calls, LoseCall(t, c) PROVE NobodyWaitsInVain'
  <2> DEFINE new == [call[t][c] EXCEPT !.phase = "error", !.pair = None]
  <2>1. call' = [call EXCEPT ![t][c] = new]
    BY <1>4, <1>t DEF LoseCall
  <2>2. new.phase # "leading" /\ new.phase # "queued"
    BY <1>t DEF Call
  <2>3. call[t][c].phase \notin Waiting /\ UNCHANGED <<refreshing, refresh>>
    BY <1>4 DEF LoseCall, Waiting
  <2> HIDE DEF new
  <2>4. QED
    BY <2>1, <2>2, <2>3, OneCallMoves
<1>5. ASSUME NEW t \in Tabs, NEW c \in Calls, Answer(t, c) PROVE NobodyWaitsInVain'
  <2>1. CASE /\ call[t][c].phase = "ok" \/ Rejected(t, c)
             /\ Settle(t, c, "done") \/ Settle(t, c, "failed")
             /\ UNCHANGED <<refreshing, refresh>>
    <3>1. PICK how \in Settled :
            call' = [call EXCEPT ![t][c] = [phase |-> how, pair |-> None, retry |-> FALSE]]
      BY <2>1 DEF Settle, Settled
    <3> DEFINE new == [phase |-> how, pair |-> None, retry |-> FALSE]
    <3>2. new.phase # "leading" /\ new.phase # "queued"
      BY DEF Settled
    <3>3. call[t][c].phase \notin Waiting
      BY <2>1 DEF Waiting, Rejected
    <3>4. call' = [call EXCEPT ![t][c] = new]
      BY <3>1
    <3> HIDE DEF new
    <3>5. QED
      BY <2>1, <3>2, <3>3, <3>4, OneCallMoves
  <2>2. CASE /\ call[t][c].phase = "unauthorized" /\ refreshing[t]
             /\ call' = [call EXCEPT ![t][c].phase = "queued", ![t][c].pair = None]
             /\ UNCHANGED <<refreshing, refresh>>
    <3> DEFINE new == [call[t][c] EXCEPT !.phase = "queued", !.pair = None]
    <3>1. call' = [call EXCEPT ![t][c] = new]
      BY <1>t, <2>2
    <3>2. new.phase = "queued"
      BY <1>t DEF Call
    <3>3. QED
      BY <2>2, <3>1, <3>2, OneCallMoves DEF Waiting
  <2>3. CASE /\ call[t][c].phase = "unauthorized" /\ ~refreshing[t]
             /\ call' = [call EXCEPT ![t][c] =
                           [phase |-> "leading", pair |-> None, retry |-> TRUE]]
             /\ refreshing' = [refreshing EXCEPT ![t] = TRUE]
             /\ refresh' = [refresh EXCEPT ![t] = [phase |-> "sent", pair |-> stored]]
    <3>1. \A u \in Tabs, d \in Calls :
            call'[u][d] = IF u = t /\ d = c
                          THEN [phase |-> "leading", pair |-> None, retry |-> TRUE]
                          ELSE call[u][d]
      BY <1>t, <2>3
    <3>2. \A d \in Calls : call[t][d].phase \notin Waiting
      BY <2>3 DEF NobodyWaitsInVain
    <3>3. refreshing'[t] /\ refresh'[t].phase = "sent"
      BY <1>t, <2>3
    <3>4. \A u \in Tabs \ {t} : refreshing'[u] = refreshing[u] /\ refresh'[u] = refresh[u]
      BY <1>t, <2>3
    <3>5. /\ call'[t][c].phase = "leading"
          /\ \A d \in Calls \ {c} : call'[t][d].phase # "leading"
      BY <3>1, <3>2 DEF Waiting
    <3>6. \A u \in Tabs \ {t}, d \in Calls : call'[u][d] = call[u][d]
      BY <3>1
    <3>7. QED
      BY <3>3, <3>4, <3>5, <3>6 DEF NobodyWaitsInVain, Waiting
  <2>4. QED
    BY <1>5, <2>1, <2>2, <2>3 DEF Answer
<1>6. ASSUME NEW t \in Tabs, RefreshGranted(t) \/ RefreshRefused(t) PROVE NobodyWaitsInVain'
  <2>1. /\ refreshing' = [refreshing EXCEPT ![t] = FALSE]
        /\ refresh' = [refresh EXCEPT ![t] = [phase |-> "idle", pair |-> None]]
    BY <1>6 DEF RefreshGranted, RefreshRefused
  <2>2. \A d \in Calls : call'[t][d].phase \notin Waiting
    <3>1. CASE RefreshGranted(t)
      <4> SUFFICES ASSUME NEW d \in Calls PROVE call'[t][d].phase \notin Waiting
        OBVIOUS
      <4>1. call'[t][d] = IF call[t][d].phase \in Waiting
                          THEN [call[t][d] EXCEPT !.phase = "sent", !.pair = refresh[t].pair]
                          ELSE call[t][d]
        BY <1>t, <3>1 DEF RefreshGranted
      <4>2. call[t][d] \in Call
        BY <1>t
      <4>3. QED
        BY <4>1, <4>2 DEF Call, Waiting
    <3>2. CASE RefreshRefused(t)
      BY <1>t, <3>2 DEF RefreshRefused, Waiting
    <3>3. QED
      BY <1>6, <3>1, <3>2
  <2>3. \A u \in Tabs \ {t}, d \in Calls : call'[u][d] = call[u][d]
    BY <1>6, <1>t DEF RefreshGranted, RefreshRefused
  <2>4. ~refreshing'[t] /\ refresh'[t].phase = "idle"
    BY <1>t, <2>1
  <2>5. \A u \in Tabs \ {t} : refreshing'[u] = refreshing[u] /\ refresh'[u] = refresh[u]
    BY <1>t, <2>1
  <2>6. QED
    BY <2>2, <2>3, <2>4, <2>5 DEF NobodyWaitsInVain, Waiting
<1>7. ASSUME NEW t \in Tabs, ServeRefresh(t) \/ LoseRefresh(t) PROVE NobodyWaitsInVain'
  <2>1. /\ refresh[t].phase # "idle" /\ UNCHANGED <<refreshing, call>>
        /\ \E new \in {[phase |-> "granted", pair |-> Minted(version)],
                       [phase |-> "refused", pair |-> None]} :
             refresh' = [refresh EXCEPT ![t] = new]
    BY <1>7 DEF ServeRefresh, LoseRefresh
  <2>2. \A u \in Tabs : refresh'[u].phase = "idle" <=> refresh[u].phase = "idle"
    BY <1>t, <2>1
  <2>3. QED
    BY <2>1, <2>2, WaitingStays DEF NobodyWaitsInVain
<1>8. QED
  <2>1. ASSUME NEW t \in Tabs, Render(t) \/ RunEffects(t) PROVE NobodyWaitsInVain'
    BY <1>1, <2>1 DEF Render, RunEffects
  <2>2. CASE Revoke \/ Expire \/ UNCHANGED vars
    BY <1>1, <2>2 DEF Revoke, Expire, vars
  <2>3. QED
    BY <1>2, <1>3, <1>4, <1>5, <1>6, <1>7, <2>1, <2>2 DEF Next

\* No call is left in failedQueue: whoever waits, waits for a refresh that is
\* under way and that exactly one of the waiting calls has started.
THEOREM WaitersAreServed == Spec => []NobodyWaitsInVain
  BY TypesInit, TypesStep, WaitingInit, WaitingStep, PTL DEF Spec

-----------------------------------------------------------------------------
(* Rest.  A page writes storage and header together, and whatever it       *)
(* writes last is what it renders; a page without calls writes nothing.    *)

Quiet(t)  == \A c \in Calls : call[t][c].phase = "unused"
AtRest(t) == requested[t] = rendered[t] /\ rendered[t] = effected[t]

RestInv ==
    \A t \in Tabs :
        /\ Quiet(t) => AtRest(t)
        /\ AtRest(t) => header[t] = requested[t]
        /\ AtRest(t) /\ (\A u \in Tabs \ {t} : Quiet(u)) => stored = requested[t]

LEMMA RestInit == Init => RestInv
  BY DEF Init, RestInv, AtRest

\* A call that was made stays made.
LEMMA MadeStaysMade ==
  ASSUME TypeOK, [Next]_vars
  PROVE  \A t \in Tabs, c \in Calls : call'[t][c].phase = "unused" => call[t][c].phase = "unused"
<1>t. /\ refresh \in [Tabs -> Request]
      /\ call \in [Tabs -> [Calls -> Call]]
  BY TypeParts
<1>0. SUFFICES ASSUME NEW u \in Tabs, NEW d \in Calls, call'[u][d].phase = "unused"
               PROVE  call[u][d].phase = "unused"
  OBVIOUS
<1>1. ASSUME NEW t \in Tabs, NEW c \in Calls,
             NEW new, new.phase # "unused", call' = [call EXCEPT ![t][c] = new]
      PROVE  call[u][d].phase = "unused"
  BY <1>0, <1>1, <1>t
<1>2. ASSUME NEW t \in Tabs, NEW c \in Calls, Send(t, c) PROVE call[u][d].phase = "unused"
  <2> DEFINE new == [phase |-> "sent", pair |-> header[t], retry |-> FALSE]
  <2>1. new.phase # "unused" /\ call' = [call EXCEPT ![t][c] = new]
    BY <1>2 DEF Send
  <2> HIDE DEF new
  <2>2. QED
    BY <1>1, <2>1
<1>3. ASSUME NEW t \in Tabs, NEW c \in Calls, Serve(t, c) \/ LoseCall(t, c)
      PROVE  call[u][d].phase = "unused"
  <2>1. PICK phase \in {"ok", "unauthorized", "error"} :
          \E p : call' = [call EXCEPT ![t][c].phase = phase, ![t][c].pair = p]
    BY <1>3 DEF Serve, LoseCall
  <2>2. PICK p : call' = [call EXCEPT ![t][c].phase = phase, ![t][c].pair = p]
    BY <2>1
  <2> DEFINE new == [call[t][c] EXCEPT !.phase = phase, !.pair = p]
  <2>3. call' = [call EXCEPT ![t][c] = new]
    BY <1>t, <2>2
  <2>4. new.phase # "unused"
    BY <1>t DEF Call
  <2> HIDE DEF new
  <2>5. QED
    BY <1>1, <2>3, <2>4
<1>4. ASSUME NEW t \in Tabs, NEW c \in Calls, Answer(t, c) PROVE call[u][d].phase = "unused"
  <2>1. PICK new : new.phase # "unused" /\ call' = [call EXCEPT ![t][c] = new]
    <3>1. CASE Settle(t, c, "done") \/ Settle(t, c, "failed")
      <4>1. PICK how \in Settled :
              call' = [call EXCEPT ![t][c] = [phase |-> how, pair |-> None, retry |-> FALSE]]
        BY <3>1 DEF Settle, Settled
      <4>2. [phase |-> how, pair |-> None, retry |-> FALSE].phase # "unused"
        BY DEF Settled
      <4>3. QED
        BY <4>1, <4>2
    <3>2. CASE call' = [call EXCEPT ![t][c].phase = "queued", ![t][c].pair = None]
      <4> DEFINE new == [call[t][c] EXCEPT !.phase = "queued", !.pair = None]
      <4>1. call' = [call EXCEPT ![t][c] = new]
        BY <1>t, <3>2
      <4>2. new.phase # "unused"
        BY <1>t DEF Call
      <4> HIDE DEF new
      <4>3. QED
        BY <4>1, <4>2
    <3>3. CASE call' = [call EXCEPT ![t][c] = [phase |-> "leading", pair |-> None, retry |-> TRUE]]
      <4>1. [phase |-> "leading", pair |-> None, retry |-> TRUE].phase # "unused"
        OBVIOUS
      <4>2. QED
        BY <3>3, <4>1
    <3>4. QED
      BY <1>4, <3>1, <3>2, <3>3 DEF Answer
  <2>2. QED
    BY <1>1, <2>1
<1>5. ASSUME NEW t \in Tabs, RefreshGranted(t) \/ RefreshRefused(t)
      PROVE  call[u][d].phase = "unused"
  <2>1. u # t => call'[u][d] = call[u][d]
    BY <1>5, <1>t DEF RefreshGranted, RefreshRefused
  <2>2. \/ call'[t][d] = call[t][d]
        \/ call'[t][d] = [call[t][d] EXCEPT !.phase = "sent", !.pair = refresh[t].pair]
        \/ call'[t][d] = [phase |-> "failed", pair |-> None, retry |-> FALSE]
    <3>1. CASE RefreshGranted(t)
      <4>1. call'[t][d] = IF call[t][d].phase \in Waiting
                          THEN [call[t][d] EXCEPT !.phase = "sent", !.pair = refresh[t].pair]
                          ELSE call[t][d]
        BY <1>t, <3>1 DEF RefreshGranted
      <4>2. QED
        BY <4>1
    <3>2. CASE RefreshRefused(t)
      <4>1. call'[t][d] = IF call[t][d].phase \in Waiting
                          THEN [phase |-> "failed", pair |-> None, retry |-> FALSE]
                          ELSE call[t][d]
        BY <1>t, <3>2 DEF RefreshRefused
      <4>2. QED
        BY <4>1
    <3>3. QED
      BY <1>5, <3>1, <3>2
  <2>3. CASE u = t
    <3>1. call'[t][d].phase = "unused"
      BY <1>0, <2>3
    <3>2. [call[t][d] EXCEPT !.phase = "sent", !.pair = refresh[t].pair].phase = "sent"
      BY <1>t DEF Call
    <3>3. [phase |-> "failed", pair |-> None, retry |-> FALSE].phase = "failed"
      OBVIOUS
    <3>4. call'[t][d] = call[t][d]
      <4> DEFINE sent   == [call[t][d] EXCEPT !.phase = "sent", !.pair = refresh[t].pair]
                 failed == [phase |-> "failed", pair |-> None, retry |-> FALSE]
      <4>1. call'[t][d] = call[t][d] \/ call'[t][d] = sent \/ call'[t][d] = failed
        BY <2>2
      <4>2. sent.phase # "unused" /\ failed.phase # "unused"
        BY <3>2, <3>3
      <4> HIDE DEF sent, failed
      <4>3. QED
        BY <3>1, <4>1, <4>2
    <3>5. QED
      BY <2>3, <3>1, <3>4
  <2>4. QED
    BY <1>0, <2>1, <2>3
<1>6. CASE UNCHANGED call
  BY <1>0, <1>6
<1>7. QED
  BY <1>2, <1>3, <1>4, <1>5, <1>6
     DEF Next, Render, RunEffects, ServeRefresh, LoseRefresh, Revoke, Expire, vars

\* Who calls setToken has made a call.
LEMMA WritersHaveCalls ==
  ASSUME TypeOK, NobodyWaitsInVain, [Next]_vars
  PROVE  \/ UNCHANGED <<stored, page>>
         \/ \E t \in Tabs : Render(t) \/ RunEffects(t)
         \/ \E t \in Tabs : \E p : SetToken(t, p) /\ ~Quiet(t)
<1>1. ASSUME NEW t \in Tabs, RefreshGranted(t) \/ RefreshRefused(t)
      PROVE  \E p : SetToken(t, p) /\ ~Quiet(t)
  <2>1. refresh[t].phase # "idle"
    BY <1>1 DEF RefreshGranted, RefreshRefused
  <2>2. \E c \in Calls : call[t][c].phase = "leading"
    BY <2>1 DEF NobodyWaitsInVain
  <2>3. QED
    BY <1>1, <2>2 DEF RefreshGranted, RefreshRefused, Quiet
<1>2. ASSUME NEW t \in Tabs, NEW c \in Calls, Answer(t, c)
      PROVE  UNCHANGED <<stored, page>> \/ \E p : SetToken(t, p) /\ ~Quiet(t)
  <2>1. ~Quiet(t)
    BY <1>2 DEF Answer, Rejected, Quiet
  <2>2. ASSUME NEW how, Settle(t, c, how)
        PROVE  UNCHANGED <<stored, page>> \/ \E p : SetToken(t, p)
    BY <2>2 DEF Settle, handleLogout, handleLogin, handleSubmit
  <2>3. QED
    BY <1>2, <2>1, <2>2 DEF Answer
<1>3. ASSUME NEW t \in Tabs, NEW c \in Calls, Send(t, c) \/ Serve(t, c) \/ LoseCall(t, c)
      PROVE  UNCHANGED <<stored, page>>
  BY <1>3 DEF Send, Serve, LoseCall
<1>4. ASSUME NEW t \in Tabs, ServeRefresh(t) \/ LoseRefresh(t) PROVE UNCHANGED <<stored, page>>
  BY <1>4 DEF ServeRefresh, LoseRefresh
<1>5. QED
  BY <1>1, <1>2, <1>3, <1>4 DEF Next, Revoke, Expire, vars

LEMMA RestStep ==
  TypeOK /\ NobodyWaitsInVain /\ RestInv /\ [Next]_vars => RestInv'
<1> SUFFICES ASSUME TypeOK, NobodyWaitsInVain, RestInv, [Next]_vars PROVE RestInv'
  OBVIOUS
<1>t. /\ header \in [Tabs -> Pair \cup {None}] /\ requested \in [Tabs -> Pair \cup {None}]
      /\ rendered \in [Tabs -> Pair \cup {None}] /\ effected \in [Tabs -> Pair \cup {None}]
  BY DEF TypeOK
<1>q. \A t \in Tabs : Quiet(t)' => Quiet(t)
  BY MadeStaysMade DEF Quiet
<1>1. CASE UNCHANGED <<stored, page>>
  <2>1. \A t \in Tabs : AtRest(t)' <=> AtRest(t)
    BY <1>1 DEF AtRest, page
  <2>2. QED
    BY <1>1, <1>q, <2>1 DEF RestInv, page
<1>2. ASSUME NEW t \in Tabs, Render(t) PROVE RestInv'
  <2>1. ~AtRest(t) /\ ~AtRest(t)'
    BY <1>2, <1>t DEF Render, AtRest
  <2>2. \A u \in Tabs \ {t} : AtRest(u)' <=> AtRest(u)
    BY <1>2, <1>t DEF Render, AtRest
  <2>3. UNCHANGED <<header, requested, stored>>
    BY <1>2 DEF Render
  <2>4. QED
    BY <1>q, <2>1, <2>2, <2>3 DEF RestInv
<1>3. ASSUME NEW t \in Tabs, RunEffects(t) PROVE RestInv'
  <2>1. ~Quiet(t)
    BY <1>3 DEF RestInv, RunEffects, AtRest
  <2>2. AtRest(t)' => header'[t] = requested'[t] /\ stored' = requested'[t]
    BY <1>3, <1>t DEF RunEffects, AtRest
  <2>3. \A u \in Tabs \ {t} : /\ AtRest(u)' <=> AtRest(u)
                              /\ header'[u] = header[u] /\ requested'[u] = requested[u]
    BY <1>3, <1>t DEF RunEffects, AtRest
  <2>4. QED
    BY <1>q, <2>1, <2>2, <2>3 DEF RestInv
<1>4. ASSUME NEW t \in Tabs, NEW p, SetToken(t, p), ~Quiet(t) PROVE RestInv'
  <2>1. header'[t] = requested'[t] /\ stored' = requested'[t]
    BY <1>4, <1>t DEF SetToken
  <2>2. \A u \in Tabs \ {t} : /\ AtRest(u)' <=> AtRest(u)
                              /\ header'[u] = header[u] /\ requested'[u] = requested[u]
    BY <1>4, <1>t DEF SetToken, AtRest
  <2>3. QED
    BY <1>4, <1>q, <2>1, <2>2 DEF RestInv
<1>5. QED
  BY <1>1, <1>2, <1>3, <1>4, WritersHaveCalls

\* At rest the requests of a page carry the token it shows itself signed in
\* with, and it is the stored one while no other page has made a call
\* (authProvider.jsx: setToken and the two effects).
THEOREM PagesAgreeAtRest == Spec => []AgreeAtRest
<1>1. RestInv => AgreeAtRest
  BY DEF RestInv, AgreeAtRest, AtRest, Quiet
<1>2. QED
  BY <1>1, TypesInit, TypesStep, WaitingInit, WaitingStep, RestInit, RestStep, PTL DEF Spec

-----------------------------------------------------------------------------
(* Expiry.  As long as nothing is revoked, lost or signed out, every pair  *)
(* is of the only version there is; so a refresh is granted, the access    *)
(* token it brings cannot expire before the calls that waited for it are   *)
(* served, and nothing ever writes None where a pair was.                  *)

Undisturbed ==
    version = 0 /\ lost = 0 /\ \A t \in Tabs : call[t]["signOut"].phase = "unused"

Good(p) == p # None /\ p.ver = 0

PagesKeepTheirPair ==
    /\ stored # None => Good(stored)
    /\ \A t \in Tabs : /\ effected[t] # None => rendered[t] # None
                       /\ rendered[t] # None => Good(rendered[t]) /\ requested[t] # None
                       /\ requested[t] # None => Good(requested[t]) /\ stored # None

RefreshesSucceed ==
    \A t \in Tabs : /\ refresh[t].phase # "refused"
                    /\ refresh[t].phase = "sent" => Good(refresh[t].pair)
                    /\ refresh[t].phase = "granted" => ValidAccess(refresh[t].pair)

Succeeds(c, k) ==
    /\ k.phase # "error" /\ (c \in Reads => k.phase # "failed")
    /\ c # "login" /\ k.phase # "unused" => stored # None
    /\ k.retry /\ c # "login" => /\ k.phase # "unauthorized"
                                 /\ k.phase = "sent" => ValidAccess(k.pair)
    /\ k.phase = "ok" /\ c \in {"login", "changePassword"} => Good(k.pair)

CallsSucceed == \A t \in Tabs, c \in Calls : Succeeds(c, call[t][c])

SessionInv == Undisturbed => PagesKeepTheirPair /\ RefreshesSucceed /\ CallsSucceed

LEMMA SessionInit == Init => SessionInv
<1> SUFFICES ASSUME Init PROVE PagesKeepTheirPair /\ RefreshesSucceed /\ CallsSucceed
  BY DEF SessionInv
<1>1. PagesKeepTheirPair
  BY DEF Init, PagesKeepTheirPair, Good
<1>2. RefreshesSucceed
  BY DEF Init, RefreshesSucceed
<1>3. CallsSucceed
  BY DEF Init, CallsSucceed, Succeeds
<1>4. QED
  BY <1>1, <1>2, <1>3

LEMMA UndisturbedBefore == TypeOK /\ [Next]_vars /\ Undisturbed' => Undisturbed
<1> SUFFICES ASSUME TypeOK, [Next]_vars, Undisturbed' PROVE Undisturbed
  OBVIOUS
<1>1. version \in Nat /\ lost \in Nat
  BY DEF TypeOK
<1>2. ASSUME NEW t \in Tabs, NEW c \in Calls, Serve(t, c)
      PROVE  (version' = version \/ version' = version + 1) /\ lost' = lost
  BY <1>2 DEF Serve, bounds
<1>3. ASSUME NEW t \in Tabs, NEW c \in Calls, Send(t, c) \/ Answer(t, c) \/ LoseCall(t, c)
      PROVE  version' = version /\ (lost' = lost \/ lost' = lost + 1)
  BY <1>3 DEF Send, Answer, LoseCall, bounds
<1>4. ASSUME NEW t \in Tabs, \/ Render(t) \/ RunEffects(t) \/ RefreshGranted(t)
                            \/ RefreshRefused(t) \/ ServeRefresh(t) \/ LoseRefresh(t)
      PROVE  version' = version /\ (lost' = lost \/ lost' = lost + 1)
  BY <1>4 DEF Render, RunEffects, RefreshGranted, RefreshRefused, ServeRefresh, LoseRefresh,
     bounds
<1>5. CASE Revoke \/ Expire \/ UNCHANGED vars
  BY <1>1, <1>5 DEF Revoke, Expire, vars, bounds, Undisturbed
<1>6. "signOut" \in Calls /\ \A t \in Tabs : call'[t]["signOut"].phase = "unused"
  BY DEF Undisturbed, Calls
<1>7. \A t \in Tabs : call[t]["signOut"].phase = "unused"
  BY <1>6, MadeStaysMade
<1>8. QED
  BY <1>1, <1>2, <1>3, <1>4, <1>5, <1>7 DEF Next, Undisturbed

\* A page is given a pair of the current version.
LEMMA PairWritten ==
  ASSUME TypeOK, PagesKeepTheirPair, NEW t \in Tabs, NEW p, Good(p), SetToken(t, p)
  PROVE  PagesKeepTheirPair' /\ stored' # None
<1>1. requested' = [requested EXCEPT ![t] = p] /\ stored' = p
      /\ UNCHANGED <<rendered, effected>>
  BY DEF SetToken
<1>2. requested \in [Tabs -> Pair \cup {None}]
  BY DEF TypeOK
<1>3. \A u \in Tabs : requested'[u] = IF u = t THEN p ELSE requested[u]
  BY <1>1, <1>2
<1>4. QED
  BY <1>1, <1>3 DEF PagesKeepTheirPair, Good

\* One call moves, and the pair in storage stays if there is one.
LEMMA OneCallSucceeds ==
  ASSUME TypeOK, CallsSucceed, NEW t \in Tabs, NEW c \in Calls, NEW new,
         call' = [call EXCEPT ![t][c] = new], UNCHANGED <<version, epoch>>,
         stored # None => stored' # None, call'[t][c] = new => Succeeds(c, call[t][c])'
  PROVE  CallsSucceed'
<1> SUFFICES ASSUME NEW u \in Tabs, NEW d \in Calls PROVE Succeeds(d, call[u][d])'
  BY DEF CallsSucceed
<1>1. call'[u][d] = IF u = t /\ d = c THEN new ELSE call[u][d]
  BY TypeParts
<1>2. CASE u = t /\ d = c
  BY <1>1, <1>2
<1>3. CASE ~(u = t /\ d = c)
  <2>1. call'[u][d] = call[u][d] /\ Succeeds(d, call[u][d])
    BY <1>1, <1>3 DEF CallsSucceed
  <2>2. QED
    BY <2>1 DEF Succeeds, ValidAccess, Current
<1>4. QED
  BY <1>2, <1>3

LEMMA SessionStep == TypeOK /\ NobodyWaitsInVain /\ SessionInv /\ [Next]_vars => SessionInv'
<1> SUFFICES ASSUME TypeOK, NobodyWaitsInVain, SessionInv, [Next]_vars, Undisturbed'
             PROVE  PagesKeepTheirPair' /\ RefreshesSucceed' /\ CallsSucceed'
  BY DEF SessionInv
<1>0. Undisturbed /\ PagesKeepTheirPair /\ RefreshesSucceed /\ CallsSucceed
  BY UndisturbedBefore DEF SessionInv
<1>t. /\ PageOK /\ version \in Nat /\ epoch \in Nat /\ lost \in Nat
      /\ refresh \in [Tabs -> Request]
      /\ call \in [Tabs -> [Calls -> Call]]
  BY TypeParts
<1>v. version = 0 /\ version' = 0 /\ lost = 0 /\ lost' = 0
  BY <1>0 DEF Undisturbed
<1>m. \A p : p \in {Minted(version), Minted(version')} => Good(p) /\ p.epoch = epoch
  BY <1>t, <1>v, TokenAssumption DEF Minted, Good, TokenAssumption
<1>1. CASE UNCHANGED vars
  BY <1>0, <1>1 DEF vars, page, PagesKeepTheirPair, RefreshesSucceed, CallsSucceed, Succeeds,
     ValidAccess, Current, Good
<1>2. ASSUME NEW t \in Tabs, Render(t)
      PROVE  PagesKeepTheirPair' /\ RefreshesSucceed' /\ CallsSucceed'
  <2>1. \A u \in Tabs : rendered'[u] = IF u = t THEN requested[t] ELSE rendered[u]
    BY <1>2, <1>t DEF Render, PageOK
  <2>2. UNCHANGED <<version, epoch, stored, requested, effected, refresh, call>>
        /\ effected[t] = rendered[t]
    BY <1>2 DEF Render
  <2>3. PagesKeepTheirPair'
    BY <1>0, <2>1, <2>2 DEF PagesKeepTheirPair, Good
  <2>4. QED
    BY <1>0, <2>2, <2>3 DEF RefreshesSucceed, CallsSucceed, Succeeds, ValidAccess, Current, Good
<1>3. ASSUME NEW t \in Tabs, RunEffects(t)
      PROVE  PagesKeepTheirPair' /\ RefreshesSucceed' /\ CallsSucceed'
  <2>1. \A u \in Tabs : effected'[u] = IF u = t THEN rendered[t] ELSE effected[u]
    BY <1>3, <1>t DEF RunEffects, PageOK
  <2>2. /\ UNCHANGED <<version, epoch, requested, rendered, refresh, call>>
        /\ effected[t] # rendered[t] /\ stored' = rendered[t]
    BY <1>3 DEF RunEffects
  <2>3. Good(rendered[t])
    BY <1>0, <2>2 DEF PagesKeepTheirPair
  <2>4. stored' # None
    BY <2>2, <2>3 DEF Good
  <2>5. PagesKeepTheirPair'
    BY <1>0, <2>1, <2>2, <2>3, <2>4 DEF PagesKeepTheirPair, Good
  <2>6. QED
    BY <1>0, <2>2, <2>4, <2>5
       DEF RefreshesSucceed, CallsSucceed, Succeeds, ValidAccess, Current, Good
<1>4. ASSUME NEW t \in Tabs, NEW c \in Calls, Send(t, c)
      PROVE  PagesKeepTheirPair' /\ RefreshesSucceed' /\ CallsSucceed'
  <2> DEFINE new == [phase |-> "sent", pair |-> header[t], retry |-> FALSE]
  <2>1. /\ call' = [call EXCEPT ![t][c] = new] /\ UNCHANGED <<version, epoch, stored, page, refresh>>
        /\ rendered[t] = None <=> c = "login"
    BY <1>4 DEF Send
  <2>2. call'[t][c] = new => Succeeds(c, call[t][c])'
    BY <1>0, <2>1 DEF Succeeds, PagesKeepTheirPair, page
  <2> HIDE DEF new
  <2>3. CallsSucceed'
    BY <1>0, <2>1, <2>2, OneCallSucceeds
  <2>4. QED
    BY <1>0, <2>1, <2>3
       DEF page, PagesKeepTheirPair, RefreshesSucceed, ValidAccess, Current, Good
<1>5. ASSUME NEW t \in Tabs, NEW c \in Calls, Serve(t, c)
      PROVE  PagesKeepTheirPair' /\ RefreshesSucceed' /\ CallsSucceed'
  <2> DEFINE welcome == c = "login" \/ ValidAccess(call[t][c].pair)
             pair == IF welcome /\ c \in {"login", "changePassword"}
                     THEN Minted(version) ELSE None
             new == [call[t][c] EXCEPT !.phase = IF welcome THEN "ok" ELSE "unauthorized",
                                       !.pair = pair]
  <2>1. /\ call' = [call EXCEPT ![t][c] = new]
        /\ UNCHANGED <<version, epoch, stored, page, refresh>> /\ call[t][c].phase = "sent"
    <3>1. call' = [call EXCEPT ![t][c].phase = IF welcome THEN "ok" ELSE "unauthorized",
                               ![t][c].pair = pair]
      BY <1>5, <1>v DEF Serve
    <3>2. call' = [call EXCEPT ![t][c] = new]
      BY <1>t, <3>1
    <3>3. QED
      BY <1>5, <1>v, <3>2 DEF Serve
  <2>2. /\ new.phase = IF welcome THEN "ok" ELSE "unauthorized"
        /\ new.pair = pair /\ new.retry = call[t][c].retry
    BY <1>t DEF Call
  <2>3. Succeeds(c, call[t][c])
    BY <1>0 DEF CallsSucceed
  <2>4. welcome /\ c \in {"login", "changePassword"} => Good(pair)
    BY <1>m
  <2> HIDE DEF pair, new
  <2>5. call'[t][c] = new => Succeeds(c, call[t][c])'
    BY <2>1, <2>2, <2>3, <2>4 DEF Succeeds, Good
  <2>6. CallsSucceed'
    BY <1>0, <2>1, <2>5, OneCallSucceeds
  <2>7. QED
    BY <1>0, <2>1, <2>6
       DEF page, PagesKeepTheirPair, RefreshesSucceed, ValidAccess, Current, Good
<1>6. ASSUME NEW t \in Tabs, NEW c \in Calls, Answer(t, c)
      PROVE  PagesKeepTheirPair' /\ RefreshesSucceed' /\ CallsSucceed'
  <2>0. UNCHANGED <<version, epoch>> /\ Succeeds(c, call[t][c])
    BY <1>0, <1>6 DEF Answer, CallsSucceed
  <2>s. c # "signOut"
    <3>1. call[t][c].phase # "unused"
      BY <1>6 DEF Answer, Rejected
    <3>2. QED
      BY <1>0, <3>1 DEF Undisturbed
  <2>1. CASE call[t][c].phase = "ok" /\ Settle(t, c, "done") /\ UNCHANGED <<refreshing, refresh>>
    <3> DEFINE new == [phase |-> "done", pair |-> None, retry |-> FALSE]
    <3>1. call' = [call EXCEPT ![t][c] = new]
      BY <2>1 DEF Settle
    <3>2. PagesKeepTheirPair' /\ (stored # None => stored' # None)
      <4>1. CASE c \in {"login", "changePassword"}
        <5>1. SetToken(t, call[t][c].pair)
          BY <2>1, <4>1 DEF Settle, handleLogin, handleSubmit
        <5>2. Good(call[t][c].pair)
          BY <2>0, <2>1, <4>1 DEF Succeeds
        <5>3. QED
          BY <1>0, <5>1, <5>2, PairWritten
      <4>2. CASE c \notin {"login", "changePassword"}
        <5>1. UNCHANGED <<stored, page>>
          BY <2>1, <2>s, <4>2 DEF Settle
        <5>2. QED
          BY <1>0, <5>1 DEF page, PagesKeepTheirPair, Good
      <4>3. QED
        BY <4>1, <4>2
    <3>3. call'[t][c] = new => Succeeds(c, call[t][c])'
      BY <2>0, <2>1, <3>2 DEF Succeeds
    <3> HIDE DEF new
    <3>4. CallsSucceed'
      BY <1>0, <2>0, <3>1, <3>2, <3>3, OneCallSucceeds
    <3>5. QED
      BY <1>0, <2>0, <2>1, <3>2, <3>4 DEF RefreshesSucceed, ValidAccess, Current, Good
  <2>2. CASE Rejected(t, c) /\ Settle(t, c, "failed") /\ UNCHANGED <<refreshing, refresh>>
    <3> DEFINE new == [phase |-> "failed", pair |-> None, retry |-> FALSE]
    <3>1. call' = [call EXCEPT ![t][c] = new]
      BY <2>2 DEF Settle
    <3>2. UNCHANGED <<stored, page>>
      BY <2>2, <2>s DEF Settle
    <3>3. c = "login"
      BY <2>0, <2>2 DEF Rejected, Succeeds
    <3>4. call'[t][c] = new => Succeeds(c, call[t][c])'
      BY <3>3, TokenAssumption DEF Succeeds, TokenAssumption
    <3> HIDE DEF new
    <3>5. CallsSucceed'
      BY <1>0, <2>0, <3>1, <3>2, <3>4, OneCallSucceeds
    <3>6. QED
      BY <1>0, <2>0, <2>2, <3>2, <3>5
         DEF page, PagesKeepTheirPair, RefreshesSucceed, ValidAccess, Current, Good
  <2>3. CASE /\ call[t][c].phase = "unauthorized"
             /\ call' = [call EXCEPT ![t][c].phase = "queued", ![t][c].pair = None]
             /\ UNCHANGED <<stored, page, refreshing, refresh>>
    <3> DEFINE new == [call[t][c] EXCEPT !.phase = "queued", !.pair = None]
    <3>1. call' = [call EXCEPT ![t][c] = new]
      BY <1>t, <2>3
    <3>2. new.phase = "queued"
      BY <1>t DEF Call
    <3> HIDE DEF new
    <3>3. call'[t][c] = new => Succeeds(c, call[t][c])'
      BY <2>0, <2>3, <3>2 DEF Succeeds
    <3>4. CallsSucceed'
      <4>1. stored' = stored
        BY <2>3
      <4>2. QED
        BY <1>0, <2>0, <3>1, <3>3, <4>1, OneCallSucceeds
    <3>5. QED
      BY <1>0, <2>0, <2>3, <3>4
         DEF page, PagesKeepTheirPair, RefreshesSucceed, ValidAccess, Current, Good
  <2>4. CASE /\ call[t][c].phase = "unauthorized" /\ ~Rejected(t, c)
             /\ call' = [call EXCEPT ![t][c] =
                           [phase |-> "leading", pair |-> None, retry |-> TRUE]]
             /\ refresh' = [refresh EXCEPT ![t] = [phase |-> "sent", pair |-> stored]]
             /\ UNCHANGED <<stored, page>>
    <3> DEFINE new == [phase |-> "leading", pair |-> None, retry |-> TRUE]
    <3>1. stored # None
      BY <2>4 DEF Rejected
    <3>2. call'[t][c] = new => Succeeds(c, call[t][c])'
      BY <2>4, <3>1 DEF Succeeds
    <3> HIDE DEF new
    <3>3. CallsSucceed'
      BY <1>0, <2>0, <2>4, <3>2, OneCallSucceeds DEF new
    <3>4. \A u \in Tabs : refresh'[u] = IF u = t THEN [phase |-> "sent", pair |-> stored]
                                        ELSE refresh[u]
      BY <1>t, <2>4
    <3>5. RefreshesSucceed'
      BY <1>0, <2>0, <3>1, <3>4
         DEF PagesKeepTheirPair, RefreshesSucceed, ValidAccess, Current, Good
    <3>6. QED
      BY <1>0, <2>4, <3>3, <3>5 DEF page, PagesKeepTheirPair, Good
  <2>5. QED
    BY <1>6, <2>1, <2>2, <2>3, <2>4 DEF Answer
<1>7. ASSUME NEW t \in Tabs, RefreshGranted(t)
      PROVE  PagesKeepTheirPair' /\ RefreshesSucceed' /\ CallsSucceed'
  <2> DEFINE pair == refresh[t].pair
  <2>1. ValidAccess(pair)
    BY <1>0, <1>7 DEF RefreshGranted, RefreshesSucceed
  <2>2. SetToken(t, pair) /\ UNCHANGED <<version, epoch>>
    BY <1>7 DEF RefreshGranted
  <2>3. Good(pair)
    BY <1>v, <2>1 DEF ValidAccess, Current, Good
  <2>4. PagesKeepTheirPair' /\ stored' # None
    BY <1>0, <2>2, <2>3, PairWritten
  <2>5. \A u \in Tabs : refresh'[u] = IF u = t THEN [phase |-> "idle", pair |-> None]
                                      ELSE refresh[u]
    BY <1>7, <1>t DEF RefreshGranted
  <2>6. RefreshesSucceed'
    BY <1>0, <2>2, <2>5 DEF RefreshesSucceed, ValidAccess, Current, Good
  <2>7. ASSUME NEW u \in Tabs, NEW d \in Calls PROVE Succeeds(d, call[u][d])'
    <3>1. Succeeds(d, call[u][d]) /\ call[u][d] \in Call
      BY <1>0, <1>t DEF CallsSucceed
    <3>2. CASE u = t /\ call[u][d].phase \in Waiting
      <4> DEFINE new == [call[u][d] EXCEPT !.phase = "sent", !.pair = pair]
      <4>1. call'[u][d] = new
        BY <1>7, <1>t, <3>2 DEF RefreshGranted
      <4>2. new.phase = "sent" /\ new.pair = pair
        BY <3>1 DEF Call
      <4> HIDE DEF new
      <4>3. ValidAccess(call[u][d].pair)'
        BY <2>1, <2>2, <4>1, <4>2 DEF ValidAccess, Current
      <4>4. QED
        BY <2>4, <4>1, <4>2, <4>3 DEF Succeeds
    <3>3. CASE ~(u = t /\ call[u][d].phase \in Waiting)
      <4>1. call'[u][d] = call[u][d]
        BY <1>7, <1>t, <3>3 DEF RefreshGranted
      <4>2. QED
        BY <2>2, <2>4, <3>1, <4>1 DEF Succeeds, ValidAccess, Current
    <3>4. QED
      BY <3>2, <3>3
  <2>8. QED
    BY <2>4, <2>6, <2>7 DEF CallsSucceed
<1>8. ASSUME NEW t \in Tabs, ServeRefresh(t)
      PROVE  PagesKeepTheirPair' /\ RefreshesSucceed' /\ CallsSucceed'
  <2>1. Current(refresh[t].pair)
    BY <1>0, <1>8, <1>v DEF ServeRefresh, RefreshesSucceed, Current, Good
  <2>2. /\ refresh' = [refresh EXCEPT ![t] = [phase |-> "granted", pair |-> Minted(version)]]
        /\ UNCHANGED <<version, epoch, stored, page, call>>
    BY <1>8, <2>1 DEF ServeRefresh
  <2>3. \A u \in Tabs : refresh'[u] = IF u = t THEN [phase |-> "granted", pair |-> Minted(version)]
                                      ELSE refresh[u]
    BY <1>t, <2>2
  <2>4. ValidAccess(Minted(version))'
    BY <1>m, <1>v, <2>2 DEF ValidAccess, Current, Good, Minted
  <2>5. RefreshesSucceed'
    BY <1>0, <1>v, <2>2, <2>3, <2>4 DEF RefreshesSucceed, ValidAccess, Current, Good, Minted
  <2>6. QED
    BY <1>0, <2>2, <2>5
       DEF page, PagesKeepTheirPair, CallsSucceed, Succeeds, ValidAccess, Current, Good
<1>9. CASE Expire
  <2>1. /\ UNCHANGED <<version, stored, page, refresh, call>>
        /\ \A t \in Tabs : /\ refresh[t].phase # "granted"
                           /\ \A c \in Calls : call[t][c].phase = "sent"
                                                 => ~ValidAccess(call[t][c].pair)
    BY <1>9 DEF Expire
  <2>2. RefreshesSucceed'
    BY <1>0, <2>1 DEF RefreshesSucceed, Good
  <2>3. ASSUME NEW t \in Tabs, NEW c \in Calls PROVE Succeeds(c, call[t][c])'
    <3>1. Succeeds(c, call[t][c])
      BY <1>0 DEF CallsSucceed
    <3>2. ~(call[t][c].retry /\ c # "login" /\ call[t][c].phase = "sent")
      BY <2>1, <3>1 DEF Succeeds
    <3>3. QED
      BY <2>1, <3>1, <3>2 DEF Succeeds, Good
  <2>4. QED
    BY <1>0, <2>1, <2>2, <2>3 DEF page, PagesKeepTheirPair, CallsSucceed, Good
<1>10. ASSUME NEW t \in Tabs PROVE ~RefreshRefused(t) /\ ~LoseRefresh(t)
  BY <1>0, <1>v DEF RefreshesSucceed, RefreshRefused, LoseRefresh
<1>11. ASSUME NEW t \in Tabs, NEW c \in Calls PROVE ~LoseCall(t, c)
  BY <1>v DEF LoseCall
<1>12. ~Revoke
  BY <1>v DEF Revoke
<1>13. QED
  BY <1>1, <1>2, <1>3, <1>4, <1>5, <1>6, <1>7, <1>8, <1>9, <1>10, <1>11, <1>12 DEF Next

\* As long as nothing is revoked, lost or signed out, expired access tokens are
\* invisible: no read fails and no page loses its session, for any tabs and
\* calls and however often tokens expire (the 401 interceptor and processQueue).
THEOREM ExpiryStaysInvisible == Spec => []ExpiryIsInvisible
<1>1. SessionInv => ExpiryIsInvisible
  BY DEF SessionInv, ExpiryIsInvisible, Undisturbed, PagesKeepTheirPair, CallsSucceed, Succeeds,
     Calls
<1>2. QED
  BY <1>1, TypesInit, TypesStep, WaitingInit, WaitingStep, SessionInit, SessionStep, PTL DEF Spec

-----------------------------------------------------------------------------
(* The list of assets.                                                     *)

\* The selection only holds assets that are on the page, whatever deletions,
\* imports and late answers do to the list (fetchAssets, handleDelete, runBulk).
THEOREM SelectionFollowsList == List!Spec => []SelectionIsListed
<1>1. List!Init => SelectionIsListed
  BY DEF List!Init, SelectionIsListed, List!SelectionIsListed
<1>2. SelectionIsListed /\ [List!Next]_(List!vars) => SelectionIsListed'
  BY DEF SelectionIsListed, List!SelectionIsListed, List!vars, List!Next, List!Open,
     List!AutoRefresh, List!ServeFetch, List!Fetched, List!FetchFailed, List!Toggle,
     List!handleDelete, List!ServeDelete, List!DeleteAnswered, List!DeleteLost, List!runBulk,
     List!ServeBulk, List!BulkAnswered, List!BulkLost, List!handleSubmit, List!ServeAdd,
     List!AddAnswered, List!AddLost, List!Elsewhere
<1>3. QED
  BY <1>1, <1>2, PTL DEF List!Spec
===============================================================================
