--------------------------------- MODULE Dnsbl ---------------------------------
(***************************************************************************)
(* Checking an address on the DNS blacklists: check_dnsbl_providers of     *)
(* backend/app/services/dnsbl.py, called by check cycles, re-checks and    *)
(* the tools page from many threads.                                       *)
(*                                                                         *)
(* A blacklist may answer correctly or go wrong in the ways the source     *)
(* names, and change between them; the network may lose any query.  The    *)
(* lookups of a pass run in a pool and are handled one by one as they      *)
(* complete, in any order.                                                 *)
(*                                                                         *)
(* Definitions named Wrong... are faulty variants of the definition that   *)
(* follows them, used only to test the properties.                         *)
(***************************************************************************)
EXTENDS Integers, FiniteSets

CONSTANTS
    Providers,  \* BASE_PROVIDERS
    Spamhaus,   \* the provider that resolver_health asks
    Checks,     \* the threads that check the address
    Dashboards, \* the threads that ask for the health of the resolver
    TooMany,    \* so many failed providers make a check inconclusive
    TTL,        \* _TEST_POINT_TTL
    MaxTest,    \* so long after its first answer a test may take
    MaxTime,    \* bound: the clock
    MaxChanges  \* bound: how often providers change their ways

\* What the constants must be.
DnsblAssumption ==
    /\ Spamhaus \in Providers /\ IsFiniteSet(Providers)
    /\ Checks \cap Dashboards = {}
    /\ TooMany \in Nat \ {0} /\ TTL \in Nat \ {0} /\ MaxTest \in Nat
    /\ MaxTime \in Nat /\ MaxChanges \in Nat

VARIABLES
    now,     \* time.monotonic()
    listing, \* the providers that hold the address
    mode,    \* per provider: how it answers
    changed, \* per provider: when that last changed
    changes,
    okUntil, \* _test_point_ok_until
    check,   \* per thread: the local variables of check_dnsbl_providers
    test     \* per thread and provider: where _answers_test_points is

vars == <<now, listing, mode, changed, changes, okUntil, check, test>>

\* good: as RFC 5782 wants it.  silent: "not listed" whatever is asked.
\* flooding: every address is listed.  refusing: an error code for an answer.
Modes == {"good", "silent", "flooding", "refusing"}

Check == [pc : {"idle", "first", "retry", "testing"}, start : Int, todo : SUBSET Providers,
          listed : SUBSET Providers, failed : SUBSET Providers, refused : SUBSET Providers]

\* Which query is out, or both are answered; since: when the first was.
Test == [stage : {"none", "first", "second", "passed"}, since : Int]

Testers == Checks \cup Dashboards

TypeOK ==
    /\ now \in Nat
    /\ listing \subseteq Providers
    /\ mode \in [Providers -> Modes]
    /\ changed \in [Providers -> Int]
    /\ changes \in Nat
    /\ okUntil \in [Providers -> Int]
    /\ check \in [Checks -> Check]
    /\ test \in [Testers -> [Providers -> Test]]

Idle == [pc |-> "idle", start |-> 0, todo |-> {},
         listed |-> {}, failed |-> {}, refused |-> {}]

NotTesting == [stage |-> "none", since |-> 0]

\* The process has just started: nothing is known of any provider.
Init ==
    /\ now = 0
    /\ listing \in SUBSET Providers
    /\ mode \in [Providers -> Modes]
    /\ changed = [p \in Providers |-> -(TTL + MaxTest)]
    /\ changes = 0
    /\ okUntil = [p \in Providers |-> 0]
    /\ check = [c \in Checks |-> Idle]
    /\ test = [t \in Testers |-> [p \in Providers |-> NotTesting]]

-----------------------------------------------------------------------------
(* Answers. *)

Lost == "unreachable"

\* What a provider says of an address it holds, or does not hold.
Answer(p, holds) ==
    CASE mode[p] = "good"     -> IF holds THEN "listed" ELSE "clean"
      [] mode[p] = "silent"   -> "clean"
      [] mode[p] = "flooding" -> "listed"
      [] mode[p] = "refusing" -> "refused"

\* _lookup.
Lookup(p) == {Answer(p, p \in listing), Lost}

\* Whatever the second test point answers is as good.
WrongWanted(stage) == IF stage = "first" THEN {"listed"} ELSE {"clean", "listed"}

\* _answers_test_points: 127.0.0.2 is listed and 127.0.0.1 is not.
Wanted(stage) == IF stage = "first" THEN {"listed"} ELSE {"clean"}

-----------------------------------------------------------------------------
(* check_dnsbl_providers. *)

Update(c, rec) == check' = [check EXCEPT ![c] = rec]

Begin(c) ==
    /\ check[c].pc = "idle"
    /\ Update(c, [Idle EXCEPT !.pc = "first", !.start = now, !.todo = Providers])
    /\ UNCHANGED <<now, listing, mode, changed, changes, okUntil, test>>

\* _run_batch with one more result.
Handled(k, p, answer) ==
    [k EXCEPT
        !.todo = @ \ {p},
        !.listed = IF answer = "listed" THEN @ \cup {p} ELSE @,
        !.failed = CASE answer = "listed" -> @ \ {p}
                     [] answer = "clean"  -> @
                     [] OTHER             -> @ \cup {p},
        !.refused = IF answer = "refused" THEN @ \cup {p} ELSE @]

Complete(c, p) ==
    /\ check[c].pc \in {"first", "retry"} /\ p \in check[c].todo
    /\ \E answer \in Lookup(p) : Update(c, Handled(check[c], p, answer))
    /\ UNCHANGED <<now, listing, mode, changed, changes, okUntil, test>>

\* Providers that could not be reached are asked once more, those that
\* refused are not.
Retry(c) ==
    LET k == check[c]
        retry == k.failed \ k.refused
    IN  /\ k.pc = "first" /\ k.todo = {} /\ retry # {}
        /\ Update(c, [k EXCEPT !.pc = "retry", !.failed = @ \ retry, !.todo = retry])
        /\ UNCHANGED <<now, listing, mode, changed, changes, okUntil, test>>

\* The providers whose answer has to prove itself.
Tested(k) == Providers \ k.failed

BeginTests(c) ==
    LET k == check[c]
    IN  /\ k.todo = {}
        /\ k.pc = "retry" \/ (k.pc = "first" /\ k.failed \subseteq k.refused)
        /\ Update(c, [k EXCEPT !.pc = "testing", !.todo = Tested(k)])
        /\ UNCHANGED <<now, listing, mode, changed, changes, okUntil, test>>

\* A check drops what a provider said that did not pass.
Judged(k, p, healthy) ==
    [k EXCEPT !.todo   = @ \ {p},
              !.listed = IF healthy THEN @ ELSE @ \ {p},
              !.failed = IF healthy THEN @ ELSE @ \cup {p}]

\* A test is over.
Conclude(t, p, healthy) ==
    /\ test' = [test EXCEPT ![t][p] = NotTesting]
    /\ IF t \in Checks THEN Update(t, Judged(check[t], p, healthy)) ELSE UNCHANGED check

\* A check tests all it has an answer from, at once;
\* resolver_health tests one provider, from time to time: it remembers what it
\* found for a while.
MayTest(t, p) ==
    /\ test[t][p].stage = "none"
    /\ IF t \in Checks THEN check[t].pc = "testing" /\ p \in check[t].todo
       ELSE p = Spamhaus

\* The provider passed a test not long ago.
Remembered(t, p) ==
    /\ MayTest(t, p) /\ okUntil[p] > now
    /\ Conclude(t, p, TRUE)
    /\ UNCHANGED <<now, listing, mode, changed, changes, okUntil>>

Ask(t, p) ==
    /\ MayTest(t, p) /\ okUntil[p] <= now
    /\ test' = [test EXCEPT ![t][p].stage = "first"]
    /\ UNCHANGED <<now, listing, mode, changed, changes, okUntil, check>>

\* The second test point is asked once the first has answered.
FirstAnswer(t, p) ==
    /\ test[t][p].stage = "first"
    /\ \E answer \in {Answer(p, TRUE), Lost} :
         IF answer \in Wanted("first")
         THEN /\ test' = [test EXCEPT ![t][p] = [stage |-> "second", since |-> now]]
              /\ UNCHANGED check
         ELSE Conclude(t, p, FALSE)
    /\ UNCHANGED <<now, listing, mode, changed, changes, okUntil>>

SecondAnswer(t, p) ==
    /\ test[t][p].stage = "second"
    /\ \E answer \in {Answer(p, FALSE), Lost} :
         IF answer \in Wanted("second")
         THEN test' = [test EXCEPT ![t][p].stage = "passed"] /\ UNCHANGED check
         ELSE Conclude(t, p, FALSE)
    /\ UNCHANGED <<now, listing, mode, changed, changes, okUntil>>

\* Only a success is cached, for as long as the clock that is now read says.
Remember(t, p) ==
    /\ test[t][p].stage = "passed"
    /\ okUntil' = [okUntil EXCEPT ![p] = now + TTL]
    /\ Conclude(t, p, TRUE)
    /\ UNCHANGED <<now, listing, mode, changed, changes>>

Finished(c) == check[c].pc = "testing" /\ check[c].todo = {}

Finish(c) ==
    /\ Finished(c)
    /\ Update(c, Idle)
    /\ UNCHANGED <<now, listing, mode, changed, changes, okUntil, test>>

-----------------------------------------------------------------------------
(* The world. *)

Change(p, m) ==
    /\ changes < MaxChanges
    /\ mode[p] # m
    /\ mode' = [mode EXCEPT ![p] = m]
    /\ changed' = [changed EXCEPT ![p] = now]
    /\ changes' = changes + 1
    /\ UNCHANGED <<now, listing, okUntil, check, test>>

\* The second query of a test takes no longer than the resolver waits.
Overdue(t, p) ==
    test[t][p].stage \in {"second", "passed"} /\ now - test[t][p].since >= MaxTest

Tick ==
    /\ now < MaxTime
    /\ \A t \in Testers, p \in Providers : ~Overdue(t, p)
    /\ now' = now + 1
    /\ UNCHANGED <<listing, mode, changed, changes, okUntil, check, test>>

Next ==
    \/ \E c \in Checks :
         \/ Begin(c) \/ Retry(c) \/ BeginTests(c) \/ Finish(c)
         \/ \E p \in Providers : Complete(c, p)
    \/ \E t \in Testers, p \in Providers :
         \/ Remembered(t, p) \/ Ask(t, p)
         \/ FirstAnswer(t, p) \/ SecondAnswer(t, p) \/ Remember(t, p)
    \/ \E p \in Providers, m \in Modes : Change(p, m)
    \/ Tick

Spec == Init /\ [][Next]_vars

-----------------------------------------------------------------------------
(* Properties. *)

\* The provider has been answering the same way for as long as a passed test
\* is remembered, and the time such a test may take before it is stored: a
\* provider that goes wrong between the two queries has passed.
Steady(c, p) == changed[p] + TTL + MaxTest <= check[c].start

AnswersAreTrue(k, steady) ==
    \A p \in steady \ k.failed : p \in k.listed <=> p \in listing

\* is_inconclusive.
Inconclusive(k) == Cardinality(k.failed) >= TooMany

CleanIsClean(k, steady) ==
    k.listed = {} /\ ~Inconclusive(k) => Cardinality(listing \cap steady) < TooMany

\* "An answer, listed or clean, only counts if the provider still answers its
\* test points correctly": whatever a finished check says of a provider that
\* has not changed its ways lately is either "no answer" or true, however
\* lookups, retries and the tests of other checks interleave.  "When too many
\* providers fail a clean result can't be trusted": one that counts misses
\* fewer listings than that.
ResultsAreTrue ==
    \A c \in Checks : Finished(c) =>
        LET steady == {p \in Providers : Steady(c, p)}
        IN  /\ check[c].listed \cap check[c].failed = {}
            /\ AnswersAreTrue(check[c], steady)
            /\ CleanIsClean(check[c], steady)
================================================================================
