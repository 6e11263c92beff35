------------------------------ MODULE SiteCircuit ------------------------------
(***************************************************************************)
(* The calls to one site share a state: a semaphore, a request interval, a *)
(* cache of search results and a circuit breaker.  A call is a coroutine   *)
(* on the event loop: it looks at the breaker, waits for a slot and for    *)
(* the interval, looks again, sends its request and records what came of   *)
(* it; it is tried again after a pause.  It may be cancelled at any await, *)
(* and an operator may reset the breaker at any time.                      *)
(*                                                                         *)
(* Times are abstracted to what has passed and what has not: the breaker   *)
(* is open until a time in the future or one in the past.  One search and  *)
(* one configuration version of the site; another version has another      *)
(* state.                                                                  *)
(***************************************************************************)
EXTENDS Naturals, FiniteSets

CONSTANTS
    Calls,           \* coroutines
    Concurrency,     \* SiteReliabilityPolicy.max_concurrency
    MaxAttempts,     \* SiteReliabilityPolicy.max_attempts
    Threshold,       \* SiteReliabilityPolicy.circuit_failure_threshold
    MaxCalls,        \* bound: calls
    MaxMishaps       \* bound: cancellations, resets, and errors no adapter should raise

VARIABLES
    until,       \* open_until: "none", "future" or "past"
    failures,    \* failure_count
    probing,     \* half_open_in_flight
    cached,      \* whether the search is in the cache and fresh
    call,        \* each coroutine
    announced,   \* the last event given to the notifications
    mishap,      \* history: the breaker was reset; an error escaped
    budget

vars == <<until, failures, probing, cached, call, announced, mishap, budget>>
breaker == <<until, failures, probing, announced>>

Kinds == {"search", "payload"}
Steps == {"idle", "look", "key", "check", "slot", "rate", "begin", "request", "sleep"}
Idle == [step |-> "idle", kind |-> "payload", attempt |-> 1, probe |-> FALSE]

At(c, step) == call[c].step = step
Goto(c, step) == call' = [call EXCEPT ![c].step = step]
End(c) == call' = [call EXCEPT ![c] = Idle]

HasKey(c) == call[c].kind = "search" /\ call[c].step \notin {"idle", "look", "key"}
HasSlot(c) == call[c].step \in {"rate", "begin", "request"}

-----------------------------------------------------------------------------
(* The cache *)

Start(c, kind) ==
    /\ At(c, "idle") /\ budget.calls < MaxCalls
    /\ call' = [call EXCEPT ![c] = [Idle EXCEPT
                    !.step = IF kind = "search" THEN "look" ELSE "check", !.kind = kind]]
    /\ budget' = [budget EXCEPT !.calls = @ + 1]
    /\ UNCHANGED <<breaker, cached, mishap>>

LookInCache(c) ==
    /\ At(c, "look")
    /\ IF cached THEN End(c) ELSE Goto(c, "key")
    /\ UNCHANGED <<breaker, cached, mishap, budget>>

\* Mutant: the cache is not looked at again under the lock of the key.
TakeKeyBlindly(c) ==
    /\ At(c, "key") /\ \A other \in Calls : ~HasKey(other)
    /\ Goto(c, "check")
    /\ UNCHANGED <<breaker, cached, mishap, budget>>

TakeKey(c) ==
    /\ At(c, "key") /\ \A other \in Calls : ~HasKey(other)
    /\ IF cached THEN End(c) ELSE Goto(c, "check")
    /\ UNCHANGED <<breaker, cached, mishap, budget>>

-----------------------------------------------------------------------------
(* _invoke *)

Shut == until = "future" \/ (until = "past" /\ probing)

\* _reject_open_circuit
Check(c) ==
    /\ At(c, "check")
    /\ IF Shut THEN End(c) ELSE Goto(c, "slot")
    /\ UNCHANGED <<breaker, cached, mishap, budget>>

TakeSlot(c) ==
    /\ At(c, "slot") /\ Cardinality({other \in Calls : HasSlot(other)}) < Concurrency
    /\ Goto(c, "rate")
    /\ UNCHANGED <<breaker, cached, mishap, budget>>

\* _wait_for_rate_slot: a later attempt gives up when the deadline comes first.
WaitForRate(c) ==
    /\ At(c, "rate")
    /\ \/ Goto(c, "begin")
       \/ call[c].attempt > 1 /\ End(c)
    /\ UNCHANGED <<breaker, cached, mishap, budget>>

\* Mutant: the breaker was looked at before the wait.
BeginAtOnce(c) ==
    /\ At(c, "begin")
    /\ call' = [call EXCEPT ![c].step = "request", ![c].probe = until # "none"]
    /\ probing' = (probing \/ until # "none")
    /\ UNCHANGED <<until, failures, announced, cached, mishap, budget>>

\* _begin_attempt
Begin(c) ==
    /\ At(c, "begin")
    /\ IF Shut
       THEN End(c) /\ UNCHANGED probing
       ELSE /\ call' = [call EXCEPT ![c].step = "request", ![c].probe = until # "none"]
            /\ probing' = (probing \/ until # "none")
    /\ UNCHANGED <<until, failures, announced, cached, mishap, budget>>

\* After a failure that may pass: a pause, or the end of a payload, of the
\* attempts or of the time.
RetryOrEnd(c) ==
    \/ /\ call[c].kind = "search" /\ call[c].attempt < MaxAttempts
       /\ call' = [call EXCEPT ![c].step = "sleep", ![c].probe = FALSE]
    \/ End(c)

WakeUp(c) ==
    /\ At(c, "sleep")
    /\ call' = [call EXCEPT ![c].step = "check", ![c].attempt = @ + 1]
    /\ UNCHANGED <<breaker, cached, mishap, budget>>

-----------------------------------------------------------------------------
(* What came of a request *)

\* _record_success
Close ==
    /\ announced' = IF until = "none" THEN announced ELSE "RECOVERED"
    /\ until' = "none" /\ failures' = 0 /\ probing' = FALSE

Open ==
    /\ until' = "future" /\ failures' = Threshold /\ probing' = FALSE
    /\ announced' = "OPENED"

\* Mutant: one failure more is let pass.
CountFailureLate(probe) ==
    IF probe \/ failures > Threshold THEN Open
    ELSE failures' = failures + 1 /\ UNCHANGED <<until, probing, announced>>

\* _record_breaker_failure; beyond the threshold the count says nothing more.
CountFailure(probe) ==
    IF probe \/ failures + 1 >= Threshold THEN Open
    ELSE failures' = failures + 1 /\ UNCHANGED <<until, probing, announced>>

\* _abort_attempt
Release(probe) ==
    /\ probing' = (probing /\ ~probe)
    /\ UNCHANGED <<until, failures, announced>>

Succeed(c) ==
    /\ At(c, "request") /\ Close /\ End(c)
    /\ cached' = (cached \/ call[c].kind = "search")
    /\ UNCHANGED <<mishap, budget>>

\* Mutant: a refusal closes the breaker without a word.
RefusedQuietly(c) ==
    /\ At(c, "request") /\ End(c)
    /\ until' = "none" /\ failures' = 0 /\ probing' = FALSE
    /\ UNCHANGED <<announced, cached, mishap, budget>>

\* Neither the login nor the form of the answer: the site works.
Refused(c) ==
    /\ At(c, "request") /\ Close /\ End(c)
    /\ UNCHANGED <<cached, mishap, budget>>

AuthFailed(c) ==
    /\ At(c, "request") /\ Open /\ End(c)
    /\ UNCHANGED <<cached, mishap, budget>>

InvalidResponse(c) ==
    /\ At(c, "request") /\ CountFailure(call[c].probe) /\ End(c)
    /\ UNCHANGED <<cached, mishap, budget>>

Unavailable(c) ==
    /\ At(c, "request") /\ CountFailure(call[c].probe) /\ RetryOrEnd(c)
    /\ UNCHANGED <<cached, mishap, budget>>

\* Mutant: a rate limit keeps the probe.
RateLimitedProbe(c) ==
    /\ At(c, "request") /\ RetryOrEnd(c)
    /\ UNCHANGED <<breaker, cached, mishap, budget>>

RateLimited(c) ==
    /\ At(c, "request") /\ Release(call[c].probe) /\ RetryOrEnd(c)
    /\ UNCHANGED <<cached, mishap, budget>>

-----------------------------------------------------------------------------
(* Mishaps *)

Mishap(kind) ==
    /\ budget.mishaps < MaxMishaps
    /\ budget' = [budget EXCEPT !.mishaps = @ + 1]
    /\ mishap' = mishap \cup {kind}

Cancel(c) ==
    /\ ~At(c, "idle") /\ Mishap("cancelled") /\ End(c)
    /\ IF At(c, "request") THEN Release(call[c].probe) ELSE UNCHANGED breaker
    /\ UNCHANGED cached

\* An exception that is no SiteAdapterError passes through.
Escape(c) ==
    /\ At(c, "request") /\ Mishap("escaped") /\ End(c)
    /\ UNCHANGED <<breaker, cached>>

\* reset_circuit: nothing is announced.
Reset ==
    /\ Mishap("reset")
    /\ until' = "none" /\ failures' = 0 /\ probing' = FALSE
    /\ UNCHANGED <<announced, cached, call>>

OpenTimePasses ==
    /\ until = "future" /\ until' = "past"
    /\ UNCHANGED <<failures, probing, announced, cached, call, mishap, budget>>

CacheExpires ==
    /\ cached /\ cached' = FALSE
    /\ UNCHANGED <<breaker, call, mishap, budget>>

-----------------------------------------------------------------------------

Init ==
    /\ until = "none" /\ failures = 0 /\ probing = FALSE /\ announced = "NOTHING"
    /\ cached = FALSE /\ call = [c \in Calls |-> Idle] /\ mishap = {}
    /\ budget = [calls |-> 0, mishaps |-> 0]

Step(c) ==
    \/ \E kind \in Kinds : Start(c, kind)
    \/ LookInCache(c) \/ TakeKey(c) \/ Check(c) \/ TakeSlot(c) \/ WaitForRate(c) \/ Begin(c)
    \/ WakeUp(c) \/ Succeed(c) \/ Refused(c) \/ AuthFailed(c) \/ InvalidResponse(c)
    \/ Unavailable(c) \/ RateLimited(c) \/ Cancel(c) \/ Escape(c)

Next == (\E c \in Calls : Step(c)) \/ Reset \/ OpenTimePasses \/ CacheExpires

Spec == Init /\ [][Next]_vars

-----------------------------------------------------------------------------

TypeOK ==
    /\ until \in {"none", "future", "past"} /\ failures \in 0..Threshold
    /\ probing \in BOOLEAN /\ cached \in BOOLEAN
    /\ announced \in {"NOTHING", "OPENED", "RECOVERED"}
    /\ call \in [Calls -> [step : Steps, kind : Kinds, attempt : 1..MaxAttempts,
                           probe : BOOLEAN]]
    /\ mishap \subseteq {"cancelled", "escaped", "reset"}
    /\ budget \in [calls : 0..MaxCalls, mishaps : 0..MaxMishaps]

\* The breaker never waits for a probe that is gone: cancelled, limited or failed,
\* it lets the next call try (site_reliability.py:383).  An exception outside the
\* adapters' contract would keep the site shut until a reset.
ProbeIsHeld ==
    probing => "escaped" \in mishap \/ \E c \in Calls : At(c, "request") /\ call[c].probe

\* No request leaves for a site that is shut, however long the call has waited
\* since it first looked at the breaker (site_reliability.py:416).
ShutIsQuiet ==
    [][\A c \in Calls : At(c, "begin") /\ call'[c].step = "request" => ~Shut]_vars

\* What was last announced is the state of the breaker, unless an operator reset it.
AnnouncedIsTrue ==
    "reset" \notin mishap => ((until # "none") <=> (announced = "OPENED"))

\* A search that is in the cache is not sent again by a call that missed it before
\* it waited for the lock of the key (site_reliability.py:334).
SearchIsSentOnce ==
    [][\A c \in Calls : call[c].kind = "search" /\ At(c, "begin")
         /\ call'[c].step = "request" => ~cached]_vars

=============================================================================
