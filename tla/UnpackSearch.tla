------------------------------ MODULE UnpackSearch ------------------------------
(***************************************************************************)
(* The search of an execution's items on its sites.  An item is claimed    *)
(* and looked for on every site of the execution at once, query after      *)
(* query and page after page; what the sites found and where they failed   *)
(* decides its status.  One item at a time: the driver's batch is one      *)
(* coroutine, the sites of an item are its children.                       *)
(*                                                                         *)
(* Two mechanisms stand between a search and a site.  An empty answer may  *)
(* be a mistake of the site, so the first one is asked for again, as is    *)
(* one query at the end.  And the adapter of a site remembers its answers  *)
(* for a while.  Refusals are counted; the limit parks the site until a    *)
(* user enables it again, and pending items keep away for some time.       *)
(***************************************************************************)
EXTENDS Naturals, FiniteSets

CONSTANTS
    Items,             \* the items of the execution, numbers in the order of their ids
    Sites,             \* the sites of its snapshot
    Truths,            \* what a site can have: sequences over Contents, one for each query
    Queries,           \* the number of queries of an item
    MaxPages,          \* max_pages_per_query
    SiteConcurrency,   \* max_site_concurrency
    RiskLimit,         \* risk_control_limit of a site
    MaxRetries,        \* max_retries of the definition
    Cooldown,          \* risk_retry_interval_seconds, > 1: more than the pause of a retry
    MaxClock, MaxFaults, MaxEdits     \* bounds: time, failing answers, acts of users

VARIABLES
    truth,      \* what each site has for each query
    item,       \* the rows of the items
    row,        \* the rows of the sites: [enabled, parked]
    refusals,   \* the risk events of the execution in the last ten minutes
    memory,     \* what the adapter of a site remembers
    active,     \* the item that is searched, or None
    search,     \* the coroutine of each site
    clock,
    \* history
    asked,      \* requests that left for a site in this search
    void,       \* empty answers to queries for which the site has something
    seen,       \* the sites that gave a usable candidate in this search
    hush,       \* until when a site that refused wants to be left alone
    wanted,     \* items a user wants searched, whatever a site has asked for, until they are
    searched,   \* the item of the search that is in `search'
    faults, edits

vars == <<truth, item, row, refusals, memory, active, search, clock,
          asked, void, seen, hush, wanted, searched, faults, edits>>

None == 0
Never == MaxClock + Cooldown + 10      \* a Retry-After of more than a day

-----------------------------------------------------------------------------
(* Answers of a site *)

Contents == {"nothing", "rejected", "usable", "exact", "later", "broad"}

Page(items, more) == [error |-> "none", items |-> items, more |-> more]
Empty == Page({}, FALSE)
Foreign == [error |-> "foreign"]       \* the page of another site

\* `later' is a candidate on the second page; `broad' is what a site that
\* ignores the words of a query has.
Content(t, page) ==
    CASE t = "nothing" -> Empty
      [] t = "broad" -> Page({"unrelated"}, TRUE)
      [] t = "later" -> IF page = 1 THEN Page({"rejected"}, TRUE) ELSE Page({"usable"}, FALSE)
      [] OTHER -> Page({t}, FALSE)

\* A refusal may say when to come back.
Refusal(after) == [error |-> "risk", retryable |-> TRUE, after |-> after]
Unavailable == [error |-> "unavailable", retryable |-> TRUE, after |-> 0]
Broken == [error |-> "broken", retryable |-> FALSE, after |-> 0]
Timeout == [error |-> "timeout", retryable |-> TRUE, after |-> 0]
Refusals == {Refusal(0), Refusal(Cooldown + 1), Refusal(Never)}
Mishaps == {Empty, Foreign, Unavailable, Broken, Timeout} \cup Refusals

\* What the adapter remembers of a page; a minute later it is nothing.
Nothing == [error |-> "nothing"]
Recalled(s, q, page) ==
    {Nothing} \cup {m.answer : m \in {n \in memory[s] : n.of = active /\ n.query = q /\ n.page = page}}

\* What can come of the request for a page: ReliableSiteAdapter.search
Answers(s, q, page, recalled) ==
    IF recalled # Nothing THEN {recalled}
    ELSE {Content(truth[s][q], page)} \cup (IF faults < MaxFaults THEN Mishaps ELSE {})

Usable(r) == r.found \cap {"usable", "exact"} # {}

\* An answer is remembered, an error is not.  The request left if nothing was.
Answer(s, q, page, recalled, a) ==
    /\ memory' = [memory EXCEPT ![s] =
           LET others == {m \in @ : <<m.of, m.query, m.page>> # <<active, q, page>>}
           IN  IF a.error \in {"none", "foreign"}
               THEN others \cup {[of |-> active, query |-> q, page |-> page, answer |-> a]}
               ELSE others]
    /\ asked' = [asked EXCEPT ![s] = IF recalled = Nothing THEN @ + 1 ELSE @]
    /\ void' = [void EXCEPT ![s] =
           IF a = Empty /\ Content(truth[s][q], page) # Empty THEN @ + 1 ELSE @]
    /\ seen' = IF a.error = "none" /\ Usable([found |-> a.items]) THEN seen \cup {s} ELSE seen
    /\ faults' = IF recalled = Nothing /\ a # Content(truth[s][q], page)
                 THEN faults + 1 ELSE faults

-----------------------------------------------------------------------------
(* The search of one site: search_one *)

\* `again': an empty page was asked for once more; `empties': the queries that
\* had no results; `last': the first page of the previous query.
Fresh == [pc |-> "capabilities", query |-> 1, page |-> 1, again |-> FALSE, had |-> FALSE,
          empties |-> {}, found |-> {}, failures |-> {}, last |-> {}, refused |-> FALSE]
Finished == [Fresh EXCEPT !.pc = "done"]
Running == {s \in Sites : search[s].pc \notin {"capabilities", "done"}}

Failure(a, counted, limit) ==
    [error |-> a.error, retryable |-> a.retryable, after |-> a.after,
     counted |-> counted, limit |-> limit]
Plain(error) == Failure([error |-> error, retryable |-> FALSE, after |-> 0], FALSE, FALSE)

\* Mutant: a page that was asked for again does not get the last retry.
CloseOnce(r, foreign) ==
    IF ~Usable(r) /\ r.empties # {} /\ ~r.again /\ ~foreign /\ Plain("ignored") \notin r.failures
    THEN [r EXCEPT !.pc = "retry"] ELSE [r EXCEPT !.pc = "done"]

\* After the last query one that had no results is tried once more.
Close(r, foreign) ==
    IF ~Usable(r) /\ r.empties # {} /\ ~foreign /\ Plain("ignored") \notin r.failures
    THEN [r EXCEPT !.pc = "retry"] ELSE [r EXCEPT !.pc = "done"]

\* Mutant: pages are asked for after a near-exact result.
KeepLooking(r) == r.query = Queries \/ Plain("ignored") \in r.failures

\* Enough was found (by a site with an interval between its searches, as all
\* of these have one), or the words are ignored.
NoMoreQueries(r) ==
    r.query = Queries \/ "exact" \in r.found \/ Plain("ignored") \in r.failures

EndQuery(r, foreign) ==
    LET e == IF r.had \/ foreign THEN r ELSE [r EXCEPT !.empties = @ \cup {r.query}]
    IN  IF NoMoreQueries(e) THEN Close(e, foreign)
        ELSE [e EXCEPT !.pc = "ask", !.query = @ + 1, !.page = 1, !.had = FALSE]

\* The page is gone through.
Take(r, a) ==
    LET ignored == r.page = 1 /\ a.items = {"unrelated"} /\ r.last = a.items
        taken == [r EXCEPT !.had = @ \/ a.items # {}, !.found = @ \cup (a.items \ {"unrelated"}),
                           !.last = IF r.page = 1 THEN a.items ELSE @,
                           !.failures = @ \cup (IF ignored THEN {Plain("ignored")} ELSE {})]
    IN  IF a.more /\ r.page < MaxPages /\ ~ignored /\ "exact" \notin taken.found
        THEN [taken EXCEPT !.pc = "ask", !.page = @ + 1]
        ELSE EndQuery(taken, FALSE)

\* SiteService.record_unpack_risk_event, from _search_failure_for_site
Reached(s) == refusals[s] + 1 >= RiskLimit
CountRisk(s, a) ==
    /\ refusals' = [refusals EXCEPT ![s] = @ + 1]
    /\ row' = IF Reached(s) /\ ~row[s].parked
              THEN [row EXCEPT ![s] = [enabled |-> FALSE, parked |-> TRUE]] ELSE row
    /\ hush' = [hush EXCEPT ![s] = clock + (IF a.after \in (Cooldown + 1)..(Never - 1)
                                            THEN a.after ELSE Cooldown)]

Uncounted == UNCHANGED <<refusals, row, hush>>

\* Mutant: an error takes away what the site has found.
FailEmpty(r, a, limit) ==
    [r EXCEPT !.pc = "done", !.refused = TRUE, !.found = {},
        !.failures = @ \cup {Failure([a EXCEPT !.after = IF @ = 0 /\ a.error = "risk"
                                                         THEN Cooldown ELSE @],
                                     a.error = "risk", limit)}]

\* An error ends the search of the site, whose interval is the least pause.
Fail(r, a, limit) ==
    [r EXCEPT !.pc = "done", !.refused = TRUE,
        !.failures = @ \cup {Failure([a EXCEPT !.after = IF @ = 0 /\ a.error = "risk"
                                                         THEN Cooldown ELSE @],
                                     a.error = "risk", limit)}]

\* A timeout takes with it what the site has found.
TimedOut == [Finished EXCEPT !.failures = {Failure(Timeout, FALSE, FALSE)}, !.refused = TRUE]

Set(s, r) == search' = [search EXCEPT ![s] = r]

Outcome(s, a, taken) ==
    \/ a.error = "none" /\ Set(s, taken) /\ Uncounted
    \/ /\ a.error = "foreign" /\ Uncounted
       /\ Set(s, EndQuery([search[s] EXCEPT !.failures = @ \cup {Plain("foreign")}], TRUE))
    \/ a.error = "timeout" /\ Set(s, TimedOut) /\ Uncounted
    \/ a.error \in {"unavailable", "broken"} /\ Set(s, Fail(search[s], a, FALSE)) /\ Uncounted
    \/ a.error = "risk" /\ Set(s, Fail(search[s], a, Reached(s))) /\ CountRisk(s, a)

InSearch == UNCHANGED <<truth, item, active, clock, wanted, searched, edits>>

Capabilities(s) ==
    /\ active # None /\ search[s].pc = "capabilities"
    /\ Cardinality(Running) < SiteConcurrency
    /\ \/ Set(s, [search[s] EXCEPT !.pc = "ask"]) /\ UNCHANGED faults
       \/ /\ faults < MaxFaults /\ faults' = faults + 1
          /\ Set(s, TimedOut) \/ Set(s, Fail(search[s], Unavailable, FALSE))
    /\ Uncounted /\ InSearch /\ UNCHANGED <<memory, asked, void, seen>>

\* The first page of a query is empty: once for a site it is asked for again.
Ask(s) ==
    /\ search[s].pc = "ask"
    /\ LET r == search[s]
       IN  \E m \in Recalled(s, r.query, r.page) : \E a \in Answers(s, r.query, r.page, m) :
               /\ Answer(s, r.query, r.page, m, a)
               /\ IF a = Empty /\ r.page = 1 /\ ~r.again
                  THEN Set(s, [r EXCEPT !.pc = "again", !.again = TRUE]) /\ Uncounted
                  ELSE Outcome(s, a, Take(r, a))
    /\ InSearch

AskAgain(s) ==
    /\ search[s].pc = "again"
    /\ LET r == search[s]
       IN  \E m \in Recalled(s, r.query, 1) : \E a \in Answers(s, r.query, 1, m) :
               Answer(s, r.query, 1, m, a) /\ Outcome(s, a, Take(r, a))
    /\ InSearch

\* Which of the queries without results depends on their words.  A refusal is
\* not counted here.
AskLast(s) ==
    /\ search[s].pc = "retry"
    /\ \E q \in search[s].empties : \E m \in Recalled(s, q, 1) : \E a \in Answers(s, q, 1, m) :
           LET r == [search[s] EXCEPT !.pc = "done"]
           IN  /\ Answer(s, q, 1, m, a)
               /\ Set(s, CASE a.error = "none" -> [r EXCEPT !.found = @ \cup (a.items \ {"unrelated"})]
                           [] a.error = "foreign" -> [r EXCEPT !.failures = @ \cup {Plain("foreign")}]
                           [] a.error = "timeout" -> TimedOut
                           [] OTHER -> [r EXCEPT !.failures = @ \cup {Failure(a, FALSE, FALSE)}])
    /\ Uncounted /\ InSearch

-----------------------------------------------------------------------------
(* Claiming an item, and what the search makes of it *)

Later(m, n) == IF m > n THEN m ELSE n
Due == {i \in Items : item[i].status = "MATCH_PENDING" /\ item[i].notBefore <= clock}

\* _defer_pending_items
Defer(rows, until) ==
    [i \in Items |-> IF rows[i].status = "MATCH_PENDING"
                     THEN [rows[i] EXCEPT !.notBefore = Later(@, until)] ELSE rows[i]]

\* A site of the execution is parked.
ClaimParked ==
    /\ active = None /\ Due # {}
    /\ \E s \in Sites : row[s].parked /\ ~row[s].enabled
    /\ item' = Defer(item, clock + Cooldown)
    /\ UNCHANGED <<truth, row, refusals, memory, active, search, clock,
                   asked, void, seen, hush, wanted, searched, faults, edits>>

\* A site that a user disabled makes the search fail before it begins.
Claim ==
    /\ active = None /\ Due # {}
    /\ ~\E s \in Sites : row[s].parked /\ ~row[s].enabled
    /\ LET i == CHOOSE i \in Due : \A j \in Due : i <= j
           missing == {s \in Sites : ~row[s].enabled}
       IN  /\ item' = [item EXCEPT ![i].status = "MATCHING"]
           /\ active' = i /\ searched' = i
           /\ search' = [s \in Sites |->
                  IF missing = {} THEN Fresh
                  ELSE IF s \in missing THEN [Finished EXCEPT !.failures = {Plain("missing")}]
                  ELSE Finished]
    /\ asked' = [s \in Sites |-> 0] /\ void' = [s \in Sites |-> 0]
    /\ seen' = {}
    /\ UNCHANGED <<truth, row, refusals, memory, clock, hush, wanted, faults, edits>>

Failures == UNION {search[s].failures : s \in Sites}
Risks == {f \in Failures : f.counted}
Matched == {"MATCHED_AUTO", "REVIEW_REQUIRED"}

Pauses(fs) == {1} \cup {f.after : f \in {g \in fs : g.retryable}}
Longest(S) == CHOOSE m \in S : \A n \in S : n <= m

\* Mutant: the pause a site asks for is not kept.
RetriesAtOnce(i) ==
    IF item[i].retries < MaxRetries /\ Never \notin Pauses(Failures)
    THEN {[status |-> "MATCH_PENDING", retries |-> item[i].retries + 1, notBefore |-> clock + 1]}
    ELSE {}

\* _schedule_automatic_retry
Retries(i) ==
    IF item[i].retries < MaxRetries /\ Never \notin Pauses(Failures)
    THEN {[status |-> "MATCH_PENDING", retries |-> item[i].retries + 1,
           notBefore |-> clock + Longest(Pauses(Failures))]}
    ELSE {}

\* The cooldown that the refusals of this search ask for.
Quiet == clock + Longest({Cooldown} \cup {f.after : f \in {g \in Risks : g.after # Never}})

Unmatched(i) ==
    LET ends(status) == {[item[i] EXCEPT !.status = status]}
        retry == Retries(i)
    IN  CASE Failures = {} -> ends("NO_MATCH")
          [] \E f \in Risks : f.limit ->
                 {[item[i] EXCEPT !.status = "MATCH_PENDING", !.notBefore = Quiet]}
          [] \E f \in Failures : f.retryable /\ retry # {} -> retry
          [] Risks = {} /\ \E f \in Failures : f.error = "timeout" -> ends("MATCH_TIMEOUT")
          [] OTHER -> ends("MATCH_ERROR")

\* Mutant: a refusal does not concern the other items until the limit is reached.
FinalizeAlone ==
    /\ active # None /\ \A s \in Sites : search[s].pc = "done"
    /\ LET rows == IF \E f \in Risks : f.limit THEN Defer(item, Quiet) ELSE item
           usable == \E s \in Sites : Usable(search[s])
       IN  \E r \in (IF usable THEN {[item[active] EXCEPT !.status = m] : m \in Matched}
                               ELSE Unmatched(active)) :
               item' = [rows EXCEPT ![active] = r]
    /\ active' = None
    /\ wanted' = IF item'[active].status = "MATCH_PENDING" THEN wanted ELSE wanted \ {active}
    /\ UNCHANGED <<truth, row, refusals, memory, search, clock,
                   asked, void, seen, hush, searched, faults, edits>>

\* _finalize_search
Finalize ==
    /\ active # None /\ \A s \in Sites : search[s].pc = "done"
    /\ LET rows == IF Risks # {} THEN Defer(item, Quiet) ELSE item
           usable == \E s \in Sites : Usable(search[s])
       IN  \E r \in (IF usable THEN {[item[active] EXCEPT !.status = m] : m \in Matched}
                               ELSE Unmatched(active)) :
               item' = [rows EXCEPT ![active] = r]
    /\ active' = None
    /\ wanted' = IF item'[active].status = "MATCH_PENDING" THEN wanted ELSE wanted \ {active}
    /\ UNCHANGED <<truth, row, refusals, memory, search, clock,
                   asked, void, seen, hush, searched, faults, edits>>

-----------------------------------------------------------------------------
(* Users and time *)

Edit == edits < MaxEdits /\ edits' = edits + 1

\* Another version of a site has another adapter, with nothing to remember.
SetEnabled(s, enabled) ==
    /\ Edit /\ row[s].enabled # enabled
    /\ row' = [row EXCEPT ![s] = [enabled |-> enabled, parked |-> @.parked /\ ~enabled]]
    /\ memory' = [memory EXCEPT ![s] = {}]
    /\ UNCHANGED <<truth, item, refusals, active, search, clock,
                   asked, void, seen, hush, wanted, searched, faults>>

\* A user wants an item searched now, whatever a site has asked for.
Retry(i) ==
    /\ Edit /\ item[i].status \in {"NO_MATCH", "MATCH_TIMEOUT", "MATCH_ERROR"}
    /\ item' = [item EXCEPT ![i] = [status |-> "MATCH_PENDING", retries |-> 0, notBefore |-> 0]]
    /\ wanted' = wanted \cup {i}
    /\ UNCHANGED <<truth, row, refusals, memory, active, search, clock,
                   asked, void, seen, hush, searched, faults>>

\* The risk events may leave their window.
Tick ==
    /\ clock < MaxClock /\ clock' = clock + 1
    /\ refusals' \in {refusals, [s \in Sites |-> 0]}
    /\ UNCHANGED <<truth, item, row, memory, active, search,
                   asked, void, seen, hush, wanted, searched, faults, edits>>

Init ==
    /\ truth \in [Sites -> Truths]
    /\ item = [i \in Items |-> [status |-> "MATCH_PENDING", retries |-> 0, notBefore |-> 0]]
    /\ row = [s \in Sites |-> [enabled |-> TRUE, parked |-> FALSE]]
    /\ refusals = [s \in Sites |-> 0]
    /\ memory = [s \in Sites |-> {}]
    /\ active = None
    /\ search = [s \in Sites |-> Finished]
    /\ clock = 0
    /\ asked = [s \in Sites |-> 0] /\ void = [s \in Sites |-> 0]
    /\ seen = {} /\ wanted = {}
    /\ hush = [s \in Sites |-> 0]
    /\ searched = None
    /\ faults = 0 /\ edits = 0

Next ==
    \/ ClaimParked \/ Claim \/ Finalize \/ Tick
    \/ \E s \in Sites : Capabilities(s) \/ Ask(s) \/ AskAgain(s) \/ AskLast(s)
    \/ \E s \in Sites, enabled \in BOOLEAN : SetEnabled(s, enabled)
    \/ \E i \in Items : Retry(i)

Spec == Init /\ [][Next]_vars

-----------------------------------------------------------------------------
TypeOK ==
    /\ truth \in [Sites -> Truths]
    /\ \A i \in Items :
           /\ item[i].status \in {"MATCH_PENDING", "MATCHING", "NO_MATCH", "MATCH_TIMEOUT",
                                  "MATCH_ERROR"} \cup Matched
           /\ item[i].retries \in 0..MaxRetries /\ item[i].notBefore \in Nat
    /\ row \in [Sites -> [enabled : BOOLEAN, parked : BOOLEAN]]
    /\ refusals \in [Sites -> Nat] /\ seen \subseteq Sites /\ wanted \subseteq Items
    /\ active \in Items \cup {None} /\ searched \in Items \cup {None}
    /\ \A s \in Sites :
           /\ search[s].pc \in {"capabilities", "ask", "again", "retry", "done"}
           /\ search[s].query \in 1..Queries /\ search[s].page \in 1..MaxPages
           /\ search[s].empties \subseteq 1..Queries
    /\ clock \in 0..MaxClock /\ faults \in 0..MaxFaults /\ edits \in 0..MaxEdits

Ended == active = None /\ searched # None
Has(s) == {q \in 1..Queries : truth[s][q] \in {"usable", "exact"}}

\* A candidate that every query would have found is given up only after an
\* empty answer to each of them, one more to the first and one more at the end
\* (_search_sites; an answer may come from the memory of the adapter).
NoMatchIsEarned ==
    Ended /\ item[searched].status = "NO_MATCH" =>
        \A s \in Sites : Has(s) = 1..Queries => void[s] >= Queries + 2

\* What the comment says (unpack_matching.py:1463): a site that has the item
\* is not believed when it says once that it has not.
EmptyIsAskedAgain ==
    Ended /\ item[searched].status = "NO_MATCH" =>
        \A s \in Sites : Has(s) = 1..Queries => asked[s] > 1

\* A candidate that a site has found is kept, whatever happens to the other
\* queries and sites; only a timeout of its own site takes it away.
FoundIsKept ==
    Ended /\ (\E s \in seen : Failure(Timeout, FALSE, FALSE) \notin search[s].failures) =>
        item[searched].status \in Matched

\* A site that has failed, or found what is looked for, is not asked any more.
EnoughIsEnough ==
    [][\A s \in Sites : search[s].refused \/ "exact" \in search[s].found =>
           asked'[s] <= asked[s]]_vars

\* A site that has refused is left alone by all items for the time it asked
\* for, unless a user wants one searched now.
CooldownIsKept ==
    [][\A s \in Sites : asked'[s] > asked[s] => clock >= hush[s] \/ active \in wanted]_vars
=============================================================================
