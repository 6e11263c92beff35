----------------------------- MODULE MovieExchange -----------------------------
(***************************************************************************)
(* Replacing duplicate movies.  A verified pair is a file of directory A   *)
(* and a file of directory B with the same content; executing it puts a    *)
(* hard link or a symbolic link to the A file in the place of the B file:  *)
(* the link is made under a temporary name, the two names are exchanged in *)
(* one step, and the original, now under the temporary name, is removed    *)
(* after a check.                                                          *)
(*                                                                         *)
(* A call of the API executes pairs in one thread, and the driver resumes  *)
(* unfinished operations in another: nothing keeps them from working on    *)
(* the same pair.  The process may stop between any two steps, and users   *)
(* change files meanwhile.                                                 *)
(***************************************************************************)
EXTENDS Naturals

CONSTANTS
    Pairs,         \* the verified pairs: records with the file of A and of B
    MaxCalls,      \* bound: calls of the API
    MaxStops,      \* bound: stops of the process
    MaxMeddling    \* bound: changes made by users

VARIABLES
    mode,      \* "hardlink" or "symlink"
    source,    \* each file of A
    at,        \* what stands at each path of B
    temp,      \* what stands at the temporary name of each pair
    stale,     \* files whose ctime is no longer that of the scan
    pair,      \* the status of each pair
    journal,   \* the status of its operation
    job,       \* the status of the job
    worker,    \* the two threads
    crossed,   \* history: both threads have worked on one file of B at a time
    budget

vars == <<mode, source, at, temp, stale, pair, journal, job, worker, crossed, budget>>
files == <<source, at, temp, stale>>

Sources == {p.a : p \in Pairs}
Targets == {p.b : p \in Pairs}

\* A name holds the original of B, a link to a file of A, something of a user's,
\* or nothing.
Entry == {"original", "strange", "none"} \cup Sources

Active == {"INTENT_RECORDED", "EXCHANGED", "VERIFIED"}
Steps == {"idle", "load", "source", "temp", "link", "look", "swap", "check", "exchanged",
          "verify", "verified", "clean", "unlink", "final", "commit"}
Threads == {"call", "driver"}
NoPair == [a |-> "none", b |-> "none"]
Idle == [step |-> "idle", todo |-> {}, pair |-> NoPair]

-----------------------------------------------------------------------------

At(w, step) == worker[w].step = step
P(w) == worker[w].pair
Src(w) == P(w).a
Tgt(w) == P(w).b
Goto(w, step) == worker' = [worker EXCEPT ![w].step = step]

\* _refresh_execution_summary
Summary ==
    IF \E p \in Pairs : pair[p] = "VERIFIED_DUPLICATE" THEN "REVIEW_REQUIRED"
    ELSE IF \E p \in Pairs : pair[p] = "FAILED" THEN "PARTIAL_FAILED" ELSE "COMPLETED"

\* An exception ends the call; the driver marks operation, pair and job.
Fail(w) ==
    /\ worker' = [worker EXCEPT ![w] = Idle]
    /\ IF w = "driver"
       THEN /\ journal' = [journal EXCEPT ![P(w)] = "RECOVERY_REQUIRED"]
            /\ pair' = [pair EXCEPT ![P(w)] = "FAILED"]
            /\ job' = "RECOVERY_REQUIRED"
       ELSE UNCHANGED <<journal, pair, job>>

Pass(w, step) == Goto(w, step) /\ UNCHANGED <<journal, pair, job>>
Check(w, holds, step) == IF holds THEN Pass(w, step) ELSE Fail(w)

\* The next pair of the call, or its end.
NextPair(w) ==
    worker' = [worker EXCEPT ![w] = [@ EXCEPT !.step = "load", !.pair = NoPair]]

-----------------------------------------------------------------------------
(* execute_pairs and the driver's tick *)

Execute(selection) ==
    /\ worker["call"] = Idle /\ budget.calls < MaxCalls
    /\ selection # {}
    /\ \A p, q \in selection : p.b = q.b => p = q
    /\ worker' = [worker EXCEPT !["call"] = [Idle EXCEPT !.step = "load", !.todo = selection]]
    /\ budget' = [budget EXCEPT !.calls = @ + 1]
    /\ UNCHANGED <<mode, files, pair, journal, job, crossed>>

\* reconcile_job_operations: one unfinished operation.
Resume(p) ==
    /\ worker["driver"] = Idle /\ job = "RUNNING" /\ journal[p] \in Active
    /\ worker' = [worker EXCEPT !["driver"] = [Idle EXCEPT !.step = "load", !.todo = {p}]]
    /\ UNCHANGED <<mode, files, pair, journal, job, budget, crossed>>

\* None is left: the job goes back to its review or ends.
Settle ==
    /\ worker["driver"] = Idle /\ job = "RUNNING"
    /\ \A p \in Pairs : journal[p] \notin Active
    /\ job' = Summary
    /\ UNCHANGED <<mode, files, pair, journal, worker, budget, crossed>>

Finish(w) ==
    /\ At(w, "load") /\ worker[w].todo = {}
    /\ job' = Summary
    /\ worker' = [worker EXCEPT ![w] = Idle]
    /\ UNCHANGED <<mode, files, pair, journal, budget, crossed>>

Take(w, p, step) ==
    /\ worker' = [worker EXCEPT ![w] = [step |-> step, todo |-> @.todo \ {p}, pair |-> p]]
    /\ crossed' = (crossed \/ \E other \in Threads \ {w} : P(other).b = p.b)

\* Both files are as they were scanned, ctime included.
Current(p) ==
    /\ source[p.a] = "intact" /\ at[p.b] = "original"
    /\ p.a \notin stale /\ p.b \notin stale

\* _execute_pair up to its operation: an unfinished one is taken up, one that is
\* verified only has its original removed; otherwise a new one is recorded.
Load(w, p) ==
    /\ At(w, "load") /\ p \in worker[w].todo
    /\ \/ /\ pair[p] = "COMPLETED"
          /\ worker' = [worker EXCEPT ![w].todo = @ \ {p}]
          /\ UNCHANGED <<journal, pair, job, crossed>>
       \/ /\ pair[p] = "VERIFIED_DUPLICATE" /\ journal[p] \in Active
          /\ Take(w, p, IF journal[p] = "VERIFIED" THEN "clean" ELSE "source")
          /\ UNCHANGED <<journal, pair, job>>
       \/ /\ pair[p] = "VERIFIED_DUPLICATE" /\ journal[p] \notin Active /\ Current(p)
          /\ Take(w, p, "source")
          /\ journal' = [journal EXCEPT ![p] = "INTENT_RECORDED"]
          /\ job' = "RUNNING" /\ UNCHANGED pair
       \/ /\ pair[p] # "COMPLETED"
          /\ pair[p] = "FAILED" \/ (journal[p] \notin Active /\ ~Current(p))
          /\ worker' = [worker EXCEPT ![w] = Idle]
          /\ UNCHANGED <<journal, pair, job, crossed>>
    /\ UNCHANGED <<mode, files, budget>>

-----------------------------------------------------------------------------
(* exchange_duplicate_with_hardlink and exchange_duplicate_with_symlink *)

LookAtSource(w) ==
    /\ At(w, "source")
    /\ Check(w, source[Src(w)] = "intact", "temp")
    /\ UNCHANGED <<mode, files, budget, crossed>>

\* Without a temporary link, the target must still be the original.
LookAtTemporary(w) ==
    /\ At(w, "temp")
    /\ IF temp[P(w)] = "none"
       THEN Check(w, at[Tgt(w)] = "original", "link")
       ELSE Pass(w, "look")
    /\ UNCHANGED <<mode, files, budget, crossed>>

Touched(hard, soft) == stale' = stale \cup (IF mode = "hardlink" THEN hard \cup soft ELSE soft)

LinkTemporary(w) ==
    /\ At(w, "link")
    /\ IF temp[P(w)] = "none" /\ (mode = "symlink" \/ source[Src(w)] = "intact")
       THEN /\ temp' = [temp EXCEPT ![P(w)] = Src(w)]
            /\ Touched({Src(w)}, {}) /\ Pass(w, "look")
       ELSE Fail(w) /\ UNCHANGED <<temp, stale>>
    /\ UNCHANGED <<mode, source, at, budget, crossed>>

Exchanged(w) == at[Tgt(w)] = Src(w) /\ temp[P(w)] = "original"
Ready(w) == at[Tgt(w)] = "original" /\ temp[P(w)] = Src(w) /\ source[Src(w)] = "intact"

\* An exchange that was done before a stop is recognised.
LookAtTarget(w) ==
    /\ At(w, "look")
    /\ IF Exchanged(w) THEN Pass(w, "check") ELSE Check(w, Ready(w), "swap")
    /\ UNCHANGED <<mode, files, budget, crossed>>

\* Mutant: the link is renamed over the target.
ReplaceTarget(w) ==
    /\ At(w, "swap")
    /\ IF temp[P(w)] # "none"
       THEN /\ at' = [at EXCEPT ![Tgt(w)] = temp[P(w)]]
            /\ temp' = [temp EXCEPT ![P(w)] = "none"]
            /\ Touched({Src(w)}, {Tgt(w)}) /\ Pass(w, "check")
       ELSE Fail(w) /\ UNCHANGED <<at, temp, stale>>
    /\ UNCHANGED <<mode, source, budget, crossed>>

\* The two names change places, whatever they hold by now.
Exchange(w) ==
    /\ At(w, "swap")
    /\ IF temp[P(w)] # "none" /\ at[Tgt(w)] # "none"
       THEN /\ at' = [at EXCEPT ![Tgt(w)] = temp[P(w)]]
            /\ temp' = [temp EXCEPT ![P(w)] = at[Tgt(w)]]
            /\ Touched({Src(w)}, {Tgt(w)}) /\ Pass(w, "check")
       ELSE Fail(w) /\ UNCHANGED <<at, temp, stale>>
    /\ UNCHANGED <<mode, source, budget, crossed>>

CheckExchange(w) ==
    /\ At(w, "check")
    /\ Check(w, Exchanged(w), "exchanged")
    /\ UNCHANGED <<mode, files, budget, crossed>>

-----------------------------------------------------------------------------
(* The rest of _execute_pair *)

Mark(w, status, step) ==
    /\ journal' = [journal EXCEPT ![P(w)] = status]
    /\ Goto(w, step)
    /\ UNCHANGED <<mode, files, pair, job, budget, crossed>>

MarkExchanged(w) == At(w, "exchanged") /\ Mark(w, "EXCHANGED", "verify")
MarkVerified(w) == At(w, "verified") /\ Mark(w, "VERIFIED", "clean")

\* Mutant: the two verifications are left out.
SharedUnseen(w) == source[Src(w)] = "intact"

\* _verify_executed_target, after the exchange and again after the removal.
Shared(w) == source[Src(w)] = "intact" /\ at[Tgt(w)] = Src(w)

Verify(w) ==
    /\ At(w, "verify") /\ Check(w, Shared(w), "verified")
    /\ UNCHANGED <<mode, files, budget, crossed>>

VerifyAgain(w) ==
    /\ At(w, "final") /\ Check(w, Shared(w), "commit")
    /\ UNCHANGED <<mode, files, budget, crossed>>

\* remove_exchanged_original_if_matches: the original only.
LookAtOriginal(w) ==
    /\ At(w, "clean")
    /\ IF temp[P(w)] = "none" THEN Pass(w, "final")
       ELSE Check(w, temp[P(w)] = "original", "unlink")
    /\ UNCHANGED <<mode, files, budget, crossed>>

Unlink(w) ==
    /\ At(w, "unlink")
    /\ IF temp[P(w)] # "none"
       THEN /\ temp' = [temp EXCEPT ![P(w)] = "none"]
            /\ Pass(w, "final")
       ELSE Fail(w) /\ UNCHANGED temp
    /\ UNCHANGED <<mode, source, at, stale, budget, crossed>>

Commit(w) ==
    /\ At(w, "commit")
    /\ journal' = [journal EXCEPT ![P(w)] = "COMMITTED"]
    /\ pair' = [pair EXCEPT ![P(w)] = "COMPLETED"]
    /\ NextPair(w)
    /\ UNCHANGED <<mode, files, job, budget, crossed>>

-----------------------------------------------------------------------------
(* Stops and users *)

Stop ==
    /\ \E w \in Threads : worker[w] # Idle
    /\ budget.stops < MaxStops
    /\ worker' = [w \in Threads |-> Idle]
    /\ budget' = [budget EXCEPT !.stops = @ + 1]
    /\ UNCHANGED <<mode, files, pair, journal, job, crossed>>

\* A user replaces the file at a path of B, or removes a file of A.
Meddle ==
    /\ budget.meddling < MaxMeddling
    /\ \/ \E t \in Targets : at' = [at EXCEPT ![t] = "strange"] /\ UNCHANGED source
       \/ \E s \in Sources : source' = [source EXCEPT ![s] = "gone"] /\ UNCHANGED at
    /\ budget' = [budget EXCEPT !.meddling = @ + 1]
    /\ UNCHANGED <<mode, temp, stale, pair, journal, job, worker, crossed>>

-----------------------------------------------------------------------------

Init ==
    /\ mode \in {"hardlink", "symlink"}
    /\ source = [s \in Sources |-> "intact"]
    /\ at = [t \in Targets |-> "original"]
    /\ temp = [p \in Pairs |-> "none"]
    /\ stale = {}
    /\ pair = [p \in Pairs |-> "VERIFIED_DUPLICATE"]
    /\ journal = [p \in Pairs |-> "NONE"]
    /\ job = "REVIEW_REQUIRED" /\ crossed = FALSE
    /\ worker = [w \in Threads |-> Idle]
    /\ budget = [calls |-> 0, stops |-> 0, meddling |-> 0]

Step(w) ==
    \/ Finish(w) \/ \E p \in worker[w].todo : Load(w, p)
    \/ LookAtSource(w) \/ LookAtTemporary(w) \/ LinkTemporary(w) \/ LookAtTarget(w)
    \/ Exchange(w) \/ CheckExchange(w) \/ MarkExchanged(w) \/ Verify(w) \/ MarkVerified(w)
    \/ LookAtOriginal(w) \/ Unlink(w) \/ VerifyAgain(w) \/ Commit(w)

Next ==
    \/ \E selection \in SUBSET Pairs : Execute(selection)
    \/ \E p \in Pairs : Resume(p)
    \/ Settle
    \/ \E w \in Threads : Step(w)
    \/ Stop \/ Meddle

Spec == Init /\ [][Next]_vars

-----------------------------------------------------------------------------

TypeOK ==
    /\ mode \in {"hardlink", "symlink"}
    /\ source \in [Sources -> {"intact", "gone"}] /\ at \in [Targets -> Entry]
    /\ temp \in [Pairs -> Entry] /\ stale \subseteq Sources \cup Targets
    /\ pair \in [Pairs -> {"VERIFIED_DUPLICATE", "COMPLETED", "FAILED"}]
    /\ journal \in [Pairs -> Active \cup {"NONE", "COMMITTED", "RECOVERY_REQUIRED"}]
    /\ job \in {"RUNNING", "REVIEW_REQUIRED", "RECOVERY_REQUIRED", "COMPLETED", "PARTIAL_FAILED"}
    /\ worker \in [Threads -> [step : Steps, todo : SUBSET Pairs, pair : Pairs \cup {NoPair}]]
    /\ crossed \in BOOLEAN
    /\ budget \in [calls : 0..MaxCalls, stops : 0..MaxStops, meddling : 0..MaxMeddling]

\* What a user puts at a path of B is never removed with the original: the
\* exchange may carry it to the temporary name, and there it is left alone
\* (safe_filesystem.py:1597).  Two threads at one file could exchange it between
\* the check and the removal.
StrangersStay ==
    [][~crossed =>
       /\ \A t \in Targets : at[t] = "strange" =>
            at'[t] = "strange" \/ \E p \in Pairs : p.b = t /\ temp'[p] = "strange"
       /\ \A p \in Pairs : temp[p] = "strange" => "strange" \in {temp'[p], at'[p.b]}]_vars

\* What is reported as replaced holds a link to a file of A and its original is
\* gone, whatever two threads and stops did to the two names (movie_dedup.py:479).
\* It may be the link of another pair of the same file of B.
CompletedIsReplaced ==
    \A p \in Pairs : pair[p] = "COMPLETED" /\ budget.meddling = 0 =>
        at[p.b] \in Sources /\ temp[p] # "original"

=============================================================================
