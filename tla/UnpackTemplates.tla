---------------------------- MODULE UnpackTemplates ----------------------------
(***************************************************************************)
(* Templates: the list of a site's torrents that belong to a collection.   *)
(* An import makes a new version of a template; the driver asks the site   *)
(* for one torrent after the other.  Definitions are bound to a version,   *)
(* so that one that has been imported must not change any more.            *)
(*                                                                         *)
(* The site answers, fails, or asks for patience; the process may stop     *)
(* while it waits for the answer.                                          *)
(***************************************************************************)
EXTENDS Naturals, FiniteSets, Sequences

CONSTANTS
    Templates,
    Torrents,      \* a set of numbers, in the order in which they are imported
    MaxJobs,       \* bound: imports
    MaxFaults      \* bound: failures, waits and stops

VARIABLES
    versions,  \* UnpackTemplateVersion and its seeds, by template; the last is current
    jobs,      \* UnpackTemplateImportJob, the oldest first
    tick,      \* the driver: the job and the torrent it asks for
    past,      \* history: what was asked of each template, and whether a gap was papered over
    faults

vars == <<versions, jobs, tick, past, faults>>

Statuses == {"IMPORTING", "READY", "INCOMPLETE"}
Version == [status : Statuses, expected : 0..Cardinality(Torrents),
            count : 0..Cardinality(Torrents), seeds : SUBSET Torrents]
Job == [template : Templates, version : 1..MaxJobs, ids : SUBSET Torrents,
        left : SUBSET Torrents, errors : SUBSET Torrents, done : BOOLEAN]
Past == [asked : SUBSET Torrents, papered : BOOLEAN]
NoTick == [job |-> 0, torrent |-> 0]

Larger(a, b) == IF a > b THEN a ELSE b
First(i, set) == i \in set /\ \A j \in set : i <= j
Current(t) == versions[t][Len(versions[t])]

-----------------------------------------------------------------------------
(* create_import_job *)

NewJob(t, version, ids) ==
    jobs' = Append(jobs, [template |-> t, version |-> version, ids |-> ids, left |-> ids,
                          errors |-> {}, done |-> FALSE])

CreateTemplate(t, ids) ==
    /\ Len(jobs) < MaxJobs /\ versions[t] = <<>>
    /\ versions' = [versions EXCEPT ![t] =
                      <<[status |-> "IMPORTING", expected |-> Cardinality(ids),
                         count |-> 0, seeds |-> {}]>>]
    /\ NewJob(t, 1, ids)
    /\ past' = [past EXCEPT ![t].asked = ids]
    /\ UNCHANGED <<tick, faults>>

\* `mapped' are the ids that come with mappings: they are asked for again.
Fresh(t, ids, mapped) == (ids \ Current(t).seeds) \cup (ids \cap mapped)

\* Mutant: the new version expects no more than what is there and what is new.
ExpectedOfNew(t, ids) == Current(t).count + Cardinality(ids \ Current(t).seeds)

Expected(t, ids) ==
    Larger(Current(t).expected, Current(t).count + Cardinality(ids \ Current(t).seeds))

\* Mutant: the seeds are added to the current version.
AppendInPlace(t, ids, mapped) ==
    /\ Len(jobs) < MaxJobs /\ versions[t] # <<>> /\ Current(t).status # "IMPORTING"
    /\ Fresh(t, ids, mapped) # {}
    /\ versions' = [versions EXCEPT ![t][Len(versions[t])] =
                      [@ EXCEPT !.status = "IMPORTING", !.expected = Expected(t, ids)]]
    /\ NewJob(t, Len(versions[t]), Fresh(t, ids, mapped))
    /\ past' = [past EXCEPT ![t].asked = @ \cup ids]
    /\ UNCHANGED <<tick, faults>>

\* A new version starts with the seeds of the current one.  It counts what it
\* expects: new torrents may stand in for old ones that are still missing.
AppendToTemplate(t, ids, mapped) ==
    /\ Len(jobs) < MaxJobs /\ versions[t] # <<>> /\ Current(t).status # "IMPORTING"
    /\ Fresh(t, ids, mapped) # {}
    /\ versions' = [versions EXCEPT ![t] =
                      Append(@, [status |-> "IMPORTING", expected |-> Expected(t, ids),
                                 count |-> Current(t).count, seeds |-> Current(t).seeds])]
    /\ NewJob(t, Len(versions[t]) + 1, Fresh(t, ids, mapped))
    /\ past' = [past EXCEPT ![t] =
                  [asked |-> @.asked \cup ids,
                   papered |-> @.papered \/ (Current(t).count < Current(t).expected
                                             /\ ~(ids \subseteq @.asked))]]
    /\ UNCHANGED <<tick, faults>>

-----------------------------------------------------------------------------
(* process_next_import_item *)

Open == {i \in 1..Len(jobs) : ~jobs[i].done}

Take ==
    /\ tick = NoTick
    /\ \E i \in Open : \E torrent \in jobs[i].left :
          /\ First(i, Open) /\ First(torrent, jobs[i].left)
          /\ tick' = [job |-> i, torrent |-> torrent]
    /\ UNCHANGED <<versions, jobs, past, faults>>

\* Mutant: the site's request for patience counts as a failure, without an error.
TakeNextLimited ==
    /\ tick # NoTick /\ faults < MaxFaults /\ Cardinality(jobs[tick.job].left) > 1
    /\ jobs' = [jobs EXCEPT ![tick.job].left = @ \ {tick.torrent}]
    /\ tick' = NoTick /\ faults' = faults + 1
    /\ UNCHANGED <<versions, past>>

\* The driver sleeps, and asks for the same torrent again.
Limited ==
    /\ tick # NoTick /\ faults < MaxFaults
    /\ tick' = NoTick /\ faults' = faults + 1
    /\ UNCHANGED <<versions, jobs, past>>

\* _finish_job
Finished(v, job) ==
    [v EXCEPT !.status = IF job.errors = {} /\ v.count >= v.expected
                            /\ v.seeds # {}
                         THEN "READY" ELSE "INCOMPLETE"]

\* The job and its version after one torrent; the last one ends them both.
Record(job, v) ==
    LET last == job.left = {tick.torrent}
        next == [job EXCEPT !.left = @ \ {tick.torrent}, !.done = last]
    IN  /\ jobs' = [jobs EXCEPT ![tick.job] = next]
        /\ versions' = [versions EXCEPT ![job.template][job.version] =
                          IF last THEN Finished(v, next) ELSE v]
        /\ tick' = NoTick
        /\ UNCHANGED past

\* Mutant: the seeds are counted before the new one is flushed.
DescribedUnflushed ==
    LET job == jobs[tick.job] v == versions[job.template][job.version]
    IN  /\ tick # NoTick
        /\ Record(job, [v EXCEPT !.seeds = @ \cup {tick.torrent}, !.count = Cardinality(v.seeds)])
        /\ UNCHANGED faults

Described ==
    LET job == jobs[tick.job]
        v == versions[job.template][job.version]
        seeds == v.seeds \cup {tick.torrent}
    IN  /\ tick # NoTick
        /\ Record(job, [v EXCEPT !.seeds = seeds, !.count = Cardinality(seeds)])
        /\ UNCHANGED faults

Failed ==
    LET job == jobs[tick.job]
    IN  /\ tick # NoTick /\ faults < MaxFaults /\ faults' = faults + 1
        /\ Record([job EXCEPT !.errors = @ \cup {tick.torrent}],
                  versions[job.template][job.version])

Crash ==
    /\ tick # NoTick /\ faults < MaxFaults
    /\ tick' = NoTick /\ faults' = faults + 1
    /\ UNCHANGED <<versions, jobs, past>>

-----------------------------------------------------------------------------

Init ==
    /\ versions = [t \in Templates |-> <<>>]
    /\ jobs = <<>> /\ tick = NoTick
    /\ past = [t \in Templates |-> [asked |-> {}, papered |-> FALSE]] /\ faults = 0

Next ==
    \/ \E t \in Templates, ids \in SUBSET Torrents \ {{}} :
          \/ CreateTemplate(t, ids)
          \/ \E mapped \in SUBSET ids : AppendToTemplate(t, ids, mapped)
    \/ Take \/ Limited \/ Described \/ Failed \/ Crash

Spec == Init /\ [][Next]_vars

-----------------------------------------------------------------------------

TypeOK ==
    /\ \A t \in Templates : \A i \in 1..Len(versions[t]) : versions[t][i] \in Version
    /\ \A i \in 1..Len(jobs) : jobs[i] \in Job
    /\ past \in [Templates -> Past]
    /\ tick \in [job : 0..MaxJobs, torrent : {0} \cup Torrents] /\ faults \in 0..MaxFaults

\* A version is taken for complete by its count, so the count is that of its
\* seeds, although new rows are not flushed by themselves (unpack_templates.py:927).
CountIsSeeds == \A t \in Templates : \A i \in 1..Len(versions[t]) :
    versions[t][i].count = Cardinality(versions[t][i].seeds)

\* What the driver has gone past is a seed or an error: neither a stop nor a site
\* that asks for patience makes an import skip a torrent (unpack_templates.py:788).
NoneSkipped == \A i \in 1..Len(jobs) :
    jobs[i].ids \ jobs[i].left
        \subseteq versions[jobs[i].template][jobs[i].version].seeds \cup jobs[i].errors

\* The newest version is READY only with every torrent ever asked of its template,
\* also when a failed one is asked for again.  An import that adds new torrents to
\* an incomplete version may paper over the gap (unpack_templates.py:664).
ReadyIsComplete == \A t \in Templates :
    versions[t] # <<>> /\ Current(t).status = "READY" /\ ~past[t].papered
        => past[t].asked \subseteq Current(t).seeds

\* A version that has been imported never changes again: a definition bound to it
\* finds the seeds it was made for.
VersionIsFrozen == [][\A t \in Templates : \A i \in 1..Len(versions[t]) :
    versions[t][i].status # "IMPORTING" => versions'[t][i] = versions[t][i]]_vars

=============================================================================
