---------------------------- MODULE UnpackDefinitions ----------------------------
(***************************************************************************)
(* Definitions and the executions they start: by hand                      *)
(* (unpack_definitions.py) or, for a monitor, at the times of its          *)
(* schedule (unpack_monitor.py).  An execution works on a frozen copy of   *)
(* the configuration; for a source in a downloader the copy also holds     *)
(* what the downloader listed, and the list is awaited between the look at *)
(* the definition and the write.                                           *)
(*                                                                         *)
(* A call of the API runs on the event loop without a pause, so that it is *)
(* one step; the monitor gives way while it waits for the list.            *)
(***************************************************************************)
EXTENDS Naturals, FiniteSets, Sequences

CONSTANTS
    Definitions,
    Configs,          \* what a source configuration may say
    MaxEdits,         \* bound: creations, edits and deletions
    MaxExecutions,    \* bound: executions
    MaxReopened,      \* bound: retries that take an execution up again
    MaxVersion        \* bound: of definitions that become due

VARIABLES
    definitions,   \* UnpackDefinition
    executions,    \* UnpackExecution
    tick,          \* the monitor: what it read of a definition and waits for
    edits, reopened

vars == <<definitions, executions, tick, edits, reopened>>

Kinds == {"manual", "template", "directory", "downloader"}   \* the last two are monitors
Monitors == {"directory", "downloader"}
Absent == [there |-> FALSE, version |-> 0, kind |-> "manual", config |-> 0,
           status |-> "PENDING_EXECUTION", next |-> "none"]
Definition == [there : BOOLEAN, version : Nat, kind : Kinds, config : {0} \cup Configs,
               status : {"PENDING_EXECUTION", "ENABLED"}, next : {"none", "later", "due"}]
Ended == {"COMPLETED", "FAILED"}
Execution == [of : Definitions, config : Configs, listed : {0} \cup Configs,
              status : {"DISCOVERING", "MATCHING", "WORKING", "GONE"} \cup Ended]
NoTick == [of |-> "none", version |-> 0, config |-> 0]

Live(d) == {i \in 1..Len(executions) :
              executions[i].of = d /\ executions[i].status \notin Ended \cup {"GONE"}}
Due(d) ==
    /\ definitions[d].there /\ definitions[d].kind \in Monitors
    /\ definitions[d].status = "ENABLED" /\ definitions[d].next = "due"

-----------------------------------------------------------------------------
(* UnpackDefinitionService *)

Create(d, kind, config) ==
    /\ ~definitions[d].there /\ definitions[d].version = 0 /\ edits < MaxEdits
    /\ definitions' = [definitions EXCEPT ![d] =
                         [Absent EXCEPT !.there = TRUE, !.version = 1,
                                        !.kind = kind, !.config = config]]
    /\ edits' = edits + 1
    /\ UNCHANGED <<executions, tick, reopened>>

\* Mutant: the status is kept whatever the definition becomes.
KeepSchedule(old, kind) == [status |-> old.status, next |-> old.next]

\* An enabled monitor is scheduled anew; one that becomes manual has to be run.
Schedule(old, kind) ==
    IF old.status # "ENABLED" THEN [status |-> old.status, next |-> old.next]
    ELSE IF kind \in Monitors THEN [status |-> "ENABLED", next |-> "later"]
    ELSE [status |-> "PENDING_EXECUTION", next |-> "none"]

Update(d, kind, config) ==
    /\ definitions[d].there /\ edits < MaxEdits
    /\ definitions' = [definitions EXCEPT
         ![d].kind = kind, ![d].config = config, ![d].version = @ + 1,
         ![d].status = Schedule(definitions[d], kind).status,
         ![d].next = Schedule(definitions[d], kind).next]
    /\ edits' = edits + 1
    /\ UNCHANGED <<executions, tick, reopened>>

\* Mutant: only the executions that have ended are removed.
RemoveEnded(d) ==
    /\ definitions[d].there /\ edits < MaxEdits
    /\ \A i \in 1..Len(executions) :
          executions[i].of = d => executions[i].status # "MATCHING"
    /\ definitions' = [definitions EXCEPT ![d].there = FALSE]
    /\ executions' = [i \in 1..Len(executions) |->
         IF executions[i].of = d /\ executions[i].status \in Ended
         THEN [executions[i] EXCEPT !.status = "GONE"] ELSE executions[i]]
    /\ edits' = edits + 1
    /\ UNCHANGED <<tick, reopened>>

\* Refused while an item waits to be matched; everything else goes, however far it is.
Delete(d) ==
    /\ definitions[d].there /\ edits < MaxEdits
    /\ \A i \in 1..Len(executions) :
          executions[i].of = d => executions[i].status # "MATCHING"
    /\ definitions' = [definitions EXCEPT ![d].there = FALSE]
    /\ executions' = [i \in 1..Len(executions) |->
         IF executions[i].of = d THEN [executions[i] EXCEPT !.status = "GONE"]
         ELSE executions[i]]
    /\ edits' = edits + 1
    /\ UNCHANGED <<tick, reopened>>

Start(d, listed) ==
    /\ Len(executions) < MaxExecutions
    /\ executions' = Append(executions,
         [of |-> d, config |-> definitions[d].config, listed |-> listed,
          status |-> "DISCOVERING"])

\* A monitor is enabled, which starts nothing yet.
Enable(d) ==
    /\ definitions[d].there /\ definitions[d].status = "PENDING_EXECUTION"
    /\ definitions[d].kind \in Monitors
    /\ definitions' = [definitions EXCEPT ![d].status = "ENABLED", ![d].next = "later",
                                          ![d].version = @ + 1]
    /\ UNCHANGED <<executions, tick, edits, reopened>>

\* A template keeps the list that was frozen when it was saved.
Run(d) ==
    /\ definitions[d].there /\ definitions[d].status = "PENDING_EXECUTION"
    /\ definitions[d].kind \notin Monitors /\ Live(d) = {}
    /\ Start(d, IF definitions[d].kind = "template" THEN definitions[d].config ELSE 0)
    /\ UNCHANGED <<definitions, tick, edits, reopened>>

-----------------------------------------------------------------------------
(* UnpackMonitorService.trigger_due_definition *)

\* Mutant: an execution that is still being discovered does not count.
OverlapsMatched(d) == \E i \in Live(d) : executions[i].status # "DISCOVERING"

Overlaps(d) == Live(d) # {}

\* What is written, once everything is known: next_run_at goes on in any case.
Trigger(d, listed) ==
    /\ definitions' = [definitions EXCEPT ![d].next = "later", ![d].version = @ + 1]
    /\ IF Overlaps(d) THEN UNCHANGED executions
       ELSE Start(d, listed)

TriggerDirectory(d) ==
    /\ tick = NoTick /\ Due(d) /\ definitions[d].kind = "directory"
    /\ Trigger(d, 0)
    /\ UNCHANGED <<tick, edits, reopened>>

Load(d) ==
    /\ tick = NoTick /\ Due(d) /\ definitions[d].kind = "downloader"
    /\ tick' = [of |-> d, version |-> definitions[d].version,
                config |-> definitions[d].config]
    /\ UNCHANGED <<definitions, executions, edits, reopened>>

\* Mutant: it is enough that the definition is still due.
StillDue(d) == Due(d)

Unchanged(d) == Due(d) /\ definitions[d].version = tick.version

Listed ==
    /\ tick # NoTick /\ tick' = NoTick
    /\ IF Unchanged(tick.of) THEN Trigger(tick.of, tick.config)
       ELSE UNCHANGED <<definitions, executions>>
    /\ UNCHANGED <<edits, reopened>>

\* The downloader does not answer, or the process stops: still due, next tick.
NotListed ==
    /\ tick # NoTick /\ tick' = NoTick
    /\ UNCHANGED <<definitions, executions, edits, reopened>>

-----------------------------------------------------------------------------
(* Time, and the executions, which other modules describe *)

Pass(d) ==
    /\ definitions[d].there /\ definitions[d].next = "later"
    /\ definitions[d].version < MaxVersion
    /\ definitions' = [definitions EXCEPT ![d].next = "due"]
    /\ UNCHANGED <<executions, tick, edits, reopened>>

Moves == {<<"DISCOVERING", "MATCHING">>, <<"MATCHING", "WORKING">>,
          <<"WORKING", "COMPLETED">>, <<"DISCOVERING", "FAILED">>}

Advance(i, to) ==
    /\ <<executions[i].status, to>> \in Moves
    /\ executions' = [executions EXCEPT ![i].status = to]
    /\ UNCHANGED <<definitions, tick, edits, reopened>>

\* A retry of an item takes its execution up again, whatever else is running.
Reopen(i) ==
    /\ executions[i].status \in Ended \cup {"WORKING"} /\ reopened < MaxReopened
    /\ executions' = [executions EXCEPT ![i].status = "MATCHING"]
    /\ reopened' = reopened + 1
    /\ UNCHANGED <<definitions, tick, edits>>

-----------------------------------------------------------------------------

Init ==
    /\ definitions = [d \in Definitions |-> Absent]
    /\ executions = <<>> /\ tick = NoTick /\ edits = 0 /\ reopened = 0

Next ==
    \/ \E d \in Definitions :
          \/ \E kind \in Kinds, config \in Configs :
                Create(d, kind, config) \/ Update(d, kind, config)
          \/ Delete(d) \/ Enable(d) \/ Run(d)
          \/ TriggerDirectory(d) \/ Load(d) \/ Pass(d)
    \/ Listed \/ NotListed
    \/ \E i \in 1..Len(executions) :
          Reopen(i) \/ \E to \in {"MATCHING", "WORKING"} \cup Ended : Advance(i, to)

Spec == Init /\ [][Next]_vars

-----------------------------------------------------------------------------

TypeOK ==
    /\ definitions \in [Definitions -> Definition]
    /\ \A i \in 1..Len(executions) : executions[i] \in Execution
    /\ tick.of \in {"none"} \cup Definitions
    /\ edits \in 0..MaxEdits /\ reopened \in 0..MaxReopened

\* The frozen copy is of one piece: the torrents were listed for the source that is
\* frozen with them, although the definition may change while the list is awaited.
SnapshotIsWhole == \A i \in 1..Len(executions) :
    executions[i].listed # 0 => executions[i].listed = executions[i].config

\* What is enabled will run: it is a monitor and has a next time, also after an edit
\* that made it something else.
EnabledIsScheduled == \A d \in Definitions :
    definitions[d].there /\ definitions[d].status = "ENABLED"
        => definitions[d].kind \in Monitors /\ definitions[d].next # "none"

\* An execution has its definition: neither a deletion nor a monitor that was
\* waiting while its definition was deleted leaves one behind.
NoOrphans == \A i \in 1..Len(executions) :
    executions[i].status # "GONE" => definitions[executions[i].of].there

\* No execution starts beside another one of its definition; a retry may still
\* take up an older one later (unpack_item_actions.py:747).
StartsAlone == [][Len(executions') > Len(executions) =>
    Live(executions'[Len(executions')].of) = {}]_vars

=============================================================================
