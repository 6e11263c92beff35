--------------------------- MODULE BackupSchedule ---------------------------
(***************************************************************************)
(* Scheduled backups and their retention.  The driver and the maintenance  *)
(* command make backups in the same directory and remove old ones from it; *)
(* a backup is a pair of files, a database and its manifest.               *)
(*                                                                         *)
(* A step is one change of the directory or one transaction on the policy. *)
(* A backup may fail, its process may stop, and somebody may damage a      *)
(* file of the directory.                                                  *)
(***************************************************************************)
EXTENDS Naturals, FiniteSets

CONSTANTS
    MaxBackups,    \* bound: backups begun
    MaxDays,       \* bound: days that pass
    Retentions,    \* the days and the numbers of backups to keep that somebody asks for
    MaxPolicies,   \* bound: edits of the policy
    MaxFaults      \* bound: failures, stops, and files damaged by somebody

VARIABLES
    day,
    policy,    \* BackupPolicy
    archive,   \* the backups by the order of their timestamps
    runs,      \* what the driver and the command are at
    past,      \* history: whether one was complete, whether somebody damaged one, and stops
    faults

vars == <<day, policy, archive, runs, past, faults>>

Actors == {"driver", "command"}
Stems == 1..MaxBackups
Steps == {"idle", "due", "copied", "published", "retain", "remove", "half", "record"}
Pair == [database : {"none", "good", "damaged"}, manifest : BOOLEAN, at : 0..MaxDays]
NoPair == [database |-> "none", manifest |-> FALSE, at |-> 0]
Run == [step : Steps, keeps : Retentions, stem : 0..MaxBackups,
        plan : SUBSET Stems, blocked : BOOLEAN, failed : BOOLEAN]
AnyKeeps == CHOOSE k \in Retentions : TRUE
NoRun == [step |-> "idle", keeps |-> AnyKeeps, stem |-> 0, plan |-> {},
          blocked |-> FALSE, failed |-> FALSE]

Present(s) == archive[s].database # "none" \/ archive[s].manifest
\* verify_backup
Whole(s) == archive[s].database = "good" /\ archive[s].manifest
WholeOnes == {s \in Stems : Whole(s)}

Newest(s, set) == s \in set /\ \A t \in set : t <= s
NewerThan(s, set) == {t \in set : t > s}

At(a, step) == runs[a].step = step
Become(a, run) == runs' = [runs EXCEPT ![a] = run]
Goto(a, step) == Become(a, [runs[a] EXCEPT !.step = step])

-----------------------------------------------------------------------------
(* BackupScheduleService.update *)

EditPolicy(enabled, keeps) ==
    /\ policy.version <= MaxPolicies
    /\ policy' = [policy EXCEPT !.enabled = enabled, !.keeps = keeps, !.version = @ + 1]
    /\ UNCHANGED <<day, archive, runs, past, faults>>

-----------------------------------------------------------------------------
(* BackupDriver.run_once, and the commands of maintenance.py *)

Due == policy.enabled /\ (policy.success = 0 \/ day > policy.success - 1)

\* The driver works with the policy it reads here, whatever becomes of it.
BeginScheduled(force) ==
    /\ At("driver", "idle") /\ (force \/ Due)
    /\ Become("driver", [NoRun EXCEPT !.step = "due", !.keeps = policy.keeps])
    /\ UNCHANGED <<day, policy, archive, past, faults>>

BeginCommand ==
    /\ At("command", "idle")
    /\ Become("command", [NoRun EXCEPT !.step = "due"])
    /\ UNCHANGED <<day, policy, archive, past, faults>>

BeginRetention(keeps) ==
    /\ At("command", "idle")
    /\ Become("command", [NoRun EXCEPT !.step = "retain", !.keeps = keeps])
    /\ UNCHANGED <<day, policy, archive, past, faults>>

\* create_consistent_backup: the time stamp is taken, the files are written
\* under names of their own.
Copy(a) ==
    /\ At(a, "due") /\ past.last < MaxBackups
    /\ Become(a, [runs[a] EXCEPT !.step = "copied", !.stem = past.last + 1])
    /\ archive' = [archive EXCEPT ![past.last + 1].at = day]
    /\ past' = [past EXCEPT !.last = @ + 1]
    /\ UNCHANGED <<day, policy, faults>>

PublishDatabase(a) ==
    /\ At(a, "copied")
    /\ archive' = [archive EXCEPT ![runs[a].stem].database = "good"]
    /\ Goto(a, "published")
    /\ UNCHANGED <<day, policy, past, faults>>

\* The command ends here; the driver goes on to the retention.
PublishManifest(a) ==
    /\ At(a, "published")
    /\ archive' = [archive EXCEPT ![runs[a].stem].manifest = TRUE]
    /\ IF a = "driver" THEN Goto(a, "retain") ELSE Become(a, NoRun)
    /\ past' = [past EXCEPT !.complete = TRUE]
    /\ UNCHANGED <<day, policy, faults>>

\* Mutant: only the temporary files are removed.
CreateFailsLeavingDatabase(a) ==
    /\ runs[a].step \in {"copied", "published"} /\ faults < MaxFaults
    /\ UNCHANGED archive
    /\ policy' = IF a = "driver" THEN [policy EXCEPT !.error = "create"] ELSE policy
    /\ Become(a, NoRun) /\ faults' = faults + 1
    /\ UNCHANGED <<day, past>>

\* A database that was published goes again, with an error of the manifest.
CreateFails(a) ==
    /\ runs[a].step \in {"copied", "published"} /\ faults < MaxFaults
    /\ archive' = IF At(a, "published")
                  THEN [archive EXCEPT ![runs[a].stem].database = "none"] ELSE archive
    /\ policy' = IF a = "driver" THEN [policy EXCEPT !.error = "create"] ELSE policy
    /\ Become(a, NoRun) /\ faults' = faults + 1
    /\ UNCHANGED <<day, past>>

-----------------------------------------------------------------------------
(* plan_backup_retention and apply_backup_retention *)

\* Mutant: the backups to keep are counted before they are verified.
ProtectedUnverified(keep) ==
    LET all == {s \in Stems : Present(s)}
    IN  {s \in all : Cardinality(NewerThan(s, all)) < keep}

Protected(keep) ==
    {s \in WholeOnes : Cardinality(NewerThan(s, WholeOnes)) < keep}

Expired(days) == {s \in WholeOnes : archive[s].at + days < day}

\* What cannot be verified is reported and left alone.
Plan(a) ==
    /\ At(a, "retain")
    /\ Become(a, [runs[a] EXCEPT
           !.step = "remove",
           !.plan = Expired(runs[a].keeps.days) \ Protected(runs[a].keeps.keep),
           !.blocked = \E s \in Stems : Present(s) /\ ~Whole(s)])
    /\ UNCHANGED <<day, policy, archive, past, faults>>

\* Verified once more and still the file that was planned for.
RemoveDatabase(a) ==
    /\ At(a, "remove")
    /\ \E s \in Stems :
          /\ Newest(s, runs[a].plan) /\ Whole(s)
          /\ archive' = [archive EXCEPT ![s].database = "none"]
    /\ Goto(a, "half")
    /\ UNCHANGED <<day, policy, past, faults>>

RemoveManifest(a) ==
    /\ At(a, "half")
    /\ \E s \in Stems :
          /\ Newest(s, runs[a].plan) /\ archive[s].manifest
          /\ archive' = [archive EXCEPT ![s].manifest = FALSE]
          /\ Become(a, [runs[a] EXCEPT !.step = "remove", !.plan = @ \ {s}])
    /\ UNCHANGED <<day, policy, past, faults>>

\* What changed since the plan ends the retention with an error.
RetentionFails(a) ==
    /\ \E s \in Stems :
          /\ Newest(s, runs[a].plan)
          /\ \/ At(a, "remove") /\ ~Whole(s)
             \/ At(a, "half") /\ ~archive[s].manifest
    /\ Become(a, [runs[a] EXCEPT !.step = "record", !.failed = TRUE])
    /\ UNCHANGED <<day, policy, archive, past, faults>>

RetentionEnds(a) ==
    /\ At(a, "remove") /\ runs[a].plan = {}
    /\ Goto(a, "record")
    /\ UNCHANGED <<day, policy, archive, past, faults>>

\* Mutant: the success is recorded for the time of recording.
RecordNow(a) ==
    /\ At(a, "record")
    /\ policy' = IF a = "driver" THEN [policy EXCEPT !.success = day + 1, !.error = "none"]
                 ELSE policy
    /\ Become(a, NoRun)
    /\ UNCHANGED <<day, archive, past, faults>>

\* record_success; 0 is never, 1 the first day.  The command only prints.
Record(a) ==
    /\ At(a, "record")
    /\ policy' = IF a = "driver"
                 THEN [policy EXCEPT !.success = archive[runs[a].stem].at + 1,
                                     !.error = IF runs[a].failed THEN "retention"
                                               ELSE IF runs[a].blocked THEN "blocked"
                                               ELSE "none"]
                 ELSE policy
    /\ Become(a, NoRun)
    /\ UNCHANGED <<day, archive, past, faults>>

-----------------------------------------------------------------------------
(* The world around *)

Stop(a) ==
    /\ ~At(a, "idle") /\ faults < MaxFaults /\ faults' = faults + 1
    /\ past' = [past EXCEPT !.cut = @ \/ runs[a].step \in {"published", "half"}]
    /\ Become(a, NoRun)
    /\ UNCHANGED <<day, policy, archive>>

Tamper(s) ==
    /\ faults < MaxFaults /\ faults' = faults + 1 /\ Present(s)
    /\ \/ archive[s].database = "good"
          /\ \E d \in {"none", "damaged"} : archive' = [archive EXCEPT ![s].database = d]
       \/ archive[s].manifest /\ archive' = [archive EXCEPT ![s].manifest = FALSE]
    /\ past' = [past EXCEPT !.tampered = TRUE]
    /\ UNCHANGED <<day, policy, runs>>

Tomorrow ==
    /\ day < MaxDays /\ day' = day + 1
    /\ UNCHANGED <<policy, archive, runs, past, faults>>

-----------------------------------------------------------------------------

Init ==
    /\ day = 0
    /\ policy = [enabled |-> FALSE, keeps |-> AnyKeeps, version |-> 1, success |-> 0,
                 error |-> "none"]
    /\ archive = [s \in Stems |-> NoPair]
    /\ runs = [a \in Actors |-> NoRun]
    /\ past = [last |-> 0, complete |-> FALSE, tampered |-> FALSE, cut |-> FALSE]
    /\ faults = 0

Next ==
    \/ \E enabled \in BOOLEAN, keeps \in Retentions : EditPolicy(enabled, keeps)
    \/ \E force \in BOOLEAN : BeginScheduled(force)
    \/ BeginCommand
    \/ \E keeps \in Retentions : BeginRetention(keeps)
    \/ \E a \in Actors :
          \/ Copy(a) \/ PublishDatabase(a) \/ PublishManifest(a) \/ CreateFails(a)
          \/ Plan(a) \/ RemoveDatabase(a) \/ RemoveManifest(a)
          \/ RetentionFails(a) \/ RetentionEnds(a) \/ Record(a) \/ Stop(a)
    \/ \E s \in Stems : Tamper(s)
    \/ Tomorrow

Spec == Init /\ [][Next]_vars

-----------------------------------------------------------------------------

TypeOK ==
    /\ day \in 0..MaxDays /\ faults \in 0..MaxFaults
    /\ policy \in [enabled : BOOLEAN, keeps : Retentions, version : 1..(MaxPolicies + 1),
                   success : 0..(MaxDays + 1), error : {"none", "create", "blocked", "retention"}]
    /\ archive \in [Stems -> Pair] /\ runs \in [Actors -> Run]
    /\ past \in [last : 0..MaxBackups, complete : BOOLEAN, tampered : BOOLEAN,
                 cut : BOOLEAN]

\* Whatever plans run beside each other, once there was a complete backup there
\* always is one, unless somebody damages it (backups.py:293).
LastStands == past.complete /\ ~past.tampered => WholeOnes # {}

\* The last success the policy tells of is still there, or a newer one is
\* (backup_schedule.py:275).
SuccessIsBacked ==
    ~past.tampered /\ policy.success > 0
        => \E s \in WholeOnes : archive[s].at + 1 >= policy.success

\* Half a pair stays only where a process was stopped between its two files, or
\* somebody took the other one: an error cleans up behind itself (backups.py:171).
HalfOnlyByStop ==
    ~past.tampered /\ ~past.cut => \A s \in Stems :
        Present(s) /\ ~Whole(s)
            => \E a \in Actors : \/ At(a, "published") /\ runs[a].stem = s
                                 \/ At(a, "half") /\ Newest(s, runs[a].plan)

=============================================================================
