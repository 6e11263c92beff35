----------------------------- MODULE DatabaseSwitch -----------------------------
(***************************************************************************)
(* The one database file, and the two that replace it: the start of an     *)
(* application with a newer schema (upgrades.py) and the restore of a      *)
(* backup (backups.py).  Both prepare a copy beside the file, rename it    *)
(* over the file, and then remove the write-ahead log that belonged to the *)
(* old file; what goes wrong after the rename is rolled back.              *)
(*                                                                         *)
(* SQLite is modelled by two facts: a reader sees the log if there is one, *)
(* and does not ask which file the log was written for.                    *)
(***************************************************************************)
EXTENDS Naturals, FiniteSets

CONSTANTS
    Revisions,     \* of the schema, in their order
    MaxCommits,    \* bound: commits of the application
    MaxFiles,      \* bound: files that are renamed over the database
    MaxFaults      \* bound: failures and kills

VARIABLES
    file,    \* the database file: which one it is and what was written into it
    log,     \* the -wal beside it, with the file it was written for
    app,     \* "down", "up", or "torn": open on another file's log
    code,    \* the schema the installed application expects
    saved,   \* the backups that have been taken
    switch,  \* the restore or upgrade that is under way
    held,    \* history: the commits of which one has to be found again
    cut,     \* history: the switch was killed, or gave up, between rename and removal
    faults

vars == <<file, log, app, code, saved, switch, held, cut, faults>>

None == [id |-> 0, commit |-> 0, rev |-> 0]
Data == [commit : 0..MaxCommits, rev : {0} \cup Revisions]
FileOrLog == [id : 0..MaxFiles, commit : 0..MaxCommits, rev : {0} \cup Revisions]
Steps == {"none", "begun", "saved", "prepared", "renamed", "cleaned",
          "undo", "undone", "undoneClean"}
Idle == [kind |-> "none", at |-> "none", source |-> [commit |-> 0, rev |-> 0],
         safety |-> [commit |-> 0, rev |-> 0]]

DataOf(f) == [commit |-> f.commit, rev |-> f.rev]
Torn == log # None /\ log.id # file.id
Seen == IF log # None THEN DataOf(log) ELSE DataOf(file)
Free == app = "down" /\ switch = Idle
At(step) == switch.at = step
Goto(step) == switch' = [switch EXCEPT !.at = step]
Newest == CHOOSE r \in Revisions : \A q \in Revisions : q <= r

-----------------------------------------------------------------------------
(* The application *)

Commit ==
    /\ app = "up" /\ Seen.commit < MaxCommits
    /\ log' = [id |-> file.id, commit |-> Seen.commit + 1, rev |-> Seen.rev]
    /\ held' = {Seen.commit + 1}
    /\ UNCHANGED <<file, app, code, saved, switch, cut, faults>>

\* The last connection that is closed puts the log into the file and removes it.
Close ==
    /\ app = "up" /\ app' = "down"
    /\ file' = [file EXCEPT !.commit = Seen.commit] /\ log' = None
    /\ UNCHANGED <<code, saved, switch, held, cut, faults>>

Install(rev) ==
    /\ Free /\ code' = rev /\ rev # code
    /\ UNCHANGED <<file, log, app, saved, switch, held, cut, faults>>

\* Mutant: the file is copied as a file.
SnapshotOfFile == DataOf(file)

\* create_consistent_backup reads through SQLite, so with the log.
Snapshot == Seen

TakeBackup ==
    /\ app = "up" \/ switch = Idle
    /\ file # None /\ ~Torn
    /\ saved' = saved \cup {Snapshot}
    /\ UNCHANGED <<file, log, app, code, switch, held, cut, faults>>

-----------------------------------------------------------------------------
(* upgrade_database_safely at the start, and restore_consistent_backup *)

OpenTorn ==
    /\ Free /\ Torn /\ app' = "torn"
    /\ UNCHANGED <<file, log, code, saved, switch, held, cut, faults>>

\* Mutant: a schema that is newer than expected is taken as it is.
OpenAnySchema ==
    /\ Free /\ file # None /\ ~Torn /\ Seen.rev >= code
    /\ app' = "up" /\ cut' = FALSE
    /\ UNCHANGED <<file, log, code, saved, switch, held, faults>>

Open ==
    /\ Free /\ file # None /\ ~Torn /\ Seen.rev = code
    /\ app' = "up" /\ cut' = FALSE
    /\ UNCHANGED <<file, log, code, saved, switch, held, faults>>

BeginUpgrade ==
    /\ Free /\ ~Torn /\ (file # None => Seen.rev # code)
    /\ switch' = [Idle EXCEPT !.kind = "upgrade", !.at = "begun"]
    /\ held' = {Seen.commit} /\ cut' = FALSE
    /\ UNCHANGED <<file, log, app, code, saved, faults>>

BeginRestore(backup) ==
    /\ Free /\ ~Torn
    /\ switch' = [Idle EXCEPT !.kind = "restore", !.at = "begun", !.source = backup]
    /\ held' = {Seen.commit, backup.commit} /\ cut' = FALSE
    /\ UNCHANGED <<file, log, app, code, saved, faults>>

\* The safety backup; an upgrade works on a copy of it.
Secure ==
    /\ At("begun")
    /\ switch' = [switch EXCEPT !.at = "saved",
                    !.safety = IF file = None THEN DataOf(None) ELSE Snapshot,
                    !.source = IF @ # DataOf(None) \/ file = None THEN @ ELSE Snapshot]
    /\ UNCHANGED <<file, log, app, code, saved, held, cut, faults>>

\* Copy and migrate; Alembic knows no way back from a newer schema.
Prepare ==
    /\ At("saved") /\ switch.source.rev <= code
    /\ switch' = [switch EXCEPT !.at = "prepared", !.source.rev = code]
    /\ UNCHANGED <<file, log, app, code, saved, held, cut, faults>>

Put(data) == file.id < MaxFiles /\ file' = [id |-> file.id + 1, commit |-> data.commit, rev |-> data.rev]

Rename ==
    /\ At("prepared") /\ Put(switch.source) /\ Goto("renamed")
    /\ UNCHANGED <<log, app, code, saved, held, cut, faults>>

Clean ==
    /\ At("renamed") /\ log' = None /\ Goto("cleaned")
    /\ UNCHANGED <<file, app, code, saved, held, cut, faults>>

\* The application goes on to start; a restore leaves it down.
Finish ==
    /\ At("cleaned") /\ switch' = Idle
    /\ app' = IF switch.kind = "upgrade" THEN "up" ELSE "down"
    /\ held' = {switch.source.commit}
    /\ UNCHANGED <<file, log, code, saved, cut, faults>>

\* What fails before the rename leaves everything as it was.
Refuse ==
    /\ \/ At("saved") /\ switch.source.rev > code /\ UNCHANGED faults
       \/ switch.at \in {"begun", "saved", "prepared"} /\ faults < MaxFaults /\ faults' = faults + 1
    /\ switch' = Idle /\ held' = {Seen.commit}
    /\ UNCHANGED <<file, log, app, code, saved, cut>>

\* What fails after it is rolled back.
FailAfter ==
    /\ switch.at \in {"renamed", "cleaned"}
    /\ faults < MaxFaults /\ faults' = faults + 1
    /\ Goto("undo")
    /\ UNCHANGED <<file, log, app, code, saved, held, cut>>

Undo ==
    /\ At("undo") /\ Goto("undone")
    /\ IF switch.safety = DataOf(None) THEN file' = None ELSE Put(switch.safety)
    /\ UNCHANGED <<log, app, code, saved, held, cut, faults>>

\* Mutant: the rollback forgets the log.
LeaveLog ==
    /\ At("undone") /\ Goto("undoneClean")
    /\ UNCHANGED <<file, log, app, code, saved, held, cut, faults>>

CleanUndone ==
    /\ At("undone") /\ log' = None /\ Goto("undoneClean")
    /\ UNCHANGED <<file, app, code, saved, held, cut, faults>>

Report ==
    /\ At("undoneClean") /\ switch' = Idle
    /\ held' = {switch.safety.commit}
    /\ UNCHANGED <<file, log, app, code, saved, cut, faults>>

\* `rolled back automatically' did not work either, and says so.
GiveUp ==
    /\ switch.at \in {"undo", "undone", "undoneClean"}
    /\ faults < MaxFaults /\ faults' = faults + 1
    /\ switch' = Idle /\ cut' = TRUE
    /\ UNCHANGED <<file, log, app, code, saved, held>>

Kill ==
    /\ app = "up" \/ switch # Idle
    /\ faults < MaxFaults /\ faults' = faults + 1
    /\ app' = "down" /\ switch' = Idle
    /\ cut' = (cut \/ switch.at \in {"renamed", "undo", "undone"})
    /\ UNCHANGED <<file, log, code, saved, held>>

-----------------------------------------------------------------------------

Init ==
    /\ file = None /\ log = None /\ app = "down"
    /\ code \in Revisions /\ saved = {} /\ switch = Idle
    /\ held = {0} /\ cut = FALSE /\ faults = 0

Next ==
    \/ Commit \/ Close \/ TakeBackup \/ \E rev \in Revisions : Install(rev)
    \/ OpenTorn \/ Open \/ BeginUpgrade \/ \E backup \in saved : BeginRestore(backup)
    \/ Secure \/ Prepare \/ Rename \/ Clean \/ Finish
    \/ Refuse \/ FailAfter \/ Undo \/ CleanUndone \/ Report \/ GiveUp \/ Kill

Spec == Init /\ [][Next]_vars

-----------------------------------------------------------------------------

TypeOK ==
    /\ file \in FileOrLog /\ log \in FileOrLog
    /\ app \in {"down", "up", "torn"} /\ code \in Revisions
    /\ saved \subseteq Data
    /\ switch \in [kind : {"none", "upgrade", "restore"}, at : Steps,
                   source : Data, safety : Data]
    /\ held \subseteq 0..MaxCommits /\ cut \in BOOLEAN /\ faults \in 0..MaxFaults

\* The switch is atomic: no application finds a file with the log of another one.
AtomicSwitch == app # "torn"

\* As far as the code sees to it: a switch that ends by itself, or that is killed
\* before the rename or after the removal, leaves file and log together.
SwitchedWhole == app = "torn" => cut

\* Nothing committed is lost: whatever fails, is rolled back or killed, the database
\* holds the commit it held before, or the one that is restored; once the outcome is
\* reported, exactly the one reported.
FoundAgain == ~Torn => Seen.commit \in held

\* The application runs on the schema it expects: not on a newer one after the image
\* went back, nor on an older one when an upgrade was killed.
RunsItsSchema == app = "up" => Seen.rev = code

=============================================================================
