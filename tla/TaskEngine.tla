----------------------------- MODULE TaskEngine -----------------------------
(***************************************************************************)
(* A task from the moment its files are linked: the driver's coroutine     *)
(* takes it through ADDING, CLIENT_VERIFYING and SEEDING to DONE, one      *)
(* stage at a time, each stage a call of DownloaderOperations followed by  *)
(* a compare-and-set of the task; a user cancels it, or releases a task    *)
(* that is DONE, from another coroutine at any await of the first.         *)
(*                                                                         *)
(* Linking and the rollback of its files do not await, so they are one     *)
(* step here; FilesystemOperations takes them apart.                       *)
(***************************************************************************)
EXTENDS DownloaderOperations

VARIABLES
    stage,      \* the task's status
    observed,   \* the checkpoint's checking_observed
    skip,       \* the add asks the client to skip its check (FULL_VERIFIED only)
    links,      \* the files linked for the task are in place
    plan        \* the cancellation that is frozen in the checkpoint

vars == <<kind, torrent, wire, answered, row, task, history, budget,
          stage, observed, skip, links, plan>>

engineVars == <<stage, observed, skip, links, plan>>

Stage == {"ADDING", "CLIENT_VERIFYING", "SEEDING", "DONE", "RETRY",
          "ROLLING_BACK", "CANCELLED"}

\* The options of the request, and whether there was an add row to remove.
Plan == [add : BOOLEAN, remove : BOOLEAN, rollback : BOOLEAN]
NoPlan == [add |-> FALSE, remove |-> FALSE, rollback |-> FALSE]
ReleasePlan == [add |-> Is("add", "APPLIED"), remove |-> TRUE, rollback |-> TRUE]

-----------------------------------------------------------------------------
(* The driver: one stage of the task at a time *)

StageOf == [add |-> "ADDING", check |-> "CLIENT_VERIFYING", start |-> "SEEDING"]
Driven == DOMAIN StageOf

\* The start of a torrent that was to be checked needs the applied check.
StageAuthorised(op) == op = "start" => Is("check", "APPLIED") \/ skip

Enter(op) ==
    /\ stage = StageOf[op] /\ \A o \in Driven : At(o, "idle")
    /\ Authorised(op) /\ StageAuthorised(op)
    /\ Begin(op)
    /\ UNCHANGED engineVars

\* A torrent that is there before the task has an add row is left alone: DONE.
FindExisting ==
    /\ At("add", "find")
    /\ IF torrent = Absent
       THEN Goto("add", "look") /\ UNCHANGED stage
       ELSE /\ End("add")
            /\ stage' = IF stage = "ADDING" THEN "DONE" ELSE stage
    /\ UNCHANGED <<kind, torrent, wire, answered, row, history, budget, observed, skip, links, plan>>

\* The stage commits what its call returned, if the task is still at that stage.
Commits(op) == At(op, "done") /\ End(op) /\ UNCHANGED <<kind, torrent, wire, answered, row, history, budget>>
Move(op, to) == stage' = IF stage = StageOf[op] THEN to ELSE stage

FinishAdd ==
    /\ Commits("add")
    /\ Move("add", IF skip THEN "SEEDING" ELSE "CLIENT_VERIFYING")
    /\ UNCHANGED <<observed, skip, links, plan>>

\* What the client was seen to do since the intent of the check: the journal's
\* snapshots, the checkpoint and the state the call returns.
Checking(t) == t.state = "checking"
CheckObserved == observed \/ Checking(task["check"].result) \/ Checking(row["check"].after)
\* Mutant: a torrent that is complete needs no other proof.
CompletionClaimed == TRUE

CompletionProven == CheckObserved \/ task["check"].result # row["check"].before

FinishCheck ==
    LET seen == task["check"].result
        verdict == IF Complete(seen) /\ CompletionProven THEN "SEEDING"
                   ELSE IF Incomplete(seen) /\ CheckObserved THEN "RETRY"
                   ELSE "CLIENT_VERIFYING"
    IN  /\ Commits("check")
        /\ Move("check", verdict)
        /\ observed' = IF stage = "CLIENT_VERIFYING" /\ seen.state # "active"
                       THEN CheckObserved ELSE observed
        /\ UNCHANGED <<skip, links, plan>>

FinishStart ==
    /\ Commits("start")
    /\ Move("start", "DONE")
    /\ UNCHANGED <<observed, skip, links, plan>>

-----------------------------------------------------------------------------
(* Cancellation and release: the torrent first, the files after it *)

\* An add whose outcome is open stops a cancellation; files are not rolled back
\* under a torrent that stays.
Allowed(p) ==
    /\ row["add"].status \in {"NONE", "APPLIED"}
    /\ p.add = Is("add", "APPLIED")
    /\ p.add /\ p.rollback => p.remove

Cancellable == {"ADDING", "CLIENT_VERIFYING", "SEEDING", "RETRY"}
Unlink(p) == links' = (links /\ ~p.rollback)

\* With nothing to remove the cancellation does not await: the task is CANCELLED
\* in the same step.
CancelAtOnce(p) ==
    /\ ~(p.add /\ p.remove)
    /\ stage' = "CANCELLED" /\ Unlink(p)
    /\ UNCHANGED downloaderVars

CancelRemoving(p) ==
    /\ p.add /\ p.remove
    /\ stage' = "ROLLING_BACK" /\ UNCHANGED links
    /\ UNCHANGED downloaderVars

Cancel ==
    \E p \in Plan :
        /\ stage \in Cancellable /\ Allowed(p)
        /\ plan' = p
        /\ CancelAtOnce(p) \/ CancelRemoving(p)
        /\ UNCHANGED <<observed, skip>>

\* The frozen removal, by the request that froze it or by the driver.
Remove ==
    /\ stage = "ROLLING_BACK" \/ (stage = "DONE" /\ ReleasePlan.add)
    /\ Authorised("remove")
    /\ Begin("remove")
    /\ plan' = IF stage = "DONE" THEN ReleasePlan ELSE plan
    /\ UNCHANGED <<stage, observed, skip, links>>

\* The files go when the removal has returned; then the task is CANCELLED, a
\* released one stays DONE.
FinishRemove ==
    /\ Commits("remove")
    /\ Unlink(plan)
    /\ stage' = IF stage = "ROLLING_BACK" THEN "CANCELLED" ELSE stage
    /\ UNCHANGED <<observed, skip, plan>>

\* A task that skipped a torrent that was there has only its files to release.
ReleaseFiles ==
    /\ stage = "DONE" /\ links /\ row["add"].status = "NONE"
    /\ Unlink(ReleasePlan) /\ plan' = ReleasePlan
    /\ UNCHANGED <<stage, observed, skip>> /\ UNCHANGED downloaderVars

-----------------------------------------------------------------------------

Init ==
    /\ DownloaderInit
    /\ stage = "ADDING" /\ observed = FALSE /\ links = TRUE /\ plan = NoPlan
    /\ skip \in IF kind = "qbittorrent" THEN BOOLEAN ELSE {FALSE}

Drive ==
    \/ \E op \in Driven : Enter(op)
    \/ FindExisting \/ FinishAdd \/ FinishCheck \/ FinishStart

Next ==
    \/ Drive
    \/ Cancel \/ Remove \/ FinishRemove \/ ReleaseFiles
    \/ (CallSteps \/ ClientSteps \/ Crash) /\ UNCHANGED engineVars

Spec == Init /\ [][Next]_vars

-----------------------------------------------------------------------------

TypeOK ==
    /\ DownloaderTypeOK
    /\ stage \in Stage /\ observed \in BOOLEAN /\ skip \in BOOLEAN
    /\ links \in BOOLEAN /\ plan \in Plan

\* A task reaches SEEDING only when its client has checked, or downloaded, every
\* piece after the check was asked for, unless the client was told to skip it:
\* whatever was lost, replayed or done by a user (task_client_verification.py).
\* (Unless an add whose answer was lost came through once more, so that the
\* torrent is not the one whose check was asked for.)
VerifiedReallyChecked ==
    stage = "SEEDING" => skip \/ history.checked \/ history.again

\* A check is an hour of disk reads: it is asked for once, and never again
\* because its answer was lost (downloader_operations.py:566).
CheckAskedOnce == history.asked <= 1

\* A torrent that was in the client before ours is not stopped, checked, started
\* or removed by a task that failed to add it (downloader_operations.py:265).
OthersUntouched == ~history.touched

\* A start never makes a torrent download over linked files, unless it was
\* changed in the client after the start was decided (downloader_operations.py:790).
StartWritesNothing == ~history.wrote

\* When a cancellation that removes the torrent has rolled the files back, no
\* torrent of ours is left in the client, and none arrives later.  (The same
\* exception: an add that was sent twice may come through after the removal.)
RemovedBeforeFiles ==
    plan.add /\ plan.remove /\ ~links => ~Ours(torrent) \/ history.again

\* A check is asked for once, and SEEDING means that it was made.
ChecksAreReal == TypeOK /\ VerifiedReallyChecked /\ CheckAskedOnce

\* Neither other torrents nor files under a torrent are harmed by a task.
NoHarmDone == OthersUntouched /\ StartWritesNothing /\ RemovedBeforeFiles

=============================================================================
