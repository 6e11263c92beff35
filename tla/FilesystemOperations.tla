------------------------- MODULE FilesystemOperations -------------------------
(***************************************************************************)
(* What one task of the engine does on disk: a hard link for every file of *)
(* its plan in a directory the task may have to make, the replacement of a *)
(* link by a copy with an inode of its own before a client repairs it, the *)
(* removal of that copy, and the rollback of links and directory.  Every   *)
(* effect has a row in the operation journal, committed before the effect  *)
(* and again after it.                                                     *)
(*                                                                         *)
(* FilesystemOperationService is called on the one event loop of the       *)
(* process and never awaits, so two calls do not overlap; the process may  *)
(* stop between any two durable steps, and a user (or the client that      *)
(* seeds the files) changes the same directory at any time.                *)
(***************************************************************************)
EXTENDS Naturals

CONSTANTS
    Files,         \* the files of the plan
    MaxCalls,      \* bound: calls of the service
    MaxFaults,     \* bound: calls cut short by a stop or by an I/O error
    MaxMeddling    \* bound: changes made by someone else

VARIABLES
    dir,       \* the directory below the target root: "made" by the task or "strange"
    at,        \* what each target path holds
    temp,      \* whether the temporary link of a file is there
    spare,     \* the temporary copy of a file: bare, owned (its row says so), full
    source,    \* each source file
    journal,   \* the operation rows
    gone,      \* the client has confirmed that it let go of the torrent
    call,      \* the call under way
    effects,   \* history: the rows whose directory or link was put there here
    budget

vars == <<dir, at, temp, spare, source, journal, gone, call, effects, budget>>
disk == <<dir, at, temp, spare, source, effects>>

Status == {"NONE", "INTENT_RECORDED", "APPLIED", "ROLLBACK_PENDING",
           "ROLLED_BACK", "RECONCILE_REQUIRED", "ROLLBACK_BLOCKED"}

\* A row: its status, and whether its after snapshot holds anything.  For an
\* isolation still at INTENT_RECORDED that is the identity of the temporary.
Row == [status : Status, proof : BOOLEAN]

\* One row for the directory; per file one for the link, one for the isolation
\* and one for the removal of the isolated copy.
DirRow == <<"dir">>
Rows == {DirRow} \cup ({"link", "isolate", "cleanup"} \X Files)

Ops == {"none", "link", "isolate", "cleanup", "rollback", "reconcile"}
Steps == {"none", "start", "look", "parents", "mkdir", "mkdir_done", "ready", "temp",
          "publish", "publish_done", "copy", "mark", "fill", "swap", "swap_done",
          "remove", "remove_done"}
Idle == [op |-> "none", step |-> "none", row |-> DirRow]

-----------------------------------------------------------------------------
(* The gateway's checks *)

There == dir # "absent"

\* A link row's snapshot names the inode, the size and the time of the source:
\* an edit of the source shows through the link.
LinkMatches(f) == There /\ at[f] = "link" /\ source[f] = "intact"

DirMatches == dir = "made"

\* inspect_hardlink: the source is as planned, and nothing stands at the target.
SourceOk(f) == source[f] = "intact"
TargetFree(f) == at[f] = "none"

\* The isolated copy is known by its inode, its length and the owner's mark on
\* it; a client may have written into it since.
OwnCopy(f) == at[f] \in {"copy", "repaired"}

Empty == \A f \in Files : at[f] = "none" /\ ~temp[f] /\ spare[f] = "none"

-----------------------------------------------------------------------------
(* The journal *)

Is(r, s) == journal[r].status = s
Set(r, s) == journal' = [journal EXCEPT ![r].status = s]
SetApplied(r) == journal' = [journal EXCEPT ![r] = [status |-> "APPLIED", proof |-> TRUE]]

\* record_intent: a new row, or the row that is there.
RecordIntent(r) ==
    journal' = IF Is(r, "NONE")
               THEN [journal EXCEPT ![r].status = "INTENT_RECORDED"]
               ELSE journal

At(op, step) == call.op = op /\ call.step = step
Goto(step) == call' = [call EXCEPT !.step = step]
End == call' = Idle
F == call.row[2]

Begin(op, r) ==
    /\ call = Idle
    /\ budget.calls < MaxCalls
    /\ budget' = [budget EXCEPT !.calls = @ + 1]
    /\ call' = [op |-> op, step |-> "start", row |-> r]
    /\ UNCHANGED <<disk, journal, gone>>

-----------------------------------------------------------------------------
(* execute_hardlink *)

ExecuteHardlink(f) == Begin("link", <<"link", f>>)

\* The directory's row is checked first: an applied one must still hold.
ValidateDirectory ==
    /\ At("link", "start")
    /\ IF Is(DirRow, "APPLIED") /\ ~DirMatches
       THEN Set(DirRow, "RECONCILE_REQUIRED") /\ End
       ELSE Goto("look") /\ UNCHANGED journal
    /\ UNCHANGED <<disk, gone, budget>>

\* Mutant: an applied link that is missing is made again.
ProveLinkOrRelink ==
    IF TargetFree(F)
    THEN Set(call.row, "INTENT_RECORDED") /\ Goto("parents")
    ELSE End /\ UNCHANGED journal

\* An applied link is proven again, and nothing is made.
ProveLink ==
    /\ IF SourceOk(F) /\ ~LinkMatches(F)
       THEN Set(call.row, "RECONCILE_REQUIRED")
       ELSE UNCHANGED journal
    /\ End

\* Mutant: a target that appeared after the intent is taken for our own.
AdoptTarget ==
    /\ IF Is(call.row, "INTENT_RECORDED") THEN SetApplied(call.row) ELSE UNCHANGED journal
    /\ End

\* A target that appeared after the intent was recorded is not taken for our own.
ConflictAtTarget ==
    /\ IF Is(call.row, "INTENT_RECORDED")
       THEN Set(call.row, "RECONCILE_REQUIRED")
       ELSE UNCHANGED journal
    /\ End

LookAtTarget ==
    /\ At("link", "look")
    /\ \/ Is(call.row, "APPLIED") /\ ProveLink
       \/ ~Is(call.row, "APPLIED") /\ SourceOk(F) /\ ~TargetFree(F) /\ ConflictAtTarget
       \/ ~Is(call.row, "APPLIED") /\ ~SourceOk(F) /\ End /\ UNCHANGED journal
       \/ /\ ~Is(call.row, "APPLIED") /\ SourceOk(F) /\ TargetFree(F)
          /\ Goto("parents") /\ UNCHANGED journal
    /\ UNCHANGED <<disk, gone, budget>>

\* The directory the target needs: a directory that is there and has no row is
\* used as it is, one that appeared after the intent has to be reconciled.
PrepareDirectory ==
    /\ At("link", "parents")
    /\ \/ /\ Is(DirRow, "APPLIED") \/ (Is(DirRow, "NONE") /\ There)
          /\ Goto("ready") /\ UNCHANGED journal
       \/ /\ Is(DirRow, "INTENT_RECORDED") /\ There
          /\ Set(DirRow, "RECONCILE_REQUIRED") /\ End
       \/ /\ journal[DirRow].status \in {"NONE", "INTENT_RECORDED"} /\ ~There
          /\ RecordIntent(DirRow) /\ Goto("mkdir")
       \/ /\ journal[DirRow].status \notin {"NONE", "INTENT_RECORDED", "APPLIED"}
          /\ End /\ UNCHANGED journal
    /\ UNCHANGED <<disk, gone, budget>>

CreateDirectory ==
    /\ At("link", "mkdir")
    /\ IF There
       THEN End /\ UNCHANGED <<dir, effects>>
       ELSE dir' = "made" /\ effects' = effects \cup {DirRow} /\ Goto("mkdir_done")
    /\ UNCHANGED <<at, temp, spare, source, journal, gone, budget>>

DirectoryApplied ==
    /\ At("link", "mkdir_done")
    /\ IF Is(DirRow, "INTENT_RECORDED")
       THEN SetApplied(DirRow) /\ Goto("ready")
       ELSE End /\ UNCHANGED journal
    /\ UNCHANGED <<disk, gone, budget>>

\* The second look, and the row of the link.
RecordLink ==
    /\ At("link", "ready")
    /\ IF /\ SourceOk(F) /\ There /\ TargetFree(F)
          /\ journal[call.row].status \in {"NONE", "INTENT_RECORDED"}
       THEN RecordIntent(call.row) /\ Goto("temp")
       ELSE End /\ UNCHANGED journal
    /\ UNCHANGED <<disk, gone, budget>>

\* A conflict at the target needs reconciling; any other refusal leaves the
\* intent for a later call.
Refuse ==
    /\ IF There /\ SourceOk(F) /\ ~TargetFree(F)
       THEN ConflictAtTarget
       ELSE End /\ UNCHANGED journal
    /\ UNCHANGED <<at, temp, effects>>

\* create_hardlink_atomic: the link under its temporary name, or the one a call
\* that was cut short has left.
LinkTemporary ==
    /\ At("link", "temp")
    /\ IF There /\ SourceOk(F) /\ TargetFree(F)
       THEN /\ temp' = [temp EXCEPT ![F] = TRUE]
            /\ Goto("publish") /\ UNCHANGED <<at, effects, journal>>
       ELSE Refuse
    /\ UNCHANGED <<dir, spare, source, gone, budget>>

\* The rename that replaces nothing.
Publish ==
    /\ At("link", "publish")
    /\ IF There /\ SourceOk(F) /\ TargetFree(F) /\ temp[F]
       THEN /\ at' = [at EXCEPT ![F] = "link"]
            /\ temp' = [temp EXCEPT ![F] = FALSE]
            /\ effects' = effects \cup {call.row}
            /\ Goto("publish_done") /\ UNCHANGED journal
       ELSE Refuse
    /\ UNCHANGED <<dir, spare, source, gone, budget>>

LinkApplied ==
    /\ At("link", "publish_done")
    /\ SetApplied(call.row) /\ End
    /\ UNCHANGED <<disk, gone, budget>>

-----------------------------------------------------------------------------
(* execute_repair_isolation *)

Isolate(f) == Is(<<"link", f>>, "APPLIED") /\ Begin("isolate", <<"isolate", f>>)

\* The proof the row of the isolation keeps between its intent and its end.
Owned == journal[call.row].proof

\* Nothing is recorded unless the target is the link and the temporary name is
\* free; an applied isolation is proven again, read only.
RecordIsolation ==
    /\ At("isolate", "start")
    /\ \/ /\ Is(call.row, "NONE")
          /\ IF LinkMatches(F) /\ spare[F] = "none"
             THEN RecordIntent(call.row) /\ Goto("copy")
             ELSE End /\ UNCHANGED journal
       \/ /\ Is(call.row, "INTENT_RECORDED")
          /\ Goto("copy") /\ UNCHANGED journal
       \/ /\ journal[call.row].status \notin {"NONE", "INTENT_RECORDED"}
          /\ End /\ UNCHANGED journal
    /\ UNCHANGED <<disk, gone, budget>>

Reconcile == Set(call.row, "RECONCILE_REQUIRED") /\ End

\* isolate_repair_target_atomic up to the temporary: a replacement that was
\* done before the process stopped is recognised, a temporary whose owner no
\* row names is refused.
TakeTemporary ==
    /\ At("isolate", "copy")
    /\ \/ /\ SourceOk(F) /\ Owned /\ at[F] = "copy" /\ spare[F] = "none"
          /\ Goto("swap_done") /\ UNCHANGED <<spare, journal>>
       \/ /\ LinkMatches(F) /\ spare[F] = "none"
          /\ spare' = [spare EXCEPT ![F] = "bare"]
          /\ Goto("mark") /\ UNCHANGED journal
       \/ /\ LinkMatches(F) /\ Owned /\ spare[F] \in {"owned", "full"}
          /\ Goto("fill") /\ UNCHANGED <<spare, journal>>
       \/ /\ ~(SourceOk(F) /\ Owned /\ at[F] = "copy" /\ spare[F] = "none")
          /\ ~(LinkMatches(F) /\ (spare[F] = "none" \/ (Owned /\ spare[F] # "bare")))
          /\ Reconcile /\ UNCHANGED spare
    /\ UNCHANGED <<dir, at, temp, source, effects, gone, budget>>

\* Mutant: the identity of the temporary is not kept.
MarkTemporaryUnrecorded ==
    /\ At("isolate", "mark")
    /\ spare' = [spare EXCEPT ![F] = "owned"]
    /\ Goto("fill")
    /\ UNCHANGED <<dir, at, temp, source, effects, journal, gone, budget>>

\* The mark on the inode, and its identity in the row, before a byte is copied.
MarkTemporary ==
    /\ At("isolate", "mark")
    /\ spare' = [spare EXCEPT ![F] = "owned"]
    /\ journal' = [journal EXCEPT ![call.row].proof = TRUE]
    /\ Goto("fill")
    /\ UNCHANGED <<dir, at, temp, source, effects, gone, budget>>

CopySource ==
    /\ At("isolate", "fill")
    /\ spare' = [spare EXCEPT ![F] = "full"]
    /\ Goto("swap")
    /\ UNCHANGED <<dir, at, temp, source, effects, journal, gone, budget>>

\* Source and target are looked at again, and the copy replaces the link.
ReplaceTarget ==
    /\ At("isolate", "swap")
    /\ IF LinkMatches(F) /\ spare[F] = "full"
       THEN /\ at' = [at EXCEPT ![F] = "copy"]
            /\ spare' = [spare EXCEPT ![F] = "none"]
            /\ Goto("swap_done") /\ UNCHANGED journal
       ELSE Reconcile /\ UNCHANGED <<at, spare>>
    /\ UNCHANGED <<dir, temp, source, effects, gone, budget>>

IsolationApplied ==
    /\ At("isolate", "swap_done")
    /\ SetApplied(call.row) /\ End
    /\ UNCHANGED <<disk, gone, budget>>

-----------------------------------------------------------------------------
(* cleanup_repair_target, only after the client has let go of the torrent *)

Cleanup(f) ==
    /\ Is(<<"isolate", f>>, "APPLIED") /\ Is(<<"link", f>>, "APPLIED") /\ gone
    /\ Begin("cleanup", <<"cleanup", f>>)

RecordCleanup ==
    /\ At("cleanup", "start")
    /\ IF journal[call.row].status \in {"NONE", "INTENT_RECORDED"}
       THEN RecordIntent(call.row) /\ Goto("remove")
       ELSE End /\ UNCHANGED journal
    /\ UNCHANGED <<disk, gone, budget>>

RemoveCopy ==
    /\ At("cleanup", "remove")
    /\ IF There /\ (TargetFree(F) \/ OwnCopy(F))
       THEN /\ at' = [at EXCEPT ![F] = "none"]
            /\ Goto("remove_done") /\ UNCHANGED journal
       ELSE Reconcile /\ UNCHANGED at
    /\ UNCHANGED <<dir, temp, spare, source, effects, gone, budget>>

CleanupApplied ==
    /\ At("cleanup", "remove_done")
    /\ SetApplied(call.row) /\ End
    /\ UNCHANGED <<disk, gone, budget>>

-----------------------------------------------------------------------------
(* rollback_journal, of a link or of the directory *)

Rollback(r) ==
    /\ r = DirRow \/ r[1] = "link"
    /\ journal[r].status \in {"APPLIED", "ROLLBACK_PENDING"}
    /\ Begin("rollback", r)

\* Mutant: the row says rolled back before anything is removed.
RollbackFirst ==
    /\ At("rollback", "start")
    /\ Set(call.row, "ROLLED_BACK") /\ Goto("remove")
    /\ UNCHANGED <<disk, gone, budget>>

\* Mutant: the row takes the status of the task.
RollbackUnknown ==
    /\ At("rollback", "start")
    /\ Set(call.row, "ROLLING_BACK") /\ Goto("remove")
    /\ UNCHANGED <<disk, gone, budget>>

RollbackPending ==
    /\ At("rollback", "start")
    /\ Set(call.row, "ROLLBACK_PENDING") /\ Goto("remove")
    /\ UNCHANGED <<disk, gone, budget>>

\* Mutant: the rollback removes whatever stands at the target.
RemoveAnyLink ==
    /\ At("rollback", "remove") /\ call.row # DirRow
    /\ at' = [at EXCEPT ![F] = "none"] /\ Goto("remove_done")
    /\ UNCHANGED <<dir, temp, spare, source, effects, journal, gone, budget>>

\* What is no longer there needs no removal; what is not ours is left, and the
\* row says so.
RemoveLink ==
    /\ At("rollback", "remove") /\ call.row # DirRow
    /\ \/ /\ ~There
          /\ End /\ UNCHANGED <<at, journal>>
       \/ /\ There /\ (TargetFree(F) \/ LinkMatches(F))
          /\ at' = [at EXCEPT ![F] = "none"]
          /\ Goto("remove_done") /\ UNCHANGED journal
       \/ /\ There /\ ~TargetFree(F) /\ ~LinkMatches(F)
          /\ Set(call.row, "ROLLBACK_BLOCKED") /\ End /\ UNCHANGED at
    /\ UNCHANGED <<dir, temp, spare, source, effects, gone, budget>>

RemoveDirectory ==
    /\ At("rollback", "remove") /\ call.row = DirRow
    /\ IF ~There \/ (DirMatches /\ Empty)
       THEN dir' = "absent" /\ Goto("remove_done") /\ UNCHANGED journal
       ELSE Set(call.row, "ROLLBACK_BLOCKED") /\ End /\ UNCHANGED dir
    /\ UNCHANGED <<at, temp, spare, source, effects, gone, budget>>

RolledBack ==
    /\ At("rollback", "remove_done")
    /\ Set(call.row, "ROLLED_BACK") /\ End
    /\ UNCHANGED <<disk, gone, budget>>

-----------------------------------------------------------------------------
(* reconcile_journal: a row whose effect can be proven again is applied *)

ReconcileJournal(r) ==
    /\ r = DirRow \/ r[1] = "link"
    /\ call = Idle /\ budget.calls < MaxCalls
    /\ Is(r, "RECONCILE_REQUIRED") /\ journal[r].proof
    /\ IF r = DirRow THEN DirMatches ELSE LinkMatches(r[2])
    /\ SetApplied(r)
    /\ budget' = [budget EXCEPT !.calls = @ + 1]
    /\ UNCHANGED <<disk, gone, call>>

-----------------------------------------------------------------------------
(* Stops, I/O errors, and the others *)

\* The process stops in the middle of a call, or a step of it fails without a
\* verdict: what is durable stays as it is.
Interrupted ==
    /\ call # Idle /\ budget.faults < MaxFaults
    /\ budget' = [budget EXCEPT !.faults = @ + 1]
    /\ End /\ UNCHANGED <<disk, journal, gone>>

\* An I/O error of an isolation or of a removal is a verdict.
Failed ==
    /\ budget.faults < MaxFaults
    /\ \/ /\ call.op = "isolate" /\ call.step \in {"copy", "mark", "fill", "swap", "swap_done"}
          /\ ~Is(call.row, "APPLIED") /\ Set(call.row, "RECONCILE_REQUIRED")
       \/ /\ At("cleanup", "remove") /\ Set(call.row, "RECONCILE_REQUIRED")
       \/ /\ At("rollback", "remove") /\ Set(call.row, "ROLLBACK_BLOCKED")
    /\ budget' = [budget EXCEPT !.faults = @ + 1]
    /\ End /\ UNCHANGED <<disk, gone>>

Meddle ==
    /\ budget.meddling < MaxMeddling
    /\ budget' = [budget EXCEPT !.meddling = @ + 1]
    /\ \/ /\ dir = "absent" /\ dir' = "strange"
          /\ UNCHANGED <<at, temp, spare, source>>
       \/ /\ There /\ Empty /\ dir' \in {"absent", "strange"}
          /\ UNCHANGED <<at, temp, spare, source>>
       \/ \E f \in Files :
          /\ There
          /\ at' = [at EXCEPT ![f] = IF @ = "none" THEN "strange" ELSE "none"]
          /\ UNCHANGED <<dir, temp, spare, source>>
       \/ \E f \in Files :
          /\ at[f] \in {"link", "copy", "repaired"}
          /\ at' = [at EXCEPT ![f] = "strange"]
          /\ UNCHANGED <<dir, temp, spare, source>>
       \/ \E f \in Files :
          /\ source[f] = "intact" /\ source' = [source EXCEPT ![f] = "edited"]
          /\ UNCHANGED <<dir, at, temp, spare>>
    /\ UNCHANGED <<journal, gone, call, effects>>

\* The client repairs a copy it was given, and one day lets go of the torrent.
ClientRepairs(f) ==
    /\ ~gone /\ Is(<<"isolate", f>>, "APPLIED") /\ at[f] = "copy"
    /\ at' = [at EXCEPT ![f] = "repaired"]
    /\ UNCHANGED <<dir, temp, spare, source, effects, journal, gone, call, budget>>

ClientLetsGo ==
    /\ ~gone /\ gone' = TRUE
    /\ UNCHANGED <<disk, journal, call, budget>>

-----------------------------------------------------------------------------
Init ==
    /\ dir \in {"absent", "strange"}
    /\ at = [f \in Files |-> "none"]
    /\ temp = [f \in Files |-> FALSE]
    /\ spare = [f \in Files |-> "none"]
    /\ source = [f \in Files |-> "intact"]
    /\ journal = [r \in Rows |-> [status |-> "NONE", proof |-> FALSE]]
    /\ gone = FALSE
    /\ call = Idle
    /\ effects = {}
    /\ budget = [calls |-> 0, faults |-> 0, meddling |-> 0]

Step ==
    \/ ValidateDirectory \/ LookAtTarget \/ PrepareDirectory \/ CreateDirectory
    \/ DirectoryApplied \/ RecordLink \/ LinkTemporary \/ Publish \/ LinkApplied
    \/ RecordIsolation \/ TakeTemporary \/ MarkTemporary \/ CopySource
    \/ ReplaceTarget \/ IsolationApplied
    \/ RecordCleanup \/ RemoveCopy \/ CleanupApplied
    \/ RollbackPending \/ RemoveLink \/ RemoveDirectory \/ RolledBack

Next ==
    \/ Step
    \/ \E f \in Files : ExecuteHardlink(f) \/ Isolate(f) \/ Cleanup(f)
    \/ \E r \in Rows : Rollback(r) \/ ReconcileJournal(r)
    \/ Interrupted \/ Failed \/ Meddle
    \/ \E f \in Files : ClientRepairs(f)
    \/ ClientLetsGo

Spec == Init /\ [][Next]_vars

-----------------------------------------------------------------------------
(* Properties *)

\* Every variable keeps its shape.
TypeOK ==
    /\ dir \in {"absent", "made", "strange"}
    /\ at \in [Files -> {"none", "link", "copy", "repaired", "strange"}]
    /\ temp \in [Files -> BOOLEAN]
    /\ spare \in [Files -> {"none", "bare", "owned", "full"}]
    /\ source \in [Files -> {"intact", "edited"}]
    /\ journal \in [Rows -> Row]
    /\ gone \in BOOLEAN
    /\ effects \subseteq Rows
    /\ call \in [op : Ops, step : Steps, row : Rows]
    /\ budget \in [calls : 0..MaxCalls, faults : 0..MaxFaults, meddling : 0..MaxMeddling]

\* The service removes or replaces nothing it did not put there: a strange file
\* or directory, and a file the client is repairing, change only by the hand of
\* others, or, for the copy, by a cleanup after the client let go.
OthersAreLeftAlone ==
    [][budget'.meddling = budget.meddling =>
          /\ dir = "strange" => dir' = "strange"
          /\ \A f \in Files :
             /\ at[f] = "strange" => at'[f] = "strange"
             /\ at[f] \in {"copy", "repaired"} /\ ~gone => at'[f] # "none"]_vars

\* A row says that its directory or link is done only if it was put there here:
\* no stop between an effect and its row, and no repeated call or reconciliation,
\* makes someone else's file ours to remove.
AppliedIsOurs ==
    \A r \in Rows :
        /\ r = DirRow \/ r[1] = "link"
        /\ journal[r].status \in {"APPLIED", "ROLLBACK_PENDING", "ROLLED_BACK"}
        => r \in effects

\* A file whose isolation is applied never again shares the inode of its source:
\* what the client writes does not reach the user's data.
IsolatedStaysApart ==
    \A f \in Files : Is(<<"isolate", f>>, "APPLIED") => at[f] # "link"

\* The row of an isolation knows the temporary before any byte is in it, and so
\* knows the copy at the target: after a stop at any point the copy is proven
\* or refused, never guessed.
CopyHasOwner ==
    \A f \in Files :
        spare[f] \in {"owned", "full"} \/ at[f] \in {"copy", "repaired"}
        => journal[<<"isolate", f>>].proof

\* What a rollback reports as undone is undone: the link is gone from the target
\* and stays gone, and its directory is not removed under another file.
RolledBackIsGone ==
    /\ \A f \in Files : Is(<<"link", f>>, "ROLLED_BACK") => at[f] # "link"
    /\ ~There => \A f \in Files : at[f] = "none" /\ ~temp[f] /\ spare[f] = "none"

=============================================================================
