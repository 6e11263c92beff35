----------------------- MODULE UnpackMaterialization -----------------------
(***************************************************************************)
(* UnpackMaterializationService puts the files of a frozen execution plan  *)
(* in place: it creates the target directory, then links, copies or        *)
(* reuses the movie file, and hands the item over to seeding with the      *)
(* proof that every step was confirmed.  Each disk change is announced by  *)
(* a journal row, made with a temporary name and renameat2(NOREPLACE), and *)
(* confirmed in another transaction.                                       *)
(*                                                                         *)
(* A step is one transaction or one system call that another worker, a     *)
(* user of the disk, an API call or a crash can come between.              *)
(*                                                                         *)
(* Simplifications.  A plan has one movie file and one directory that all  *)
(* plans share (the case in which items meet); the storage mode is the     *)
(* same for all.  A file is what the program can tell of it: put there by  *)
(* its own rename with the planned content (own) or with a content read    *)
(* while the source changed (mixed), an equal file of someone else (twin:  *)
(* the same inode, an equal link, equal bytes), or another one (foreign).  *)
(***************************************************************************)
EXTENDS Naturals, FiniteSets

CONSTANTS
  Items,         \* items of the execution, by id
  Workers,       \* runs of materialize_next_batch that may overlap
  Modes,         \* storage modes of the plan to start with
  Window,        \* candidate rows a batch looks at (limit * 4)
  MaxEvents      \* crashes, retry and delete calls, acts of a user on the disk

ASSUME ItemsAssumption == Items \subseteq Nat /\ Items # {}
ASSUME WorkersAssumption == IsFiniteSet(Workers)
ASSUME ModesAssumption == Modes \subseteq {"HARDLINK", "SYMLINK", "COPY", "REUSE"}
ASSUME BoundsAssumption == Window \in Nat \ {0} /\ MaxEvents \in Nat

VARIABLES
  mode,          \* storage_mode of the plan; REUSE: reuse_target_snapshot is set
  status,        \* UnpackExecutionItem.status, with the stage of EXECUTING
  version,       \* the optimistic version of the item
  row,           \* file journal row of an item; of a deleted one, the audit copy
  dirRow,        \* the journal row of the directory, the item it belongs to, and
                 \* (history) whether one was deleted together with its item
  dir,           \* the directory on disk
  source,        \* source file of an item: "planned" or "changed"
  target, temp,  \* the final and the temporary name of an item
  made,          \* history: items whose file was put in place by a rename
  disturbed,     \* history: items whose disk state a user changed
  pc, local,     \* the workers
  budget

itemVars == <<status, version>>
rowVars == <<row, dirRow>>
diskVars == <<dir, source, target, temp, made, disturbed>>
vars == <<mode, status, version, row, dirRow, dir, source, target, temp, made,
          disturbed, pc, local, budget>>

Status == {"PLAN_PENDING", "MATERIALIZING", "FILES_MATERIALIZED",
           "EXECUTION_ERROR", "SEEDING", "MATCH_PENDING", "DELETED"}
RowStatus == {"NONE", "INTENT_RECORDED", "APPLIED", "RECONCILE_REQUIRED"}
FileState == {"absent", "own", "mixed", "twin", "foreign"}
Labels == {"idle", "reserve", "dirLook", "dirIntent", "mkdir", "dirConfirm",
           "fileIntent", "look", "recover", "place", "fill", "check",
           "publish", "rescue", "reuse", "confirm", "adopted", "finish",
           "mark", "fail"}

\* What a worker carries from one step to the next: the item and its version,
\* the journal status the intent transaction returned, the mark to commit; lost
\* when the directory it holds open is no longer the one under the path.
Local == [item : Items, ver : Nat, seen : RowStatus, lost : BOOLEAN,
          mark : {"none", "dirDrift", "dirUnknown", "fileDrift", "fileUnknown"}]

TypeOK ==
  /\ mode \in Modes
  /\ status \in [Items -> Status]
  /\ version \in [Items -> Nat]
  /\ row \in [Items -> RowStatus]
  /\ dirRow \in [st : RowStatus, owner : Items, gone : BOOLEAN]
  /\ dir \in {"absent", "own", "foreign"}
  /\ source \in [Items -> {"planned", "changed"}]
  /\ target \in [Items -> FileState]
  /\ temp \in [Items -> {"absent", "partial", "own", "mixed"}]
  /\ made \subseteq Items
  /\ disturbed \subseteq Items
  /\ pc \in [Workers -> Labels]
  /\ local \in [Workers -> Local]
  /\ budget \in Nat

Least == CHOOSE i \in Items : \A j \in Items : i <= j

Init ==
  /\ mode \in Modes
  /\ status = [i \in Items |-> "PLAN_PENDING"]
  /\ version = [i \in Items |-> 1]
  /\ row = [i \in Items |-> "NONE"]
  /\ dirRow = [st |-> "NONE", owner |-> Least, gone |-> FALSE]
  /\ dir = "absent"
  /\ source = [i \in Items |-> "planned"]
  /\ target = [i \in Items |-> IF mode = "REUSE" THEN "twin" ELSE "absent"]
  /\ temp = [i \in Items |-> "absent"]
  /\ made = {}
  /\ disturbed = {}
  /\ pc = [w \in Workers |-> "idle"]
  /\ local = [w \in Workers |->
                [item |-> Least, ver |-> 0, seen |-> "NONE", lost |-> FALSE,
                 mark |-> "none"]]
  /\ budget = MaxEvents

-----------------------------------------------------------------------------
(* Reading the database and the disk. *)

\* Mutant: rows of failed items stay in the window.
CandidateOrFailed(i) == status[i] \notin {"SEEDING", "MATCH_PENDING", "DELETED"}
\* PLAN_PENDING or EXECUTING; seeding keeps EXECUTING for a while.
Candidate(i) == status[i] \in {"PLAN_PENDING", "MATERIALIZING", "FILES_MATERIALIZED"}

InWindow(i) ==
  /\ Candidate(i)
  /\ Cardinality({j \in Items : Candidate(j) /\ j < i}) < Window

Claimable(i) == InWindow(i) /\ status[i] # "FILES_MATERIALIZED"

Exists(i) == status[i] # "DELETED"
RowOf(i) == IF Exists(i) THEN row[i] ELSE "NONE"

\* Mutant: the fence looks at the status only.
FencedByStatus(i, v) == status[i] # "DELETED"
\* The fence of _record_intent and _mark_materialized.
Fenced(i, v) == status[i] = "MATERIALIZING" /\ version[i] = v

\* The observations of inspect_repair_target and inspect_symlink_target.
IsPlanned(i) == target[i] \in {"own", "twin"}
SourceOk(i) == source[i] = "planned"

\* A HARDLINK is recognised by the source's inode, a COPY by the inode that
\* its own rename left, a reused file by the snapshot frozen in the plan.
Current(i) ==
  CASE mode = "HARDLINK" -> IsPlanned(i) /\ SourceOk(i)
    [] mode = "SYMLINK"  -> IsPlanned(i)
    [] mode = "COPY"     -> target[i] \in {"own", "mixed"}
    [] mode = "REUSE"    -> target[i] = "twin" /\ SourceOk(i)

\* assert_materialization_journals_applied
JournalsApplied(i) == dirRow.st = "APPLIED" /\ row[i] = "APPLIED"

\* assert_materialization_targets_current
TargetsCurrent(i) == dir = "own" /\ SourceOk(i) /\ Current(i)

-----------------------------------------------------------------------------
(* Steps of a worker. *)

Goto(w, label) == pc' = [pc EXCEPT ![w] = label]

\* The worker goes on with one more thing to remember.
Keep(w, label, l) ==
  /\ Goto(w, label)
  /\ local' = [local EXCEPT ![w] = l]

\* _mark_reconcile with this code, then the error is raised.
MarkThenFail(w, mark) == Keep(w, "mark", [local[w] EXCEPT !.mark = mark])

\* _list_item_ids; an id is listed before the worker gets to it.
List(w, i) ==
  /\ pc[w] = "idle"
  /\ Claimable(i)
  /\ Keep(w, "reserve", [item |-> i, ver |-> version[i], seen |-> "NONE",
                         lost |-> FALSE, mark |-> "none"])
  /\ UNCHANGED <<mode, itemVars, rowVars, diskVars, budget>>

\* _reserve_and_load_plan, _stage and _assert_plan_target_current.
Reserve(w) ==
  LET i == local[w].item IN
  /\ pc[w] = "reserve"
  /\ CASE status[i] = "PLAN_PENDING" ->
            /\ status' = [status EXCEPT ![i] = "MATERIALIZING"]
            /\ version' = [version EXCEPT ![i] = @ + 1]
            /\ Keep(w, "dirLook", [local[w] EXCEPT !.ver = version[i] + 1])
       [] status[i] = "MATERIALIZING" ->
            /\ Keep(w, "dirLook", [local[w] EXCEPT !.ver = version[i]])
            /\ UNCHANGED itemVars
       [] status[i] = "FILES_MATERIALIZED" ->
            Goto(w, "idle") /\ UNCHANGED <<itemVars, local>>
       [] OTHER -> Goto(w, "fail") /\ UNCHANGED <<itemVars, local>>
  /\ UNCHANGED <<mode, rowVars, diskVars, budget>>

\* The shared row is read without a transaction, then the directory is looked
\* at; a directory that no row explains is never taken over.
LookAtDirectory(w) ==
  /\ pc[w] = "dirLook"
  /\ \/ dirRow.st = "NONE" /\ dir = "absent" /\ Goto(w, "dirIntent") /\ UNCHANGED local
     \/ dirRow.st = "NONE" /\ dir # "absent" /\ Goto(w, "fail") /\ UNCHANGED local
     \/ dirRow.st \notin {"NONE", "APPLIED"} /\ Goto(w, "fail") /\ UNCHANGED local
     \/ dirRow.st = "APPLIED" /\ dir = "own" /\ Goto(w, "fileIntent") /\ UNCHANGED local
     \/ dirRow.st = "APPLIED" /\ dir # "own" /\ MarkThenFail(w, "dirDrift")
  /\ UNCHANGED <<mode, itemVars, rowVars, diskVars, budget>>

\* _record_intent for the directory; a row of another plan is a conflict, and
\* a row of the same plan that is not APPLIED does not stop the mkdir.
RecordDirectoryIntent(w) ==
  LET i == local[w].item IN
  /\ pc[w] = "dirIntent"
  /\ \/ /\ ~Fenced(i, local[w].ver) \/ (dirRow.st # "NONE" /\ dirRow.owner # i)
        /\ Goto(w, "fail") /\ UNCHANGED <<dirRow, local>>
     \/ /\ Fenced(i, local[w].ver) /\ dirRow.st = "NONE"
        /\ dirRow' = [dirRow EXCEPT !.st = "INTENT_RECORDED", !.owner = i]
        /\ Goto(w, "mkdir") /\ UNCHANGED local
     \/ /\ Fenced(i, local[w].ver) /\ dirRow.st # "NONE" /\ dirRow.owner = i
        /\ IF dirRow.st # "APPLIED" THEN Goto(w, "mkdir") /\ UNCHANGED local
           ELSE IF dir = "own" THEN Goto(w, "fileIntent") /\ UNCHANGED local
           ELSE MarkThenFail(w, "dirDrift")
        /\ UNCHANGED dirRow
  /\ UNCHANGED <<mode, itemVars, row, diskVars, budget>>

\* create_directory: mkdir of one level, refused when the name exists.
MakeDirectory(w) ==
  /\ pc[w] = "mkdir"
  /\ \/ /\ dir = "absent"
        /\ dir' = "own"
        /\ Goto(w, "dirConfirm") /\ UNCHANGED local
     \/ dir # "absent" /\ MarkThenFail(w, "dirUnknown") /\ UNCHANGED dir
  /\ UNCHANGED <<mode, itemVars, rowVars, source, target, temp, made, disturbed, budget>>

\* _mark_applied for the directory row.
ConfirmDirectory(w) ==
  /\ pc[w] = "dirConfirm"
  /\ \/ /\ dirRow.st = "INTENT_RECORDED" /\ dirRow.owner = local[w].item
        /\ dirRow' = [dirRow EXCEPT !.st = "APPLIED"]
        /\ Goto(w, "fileIntent")
     \/ /\ dirRow.st = "APPLIED" /\ dirRow.owner = local[w].item
        /\ Goto(w, "fileIntent") /\ UNCHANGED dirRow
     \/ /\ dirRow.st \in {"NONE", "RECONCILE_REQUIRED"} \/ dirRow.owner # local[w].item
        /\ Goto(w, "fail") /\ UNCHANGED dirRow
  /\ UNCHANGED <<mode, itemVars, row, diskVars, local, budget>>

\* _record_intent for the file.  The status it returns goes stale at once.
RecordFileIntent(w) ==
  LET i == local[w].item IN
  /\ pc[w] = "fileIntent"
  /\ \/ ~Fenced(i, local[w].ver) /\ Goto(w, "fail") /\ UNCHANGED <<row, local>>
     \/ /\ Fenced(i, local[w].ver) /\ row[i] = "NONE"
        /\ row' = [row EXCEPT ![i] = "INTENT_RECORDED"]
        /\ Keep(w, IF mode = "REUSE" THEN "reuse" ELSE "place",
                [local[w] EXCEPT !.seen = "INTENT_RECORDED"])
     \/ /\ Fenced(i, local[w].ver) /\ row[i] # "NONE"
        /\ Keep(w, IF mode = "REUSE" THEN "reuse"
                   ELSE IF row[i] = "APPLIED" THEN "look" ELSE "recover",
                [local[w] EXCEPT !.seen = row[i]])
        /\ UNCHANGED row
  /\ UNCHANGED <<mode, itemVars, dirRow, diskVars, budget>>

\* _assert_applied_materialization_current; a changed source of a HARDLINK
\* raises before anything is marked.
LookAtApplied(w) ==
  LET i == local[w].item IN
  /\ pc[w] = "look"
  /\ IF Current(i) THEN Goto(w, "finish") /\ UNCHANGED local
     ELSE IF mode = "HARDLINK" /\ ~SourceOk(i) THEN Goto(w, "fail") /\ UNCHANGED local
     ELSE MarkThenFail(w, "fileDrift")
  /\ UNCHANGED <<mode, itemVars, rowVars, diskVars, budget>>

\* Mutant: an equal file is proof enough for a copy too.
ProvesPlacedByContent(i) == IsPlanned(i)
ProvesPlaced(i) == mode # "COPY" /\ IsPlanned(i)

\* _recover_materialization of a row that was there already: what is on disk
\* may prove that an earlier attempt succeeded.  A copy proves nothing.
Recover(w) ==
  LET i == local[w].item IN
  /\ pc[w] = "recover"
  /\ \/ /\ \/ local[w].seen = "RECONCILE_REQUIRED"
           \/ mode = "HARDLINK" /\ ~SourceOk(i)
        /\ Goto(w, "fail") /\ UNCHANGED local
     \/ /\ local[w].seen # "RECONCILE_REQUIRED"
        /\ mode = "HARDLINK" => SourceOk(i)
        /\ IF ProvesPlaced(i) THEN Goto(w, "confirm") /\ UNCHANGED local
           ELSE IF mode = "COPY" /\ target[i] # "absent" THEN MarkThenFail(w, "fileDrift")
           ELSE Goto(w, "place") /\ UNCHANGED local
  /\ UNCHANGED <<mode, itemVars, rowVars, diskVars, budget>>

\* create_*_atomic up to the temporary name.  A link under that name that is
\* the planned one is reused, a copy never is.
Place(w) ==
  LET i == local[w].item
      clear == SourceOk(i) /\ target[i] = "absent" /\ (mode = "COPY" => temp[i] = "absent")
  IN
  /\ pc[w] = "place"
  /\ \/ dir = "absent" /\ Goto(w, "fail") /\ UNCHANGED temp
     \/ /\ dir # "absent" /\ clear
        /\ temp' = [temp EXCEPT ![i] = IF mode = "COPY" THEN "partial" ELSE "own"]
        /\ Goto(w, IF mode = "COPY" THEN "fill" ELSE "check")
     \/ dir # "absent" /\ ~clear /\ Goto(w, "rescue") /\ UNCHANGED temp
  /\ UNCHANGED <<mode, itemVars, rowVars, dir, source, target, made, disturbed, local, budget>>

\* Mutant: the copy is taken for finished before it is.
CopiedHalf(i) == "partial"
Copied(i) == IF SourceOk(i) THEN "own" ELSE "mixed"

\* _copy_fd and fsync: the bytes are the planned ones unless the source changed
\* under the copy.
Fill(w) ==
  LET i == local[w].item IN
  /\ pc[w] = "fill"
  /\ temp' = [temp EXCEPT ![i] = IF local[w].lost THEN @ ELSE Copied(i)]
  /\ Goto(w, "check")
  /\ UNCHANGED <<mode, itemVars, rowVars, dir, source, target, made, disturbed, local, budget>>

\* Mutant: only the names are looked at.
CleanNames(i, lost) == lost \/ (target[i] = "absent" /\ temp[i] # "absent")
Clean(i, lost) ==
  SourceOk(i) /\ (lost \/ (target[i] = "absent" /\ temp[i] # "absent"))

\* The source snapshot and the target name are looked at once more.
CheckAgain(w) ==
  LET i == local[w].item IN
  /\ pc[w] = "check"
  /\ Goto(w, IF Clean(i, local[w].lost) THEN "publish" ELSE "rescue")
  /\ UNCHANGED <<mode, itemVars, rowVars, diskVars, local, budget>>

\* Mutant: a plain rename.
RenameReplacing(i) == temp[i] # "absent"
Renames(i) == temp[i] # "absent" /\ target[i] = "absent"

\* _rename_noreplace
Publish(w) ==
  LET i == local[w].item IN
  /\ pc[w] = "publish"
  /\ \/ /\ ~local[w].lost /\ Renames(i)
        /\ target' = [target EXCEPT ![i] = temp[i]]
        /\ temp' = [temp EXCEPT ![i] = "absent"]
        /\ made' = made \cup {i}
        /\ Goto(w, "confirm")
     \/ /\ local[w].lost
        /\ made' = made \cup {i}
        /\ Goto(w, "confirm")
        /\ UNCHANGED <<target, temp>>
     \/ /\ ~local[w].lost /\ ~Renames(i)
        /\ Goto(w, "rescue")
        /\ UNCHANGED <<target, temp, made>>
  /\ UNCHANGED <<mode, itemVars, rowVars, dir, source, disturbed, local, budget>>

\* The except branch of _materialize_one: even when the disk proves the planned
\* state the error is raised again.
Rescue(w) ==
  LET i == local[w].item IN
  /\ pc[w] = "rescue"
  /\ IF mode = "HARDLINK" /\ ~SourceOk(i) THEN Goto(w, "fail") /\ UNCHANGED local
     ELSE IF ProvesPlaced(i) THEN Goto(w, "adopted") /\ UNCHANGED local
     ELSE IF mode = "COPY" /\ target[i] # "absent" THEN MarkThenFail(w, "fileDrift")
     ELSE MarkThenFail(w, "fileUnknown")
  /\ UNCHANGED <<mode, itemVars, rowVars, diskVars, budget>>

\* _reuse_existing after its intent: no file is written.
Reuse(w) ==
  LET i == local[w].item IN
  /\ pc[w] = "reuse"
  /\ IF local[w].seen = "RECONCILE_REQUIRED" THEN Goto(w, "fail") /\ UNCHANGED local
     ELSE IF ~Current(i) THEN MarkThenFail(w, "fileDrift")
     ELSE /\ Goto(w, IF local[w].seen = "APPLIED" THEN "finish" ELSE "confirm")
          /\ UNCHANGED local
  /\ UNCHANGED <<mode, itemVars, rowVars, diskVars, budget>>

\* Mutant: a late success overrides a reconciliation request.
AppliedAnyway(i) == IF Exists(i) THEN [row EXCEPT ![i] = "APPLIED"] ELSE row
\* _mark_applied for the file row.
Applied(i) == IF RowOf(i) = "INTENT_RECORDED" THEN [row EXCEPT ![i] = "APPLIED"] ELSE row

ConfirmFile(w) ==
  LET i == local[w].item IN
  /\ pc[w] \in {"confirm", "adopted"}
  /\ row' = Applied(i)
  /\ Goto(w, IF pc[w] = "confirm" /\ RowOf(i) \in {"INTENT_RECORDED", "APPLIED"}
             THEN "finish" ELSE "fail")
  /\ UNCHANGED <<mode, itemVars, dirRow, diskVars, local, budget>>

\* Mutant: every code reopens.
ReopenedByAll(st, drift) == IF st = "NONE" THEN st ELSE "RECONCILE_REQUIRED"
\* _mark_reconcile.  Only codes of _APPLIED_FILESYSTEM_DRIFT_CODES reopen a row
\* that is APPLIED.
Reopened(st, drift) ==
  IF st = "INTENT_RECORDED" \/ (drift /\ st = "APPLIED") THEN "RECONCILE_REQUIRED" ELSE st

MarkReconcile(w) ==
  LET i == local[w].item
      m == local[w].mark
  IN
  /\ pc[w] = "mark"
  /\ IF m \in {"fileDrift", "fileUnknown"}
     THEN /\ row' = IF Exists(i)
                    THEN [row EXCEPT ![i] = Reopened(@, m = "fileDrift")] ELSE row
          /\ UNCHANGED dirRow
     ELSE /\ dirRow' = [dirRow EXCEPT !.st = Reopened(@, m = "dirDrift")]
          /\ UNCHANGED row
  /\ Keep(w, "fail", [local[w] EXCEPT !.mark = "none"])
  /\ UNCHANGED <<mode, itemVars, diskVars, budget>>

\* _mark_materialized: the gate to seeding.
Finish(w) ==
  LET i == local[w].item IN
  /\ pc[w] = "finish"
  /\ \/ /\ Fenced(i, local[w].ver) /\ JournalsApplied(i)
        /\ status' = [status EXCEPT ![i] = "FILES_MATERIALIZED"]
        /\ version' = [version EXCEPT ![i] = @ + 1]
        /\ Goto(w, "idle")
     \/ /\ ~(Fenced(i, local[w].ver) /\ JournalsApplied(i))
        /\ Goto(w, "fail") /\ UNCHANGED itemVars
  /\ UNCHANGED <<mode, rowVars, diskVars, local, budget>>

\* _mark_error, fenced by the version this worker reserved.
MarkError(w) ==
  LET i == local[w].item IN
  /\ pc[w] = "fail"
  /\ \/ /\ status[i] \in {"PLAN_PENDING", "MATERIALIZING"} /\ version[i] = local[w].ver
        /\ status' = [status EXCEPT ![i] = "EXECUTION_ERROR"]
        /\ version' = [version EXCEPT ![i] = @ + 1]
     \/ /\ status[i] \notin {"PLAN_PENDING", "MATERIALIZING"} \/ version[i] # local[w].ver
        /\ UNCHANGED itemVars
  /\ Goto(w, "idle")
  /\ UNCHANGED <<mode, rowVars, diskVars, local, budget>>

WorkerStep(w) ==
  \/ Reserve(w) \/ LookAtDirectory(w) \/ RecordDirectoryIntent(w) \/ MakeDirectory(w)
  \/ ConfirmDirectory(w) \/ RecordFileIntent(w) \/ LookAtApplied(w) \/ Recover(w)
  \/ Place(w) \/ Fill(w) \/ CheckAgain(w) \/ Publish(w) \/ Rescue(w) \/ Reuse(w)
  \/ ConfirmFile(w) \/ MarkReconcile(w) \/ Finish(w) \/ MarkError(w)

-----------------------------------------------------------------------------
(* The seeding service, API calls, crashes, and other users of the disk. *)

Event == budget > 0 /\ budget' = budget - 1

\* UnpackSeedingService checks the proof again before it touches a downloader.
Seed(i) ==
  /\ status[i] = "FILES_MATERIALIZED"
  /\ status' = [status EXCEPT ![i] =
       IF JournalsApplied(i) /\ TargetsCurrent(i) THEN "SEEDING" ELSE "EXECUTION_ERROR"]
  /\ version' = [version EXCEPT ![i] = @ + 1]
  /\ UNCHANGED <<mode, rowVars, diskVars, pc, local, budget>>

\* _retry_failed_execution_item: only an item without rows starts over.
Retry(i) ==
  /\ status[i] = "EXECUTION_ERROR"
  /\ row[i] = "NONE" /\ (dirRow.st = "NONE" \/ dirRow.owner # i)
  /\ Event
  /\ status' = [status EXCEPT ![i] = "MATCH_PENDING"]
  /\ version' = [version EXCEPT ![i] = @ + 1]
  /\ UNCHANGED <<mode, rowVars, diskVars, pc, local>>

\* delete_item archives the item's rows and removes them, the row of the shared
\* directory included when it is this item's.
Delete(i) ==
  /\ status[i] \notin {"MATCH_PENDING", "DELETED"}
  /\ Event
  /\ status' = [status EXCEPT ![i] = "DELETED"]
  /\ dirRow' = IF dirRow.owner = i /\ dirRow.st # "NONE"
               THEN [dirRow EXCEPT !.st = "NONE", !.gone = TRUE] ELSE dirRow
  /\ UNCHANGED <<mode, version, row, diskVars, pc, local>>

Crash(w) ==
  /\ pc[w] # "idle"
  /\ Event
  /\ Goto(w, "idle")
  /\ UNCHANGED <<mode, itemVars, rowVars, diskVars, local>>

\* A user puts, replaces or removes a file, or replaces a source.
MeddleFile(i) ==
  /\ Event
  /\ dir # "absent"
  /\ \E f \in {"absent", "twin", "foreign"} \ {target[i]} :
       target' = [target EXCEPT ![i] = f]
  /\ disturbed' = disturbed \cup {i}
  /\ UNCHANGED <<mode, itemVars, rowVars, dir, source, temp, made, pc, local>>

MeddleSource(i) ==
  /\ Event
  /\ source[i] = "planned"
  /\ source' = [source EXCEPT ![i] = "changed"]
  /\ disturbed' = disturbed \cup {i}
  /\ UNCHANGED <<mode, itemVars, rowVars, dir, target, temp, made, pc, local>>

\* The directory is created by someone else, or moved away and replaced by an
\* empty one; workers that opened it go on in the old one.
MeddleDirectory ==
  /\ Event
  /\ mode # "REUSE"
  /\ dir' = "foreign"
  /\ target' = [i \in Items |-> "absent"]
  /\ temp' = [i \in Items |-> "absent"]
  /\ disturbed' = Items
  /\ local' = [w \in Workers |->
       [local[w] EXCEPT !.lost = @ \/ pc[w] \in {"fill", "check", "publish"}]]
  /\ UNCHANGED <<mode, itemVars, rowVars, source, made, pc>>

World ==
  \/ \E i \in Items : \/ Seed(i) \/ Retry(i) \/ Delete(i)
                      \/ MeddleFile(i) \/ MeddleSource(i)
  \/ \E w \in Workers : Crash(w)
  \/ MeddleDirectory

Next ==
  \/ \E w \in Workers : WorkerStep(w) \/ \E i \in Items : List(w, i)
  \/ World

Spec == Init /\ [][Next]_vars

\* The driver polls for ever; one batch takes every claimable row it listed,
\* and seeding is polled by the same driver.
FairSpec ==
  /\ Spec
  /\ \A w \in Workers : WF_vars(WorkerStep(w))
  /\ \A i \in Items : WF_vars(\E w \in Workers : List(w, i)) /\ WF_vars(Seed(i))

-----------------------------------------------------------------------------
(* Properties *)

\* What stands under the final name by the program's own hand is the file the
\* plan froze, never one that was read while its source changed, although the
\* copy, the last look at the source and the rename are separate system calls.
PublishedWhole == \A i \in Items : target[i] # "mixed"

Meddled == MeddleDirectory \/ \E i \in Items : MeddleFile(i) \/ MeddleSource(i)

\* The program never changes or removes what it finds under a final name; only
\* a user's act does.
NothingReplaced ==
  [][~Meddled =>
       \A i \in Items : target[i] # "absent" => target'[i] = target[i]]_vars

\* A copy is confirmed only when the program put it there itself: an equal file
\* of someone else, or one left by a lost answer, is not adopted.
CopyIsOwn ==
  mode = "COPY" => \A i \in Items : row[i] = "APPLIED" => i \in made

\* A file the program put in place is known to a row, live or archived, even
\* when the item was retried, deleted or given up meanwhile.
EffectIsRecorded ==
  \A i \in Items : i \in made =>
    row[i] # "NONE" /\ status[i] # "MATCH_PENDING"

\* The proof seeding relies on: as long as nobody else touched the disk of an
\* item that left with its files in place, its rows still say APPLIED and the
\* disk still agrees with them.  (One worker, or a mode in which the disk tells
\* whose file it is.  When the item that owns the directory's row is deleted the
\* row goes with it, and a worker that was about to record its intent for the
\* directory then makes a row of its own: the proof of the others is lost.)
ProofStands ==
  \A i \in Items :
    /\ status[i] = "FILES_MATERIALIZED" /\ i \notin disturbed
    /\ mode # "COPY" \/ Cardinality(Workers) = 1
    /\ ~dirRow.gone
    => JournalsApplied(i) /\ TargetsCurrent(i)

\* What is on disk is whole and, where it was copied, the program's own.
PlacedIsSound == TypeOK /\ PublishedWhole /\ CopyIsOwn

\* The rows know what was placed, and what they prove is there.
RowsAreTrue == EffectIsRecorded /\ ProofStands

\* Comment in front of _APPLIED_FILESYSTEM_DRIFT_CODES: a late failure of another
\* worker cannot undo an operation that was proven APPLIED.
AppliedIsKept ==
  [][\A i \in Items :
       row[i] = "APPLIED" /\ i \notin disturbed' => row'[i] = "APPLIED"]_vars

\* Every disk change follows the journal protocol: intent first, a
\* reconciliation request is never withdrawn.
Promise == INSTANCE ExternalOperation WITH
  Keys <- Items, record <- row,
  dispatched <- [i \in Items |-> IF i \in made THEN 1 ELSE 0]
KeepsPromise == Promise!Spec

\* Every planned item is put in place or given up, crashes and a window full of
\* items that wait for seeding notwithstanding.
Settles ==
  \A i \in Items : (status[i] \in {"PLAN_PENDING", "MATERIALIZING"})
    ~> (status[i] \notin {"PLAN_PENDING", "MATERIALIZING"})
=============================================================================
