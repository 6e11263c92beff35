------------------------------ MODULE TaskMonitor ------------------------------
(***************************************************************************)
(* A monitoring task definition and its scans of one directory.  The       *)
(* directory is listed in pages; what is new, has been left alone for the  *)
(* debounce time and has been seen unchanged for the stability time gets a *)
(* task, and the schedule keeps a checkpoint: the keys already taken, the  *)
(* cursor of the listing, what is being watched, a scan that was queued.   *)
(*                                                                         *)
(* A scan reads the checkpoint, lists a page in a thread while the event   *)
(* loop goes on, and writes the checkpoint back when it ends: others edit  *)
(* the definition, ask for a scan and write into the directory meanwhile.  *)
(***************************************************************************)
EXTENDS Naturals, FiniteSets

CONSTANTS
    Paths,         \* the paths of a directory: 1..n, in the order of the listing
    Batch,         \* directory_scan_batch_size
    MaxWrites,     \* bound: writes to the files
    MaxScans,      \* bound: scans
    MaxFaults      \* bound: stops, failing steps, and edits that change the source

VARIABLES
    policy,        \* the execution policy of the definition
    origin,        \* the source directory, counted by the edits
    listing,       \* the version of each path there; 0 is no file
    quiet,         \* the paths not written to for the debounce and stability times
    checkpoint,    \* TaskSchedule.scan_checkpoint
    scan,          \* the scan that holds the lock
    tasks,         \* the keys that have a task
    past,          \* history, see Past
    budget

vars == <<policy, origin, listing, quiet, checkpoint, scan, tasks, past, budget>>

\* A source object: the path with its device, inode, size and mtime.
Key == (0..MaxFaults) \X Paths \X (1..MaxWrites + 1)
KeyOf(p) == <<origin, p, listing[p]>>
Full == [p \in Paths |-> 1]
Present == {p \in Paths : listing[p] > 0}

\* What is known of a path under watch: its key and whether the wait is over.
NoKey == <<0, 0, 0>>
Watch == [key : Key \cup {NoKey}, waited : BOOLEAN]
NoWatch == [key |-> NoKey, waited |-> FALSE]
Unwatched == [p \in Paths |-> NoWatch]

Checkpoint == [initialized : BOOLEAN, seen : SUBSET Key, cursor : {0} \cup Paths,
               stability : [Paths -> Watch], pending : BOOLEAN]
NoCheckpoint == [initialized |-> FALSE, seen |-> {}, cursor |-> 0,
                 stability |-> Unwatched, pending |-> FALSE]

\* `copy' is the checkpoint the scan has read, `still' what was quiet when it
\* began, `page' the keys listed, `todo' those that get a task; `late': a waiting time has
\* passed since it began, whose time is the one it works with.
Scan == [pc : {"idle", "discover", "decide", "materialize"}, copy : Checkpoint,
         still : SUBSET Key, page : SUBSET Key, more : BOOLEAN, last : {0} \cup Paths,
         todo : SUBSET Key, ready : SUBSET Key, late : BOOLEAN]
NoScan == [pc |-> "idle", copy |-> NoCheckpoint, still |-> {}, page |-> {},
           more |-> FALSE, last |-> 0, todo |-> {}, ready |-> {}, late |-> FALSE]

\* `old': the keys that were there when the source was chosen; `baseline': those
\* the first scan has put into the watermark; `settled': those left alone for
\* the waiting times; `crossed': the source was edited while a scan was running;
\* `slow': a scan took a waiting time.
Past == [old : SUBSET Key, baseline : SUBSET Key, settled : SUBSET Key, crossed : BOOLEAN,
         slow : BOOLEAN]

-----------------------------------------------------------------------------
(* scan_monitor *)

Free == scan.pc \in {"idle", "discover"}

\* The queued run is consumed before the checkpoint is read.
BeginScan ==
    /\ scan.pc = "idle" /\ budget.scans < MaxScans
    /\ checkpoint' = [checkpoint EXCEPT !.pending = FALSE]
    /\ scan' = [NoScan EXCEPT !.pc = "discover", !.copy = checkpoint',
                              !.still = {KeyOf(p) : p \in quiet \cap Present}]
    /\ budget' = [budget EXCEPT !.scans = @ + 1]
    /\ UNCHANGED <<policy, origin, listing, quiet, tasks, past>>

\* A scan asked for while one is running is queued; by SKIP it changes nothing.
Overlap ==
    /\ scan.pc = "discover"
    /\ checkpoint' = [checkpoint EXCEPT !.pending = TRUE]
    /\ UNCHANGED <<policy, origin, listing, quiet, scan, tasks, past, budget>>

\* One page after the cursor.
Listed ==
    LET after == {p \in Present : p > scan.copy.cursor}
        page == {p \in after : Cardinality({q \in after : q < p}) < Batch}
    IN  [scan EXCEPT !.pc = "decide", !.page = {KeyOf(p) : p \in page}, !.more = page # after,
                     !.last = CHOOSE p \in page \cup {0} : \A q \in page : q <= p]

Discover ==
    /\ scan.pc = "discover"
    /\ scan' = Listed
    /\ UNCHANGED <<policy, origin, listing, quiet, checkpoint, tasks, past, budget>>

-----------------------------------------------------------------------------
(* What a scan makes of its page *)

Unseen == scan.page \ scan.copy.seen
Path(key) == key[2]

\* _advance_directory_scan
Advanced(c) == [c EXCEPT !.cursor = IF scan.more THEN scan.last ELSE 0]

\* Mutant: the scan writes back what it has read.
SavedOver(c) == c

\* _update_monitor_schedule: a run queued meanwhile stays queued.
Saved(c) == [c EXCEPT !.pending = checkpoint.pending]

EndScan(c) == checkpoint' = Saved(c) /\ scan' = NoScan
Silent == UNCHANGED <<policy, origin, listing, quiet, tasks, budget>>

\* Mutant: the first page ends the baseline.
BaselineAtOnce ==
    /\ scan.pc = "decide" /\ policy.newOnly /\ ~scan.copy.initialized
    /\ EndScan([Advanced(scan.copy) EXCEPT !.seen = @ \cup scan.page,
                  !.stability = Unwatched, !.initialized = TRUE])
    /\ past' = [past EXCEPT !.baseline = @ \cup scan.page]
    /\ Silent

\* NEW_ONLY: what is there at the first scan is taken as seen, page after page.
Baseline ==
    /\ scan.pc = "decide" /\ policy.newOnly /\ ~scan.copy.initialized
    /\ EndScan([Advanced(scan.copy) EXCEPT !.seen = @ \cup scan.page,
                  !.stability = Unwatched, !.initialized = ~scan.more])
    /\ past' = [past EXCEPT !.baseline = @ \cup scan.page]
    /\ Silent

Ordinary == scan.pc = "decide" /\ (scan.copy.initialized \/ ~policy.newOnly)
Begun == [scan.copy EXCEPT !.initialized = TRUE]

NoChanges ==
    /\ Ordinary /\ Unseen = {}
    /\ EndScan([Advanced(Begun) EXCEPT !.stability = Unwatched])
    /\ UNCHANGED past /\ Silent

\* Candidates that have been quiet when the scan began.
Quiet == IF policy.debounce THEN Unseen \cap scan.still ELSE Unseen

DebounceWait ==
    /\ Ordinary /\ Unseen # {} /\ Quiet = {}
    /\ EndScan(Begun)
    /\ UNCHANGED past /\ Silent

\* Mutant: the wait belongs to the path, whatever the file has become.
WatchedByPath(key) == Begun.stability[Path(key)].key # NoKey

\* A wait counts only for the very version it was begun for.
Watched(key) == Begun.stability[Path(key)].key = key

Ready ==
    IF policy.stability
    THEN {k \in Quiet : Watched(k) /\ Begun.stability[Path(k)].waited}
    ELSE Quiet

\* The watches after this scan: those of candidates that are not ready.
Watches ==
    IF policy.stability
    THEN [p \in Paths |->
            IF \E k \in Quiet \ Ready : Path(k) = p
            THEN LET k == CHOOSE k \in Quiet : Path(k) = p
                 IN  IF Watched(k) THEN Begun.stability[p]
                     ELSE [key |-> k, waited |-> scan.late]
            ELSE NoWatch]
    ELSE Begun.stability

StabilityWait ==
    /\ Ordinary /\ Quiet # {} /\ Ready = {}
    /\ EndScan([Begun EXCEPT !.stability = Watches])
    /\ UNCHANGED past /\ Silent

\* The execution is recorded, then one task after the other.
BeginMaterialize ==
    /\ Ordinary /\ Ready # {}
    /\ scan' = [scan EXCEPT !.pc = "materialize", !.todo = Ready, !.ready = Ready,
                            !.copy = [Begun EXCEPT !.stability = Watches]]
    /\ UNCHANGED <<checkpoint, past>> /\ Silent

\* _materialize_unit: the task of that key, new or the one that is there.
MaterializeUnit(key) ==
    /\ scan.pc = "materialize" /\ key \in scan.todo
    /\ tasks' = tasks \cup {key}
    /\ scan' = [scan EXCEPT !.todo = @ \ {key}]
    /\ UNCHANGED <<policy, origin, listing, quiet, checkpoint, past, budget>>

\* Mutant: all that was listed is taken as seen.
FinishScanAll ==
    /\ scan.pc = "materialize" /\ scan.todo = {}
    /\ EndScan(Advanced([scan.copy EXCEPT !.seen = @ \cup scan.page]))
    /\ UNCHANGED past /\ Silent

\* Mutant: the listing goes on although something of the page waits.
FinishScanOn ==
    /\ scan.pc = "materialize" /\ scan.todo = {}
    /\ EndScan(Advanced([scan.copy EXCEPT !.seen = @ \cup scan.ready]))
    /\ UNCHANGED past /\ Silent

\* The listing goes on only when nothing of the page is left.
FinishScan ==
    LET taken == [scan.copy EXCEPT !.seen = @ \cup scan.ready]
    IN  /\ scan.pc = "materialize" /\ scan.todo = {}
        /\ EndScan(IF scan.page \subseteq taken.seen THEN Advanced(taken) ELSE taken)
        /\ UNCHANGED past /\ Silent

\* A listing that fails leaves the checkpoint; a task that cannot be made ends
\* the scan with the checkpoint of before it.
Fail ==
    /\ budget.faults < MaxFaults
    /\ \/ scan.pc = "discover" /\ UNCHANGED checkpoint
       \/ scan.pc = "materialize" /\ scan.todo # {} /\ checkpoint' = Saved(scan.copy)
    /\ scan' = NoScan
    /\ budget' = [budget EXCEPT !.faults = @ + 1]
    /\ UNCHANGED <<policy, origin, listing, quiet, tasks, past>>

Crash ==
    /\ scan.pc # "idle" /\ budget.faults < MaxFaults
    /\ scan' = NoScan
    /\ budget' = [budget EXCEPT !.faults = @ + 1]
    /\ UNCHANGED <<policy, origin, listing, quiet, checkpoint, tasks, past>>

-----------------------------------------------------------------------------
(* The others *)

\* update_definition with another source: the checkpoint starts anew.
Edit ==
    /\ Free /\ budget.faults < MaxFaults
    /\ origin' = origin + 1
    /\ listing' = Full /\ quiet' = Paths
    /\ checkpoint' = NoCheckpoint
    /\ past' = [past EXCEPT !.old = {<<origin', p, 1>> : p \in Paths},
                            !.settled = @ \cup {<<origin', p, 1>> : p \in Paths},
                            !.crossed = @ \/ scan.pc # "idle"]
    \* a scan under way lists the directory it began with
    /\ scan' = IF scan.pc = "idle" THEN scan ELSE Listed
    /\ budget' = [budget EXCEPT !.faults = @ + 1]
    /\ UNCHANGED <<policy, tasks>>

\* A file is made or written to.
Write(p) ==
    /\ scan.pc \in {"idle", "discover"} /\ budget.writes < MaxWrites
    /\ listing' = [listing EXCEPT ![p] = @ + 1]
    /\ quiet' = quiet \ {p}
    /\ budget' = [budget EXCEPT !.writes = @ + 1]
    /\ UNCHANGED <<policy, origin, checkpoint, scan, tasks, past>>

\* The waiting times pass.
TimePasses ==
    /\ Free
    /\ quiet' = Paths
    /\ past' = [past EXCEPT !.settled = @ \cup {KeyOf(p) : p \in Present},
                            !.slow = @ \/ scan.pc # "idle"]
    /\ scan' = [scan EXCEPT !.late = scan.pc # "idle"]
    /\ checkpoint' = [checkpoint EXCEPT !.stability =
                        [p \in Paths |-> [checkpoint.stability[p] EXCEPT
                            !.waited = @ \/ checkpoint.stability[p] # NoWatch]]]
    /\ UNCHANGED <<policy, origin, listing, tasks, budget>>

-----------------------------------------------------------------------------

Init ==
    /\ policy \in [newOnly : BOOLEAN, debounce : BOOLEAN, stability : BOOLEAN]
    /\ origin = 0
    /\ listing = Full /\ quiet = Paths
    /\ checkpoint = NoCheckpoint /\ scan = NoScan /\ tasks = {}
    /\ past = [old |-> {<<0, p, 1>> : p \in Paths},
               baseline |-> {}, settled |-> {<<0, p, 1>> : p \in Paths}, crossed |-> FALSE, slow |-> FALSE]
    /\ budget = [scans |-> 0, faults |-> 0, writes |-> 0]

Next ==
    \/ BeginScan \/ Overlap \/ Discover
    \/ Baseline \/ NoChanges \/ DebounceWait \/ StabilityWait
    \/ BeginMaterialize \/ FinishScan
    \/ \E k \in scan.todo : MaterializeUnit(k)
    \/ Fail \/ Crash
    \/ Edit \/ TimePasses
    \/ \E p \in Paths : Write(p)

Spec == Init /\ [][Next]_vars

-----------------------------------------------------------------------------

TypeOK ==
    /\ policy \in [newOnly : BOOLEAN, debounce : BOOLEAN, stability : BOOLEAN]
    /\ origin \in 0..MaxFaults /\ listing \in [Paths -> 0..MaxWrites + 1]
    /\ quiet \subseteq Paths /\ checkpoint \in Checkpoint /\ scan \in Scan
    /\ tasks \subseteq Key /\ past \in Past

\* What the watermark calls seen has a task, or was there at the baseline: no
\* stop, failing step or overlapping scan makes the monitor forget an object
\* (task_definition_executions.py:2471).
SeenHasTask == checkpoint.seen \subseteq tasks \cup past.baseline

\* The listing never goes on past an object that has still to be taken
\* (task_definition_executions.py:2475).
PageIsTaken ==
    [][checkpoint'.cursor \notin {checkpoint.cursor, scan.copy.cursor} /\ origin' = origin
       => scan.page \subseteq checkpoint'.seen]_vars

\* A file gets a task only as the version that was left alone for the waiting
\* time, however it is rewritten between scans, unless a scan takes as long as
\* the wait (task_definition_executions.py:2337).
TakenWhenSettled ==
    policy.debounce \/ (policy.stability /\ ~past.slow) => tasks \subseteq past.settled

\* With NEW_ONLY, what was there when the source was chosen never gets a task,
\* unless the source was edited under a running scan (task_definitions.py:733).
OldStaysOut == policy.newOnly /\ ~past.crossed => tasks \cap past.old = {}

\* A queued scan is forgotten only by a scan that begins, or with the source it
\* was queued for (task_definition_executions.py:2724).
QueuedScanKept ==
    [][checkpoint.pending /\ ~checkpoint'.pending
       => scan'.pc = "discover" \/ origin' # origin]_vars

=============================================================================
