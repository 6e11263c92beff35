----------------------------- MODULE SystemUpgrade -----------------------------
(***************************************************************************)
(* The upgrade of the application by itself.  It admits a request, writes  *)
(* its acceptance to a state file and starts a helper container.  The      *)
(* helper stops the container of the application, backs its database up,   *)
(* renames it, creates and starts a container of the new image under its   *)
(* name, waits until that is healthy and reports; when a step fails it     *)
(* goes back to the old container and the old database.                    *)
(*                                                                         *)
(* A call to Docker may fail, and it may take effect although its reply is *)
(* lost.  The helper may die at any step, and a container that is stopped  *)
(* takes the requests it was serving with it.  Images are numbered by      *)
(* version, the database by the version that migrated it last.             *)
(***************************************************************************)
EXTENDS Naturals, FiniteSets

CONSTANTS
    Requests,      \* idempotency keys, each with a target
    MaxFaults      \* bound: failures, lost replies and deaths of a helper

VARIABLES
    status,    \* the state file: phase and request
    fresh,     \* it was accepted less than 30 seconds ago
    api,       \* where each request to the application is
    poll,      \* the status request under way, with the state it has read
    helper,    \* the helper of each request
    box,       \* each container: the first one, and the new one of each request
    name,      \* the container that bears the name of the application
    version,   \* the version of each container's image
    db,        \* the version of the database
    past,      \* history: lost replies, and whether the state file was written over
               \* by someone who had read an earlier state
    faults

vars == <<status, fresh, api, poll, helper, box, name, version, db, past, faults>>
docker == <<box, name, version, db>>

Containers == {"first"} \cup Requests
Active == {"accepted", "pulling", "stopping", "starting", "verifying", "rolling_back"}
Phases == Active \cup {"idle", "succeeded", "rolled_back", "failed", "manual"}

NoHelper == [step |-> "none", own |-> "none", stopped |-> FALSE, renamed |-> FALSE,
             made |-> FALSE, written |-> FALSE, backup |-> 0]
Gone == [NoHelper EXCEPT !.step = "gone"]
NoPoll == [step |-> "none", seen |-> [phase |-> "idle", request |-> "none"]]

Works(r) == helper[r].step \notin {"none", "gone"}
Serving == name # "none" /\ box[name] = "running"

-----------------------------------------------------------------------------
(* The application: SystemUpgradeService and TransientUpdaterLauncher *)

Blocked(r) ==
    \/ status.request = r
    \/ status.phase \in Active
    \/ status.phase = "manual"

\* Bound: a key is not used again once it has had a helper.
Admit(r) ==
    /\ Serving /\ api[r] = "idle" /\ ~Blocked(r) /\ helper[r] = NoHelper
    /\ api' = [api EXCEPT ![r] = "admitted"]
    /\ UNCHANGED <<status, fresh, poll, helper, docker, past, faults>>

\* After preflight and backup the state is read again.
Enter(r) ==
    /\ api[r] = "admitted"
    /\ api' = [api EXCEPT ![r] = IF Blocked(r) THEN "idle" ELSE "entered"]
    /\ UNCHANGED <<status, fresh, poll, helper, docker, past, faults>>

Accept(r) ==
    /\ api[r] = "entered"
    /\ status' = [phase |-> "accepted", request |-> r] /\ fresh' = TRUE
    /\ api' = [api EXCEPT ![r] = "boot"]
    /\ past' = [past EXCEPT !.crossed = @ \/ Blocked(r) \/ \E other \in Requests : Works(other)]
    /\ UNCHANGED <<poll, helper, docker, faults>>

Boot(r) ==
    /\ api[r] = "boot"
    /\ api' = [api EXCEPT ![r] = "idle"]
    /\ \/ /\ helper' = [helper EXCEPT ![r] = [NoHelper EXCEPT !.step = "begin"]]
          /\ past' = [past EXCEPT !.crossed = @ \/ \E other \in Requests : Works(other)]
          /\ UNCHANGED <<status, faults>>
       \/ /\ faults < MaxFaults /\ faults' = faults + 1
          /\ status' = [phase |-> "failed", request |-> r]
          /\ past' = [past EXCEPT !.crossed = @ \/ status.request # r]
          /\ UNCHANGED helper
    /\ UNCHANGED <<fresh, poll, docker>>

\* _reconcile_active_status reads the state, and then looks for the helper.
ReadStatus ==
    /\ Serving /\ poll = NoPoll
    /\ status.phase \in Active /\ ~(status.phase = "accepted" /\ fresh)
    /\ poll' = [step |-> "look", seen |-> status]
    /\ UNCHANGED <<status, fresh, api, helper, docker, past, faults>>

WriteOver(phase) ==
    /\ past' = [past EXCEPT !.crossed = @ \/ status # poll.seen]
    /\ status' = [phase |-> phase, request |-> poll.seen.request]

\* Mutant: a helper that died in the middle counts as one that had not begun.
LookForHelperFail ==
    /\ poll.step = "look" /\ poll' = NoPoll
    /\ \/ Works(poll.seen.request) /\ UNCHANGED <<status, past, faults>>
       \/ ~Works(poll.seen.request) /\ WriteOver("failed") /\ UNCHANGED faults
       \/ faults < MaxFaults /\ faults' = faults + 1 /\ WriteOver("failed")
    /\ UNCHANGED <<fresh, api, helper, docker>>

\* A question that Docker does not answer counts as a helper that is not there.
LookForHelper ==
    LET lost == IF poll.seen.phase \in {"accepted", "pulling"} THEN "failed" ELSE "manual"
    IN  /\ poll.step = "look" /\ poll' = NoPoll
        /\ \/ Works(poll.seen.request) /\ UNCHANGED <<status, past, faults>>
           \/ ~Works(poll.seen.request) /\ WriteOver(lost) /\ UNCHANGED faults
           \/ faults < MaxFaults /\ faults' = faults + 1 /\ WriteOver(lost)
        /\ UNCHANGED <<fresh, api, helper, docker>>

AcceptanceAges ==
    /\ fresh /\ fresh' = FALSE
    /\ UNCHANGED <<status, api, poll, helper, docker, past, faults>>

-----------------------------------------------------------------------------
(* The helper *)

At(r, step) == helper[r].step = step
Goto(r, step) == helper' = [helper EXCEPT ![r].step = step]
Phase(phase) == status' = [status EXCEPT !.phase = phase]
Own(r) == helper[r].own

Report(r, phase) == helper' = [helper EXCEPT ![r] = Gone] /\ Phase(phase)

\* Before the old container was stopped there is nothing to go back to.
Back(r) ==
    IF helper[r].stopped
    THEN Goto(r, "undo new") /\ Phase("rolling_back")
    ELSE Report(r, "failed")

\* A call to Docker: it succeeds, fails, or takes effect with its reply lost.
Call(op, possible, effect, ok, bad) ==
    \/ possible /\ effect /\ ok /\ UNCHANGED <<past, faults>>
    \/ ~possible /\ bad /\ UNCHANGED <<docker, api, poll, past, faults>>
    \/ /\ faults < MaxFaults /\ faults' = faults + 1 /\ bad
       /\ \/ UNCHANGED <<docker, api, poll, past>>
          \/ possible /\ effect /\ past' = [past EXCEPT !.lost = @ \cup {op}]

Dies == api' = [r \in Requests |-> "idle"] /\ poll' = NoPoll

\* The effects.
StopBox(c) ==
    /\ box' = [box EXCEPT ![c] = IF @ = "running" THEN "stopped" ELSE @]
    /\ IF box[c] = "running" THEN Dies ELSE UNCHANGED <<api, poll>>
    /\ UNCHANGED <<name, version, db>>

StartBox(c) ==
    /\ box' = [box EXCEPT ![c] = "running"]
    /\ db' \in IF db < version[c] THEN {db, version[c]} ELSE {db}
    /\ UNCHANGED <<name, version, api, poll>>

RemoveBox(c) ==
    /\ box' = [box EXCEPT ![c] = "absent"]
    /\ name' = IF name = c THEN "none" ELSE name
    /\ IF box[c] = "running" THEN Dies ELSE UNCHANGED <<api, poll>>
    /\ UNCHANGED <<version, db>>

Rename(new) == name' = new /\ UNCHANGED <<box, version, db, api, poll>>

CreateBox(r) ==
    /\ box' = [box EXCEPT ![r] = "created"] /\ name' = r
    /\ version' = [version EXCEPT ![r] = version[Own(r)] + 1]
    /\ UNCHANGED <<db, api, poll>>

Set(r, step, field) ==
    helper' = [helper EXCEPT ![r] = [[@ EXCEPT !.step = step] EXCEPT ![field] = TRUE]]

Begin(r) ==
    /\ At(r, "begin")
    /\ status' = IF status.request = r THEN status ELSE [phase |-> "accepted", request |-> r]
    /\ Goto(r, "plan")
    /\ UNCHANGED <<fresh, api, poll, docker, past, faults>>

Plan(r) ==
    /\ At(r, "plan")
    /\ IF name = "none" THEN Report(r, "failed")
       ELSE helper' = [helper EXCEPT ![r].step = "pull", ![r].own = name] /\ Phase("pulling")
    /\ UNCHANGED <<fresh, api, poll, docker, past, faults>>

Pull(r) ==
    /\ At(r, "pull")
    /\ \/ Goto(r, "stop") /\ Phase("stopping") /\ UNCHANGED faults
       \/ faults < MaxFaults /\ faults' = faults + 1 /\ Report(r, "failed")
    /\ UNCHANGED <<fresh, api, poll, docker, past>>

\* Mutant: a failure to stop is passed over, as it is on the way back.
StopAnyway(r) ==
    /\ At(r, "stop")
    /\ Call("stop", box[Own(r)] # "absent", StopBox(Own(r)),
            Set(r, "backup", "stopped") /\ UNCHANGED status,
            Set(r, "backup", "stopped") /\ UNCHANGED status)
    /\ UNCHANGED fresh

Stop(r) ==
    /\ At(r, "stop")
    /\ Call("stop", box[Own(r)] # "absent", StopBox(Own(r)),
            Set(r, "backup", "stopped") /\ UNCHANGED status, Back(r))
    /\ UNCHANGED fresh

Backup(r) ==
    /\ At(r, "backup")
    /\ \/ /\ helper' = [helper EXCEPT ![r].step = "rename", ![r].backup = db]
          /\ UNCHANGED <<status, faults>>
       \/ faults < MaxFaults /\ faults' = faults + 1 /\ Back(r)
    /\ UNCHANGED <<fresh, api, poll, docker, past>>

RenameOld(r) ==
    /\ At(r, "rename")
    /\ Call("rename", box[Own(r)] # "absent", Rename(IF name = Own(r) THEN "none" ELSE name),
            Set(r, "create", "renamed") /\ Phase("starting"), Back(r))
    /\ UNCHANGED fresh

Create(r) ==
    /\ At(r, "create")
    /\ Call("create", name = "none", CreateBox(r),
            Set(r, "start", "made") /\ UNCHANGED status, Back(r))
    /\ UNCHANGED fresh

\* Mutant: the database counts as changed when the new container is healthy.
StartUnmarked(r) ==
    /\ At(r, "start")
    /\ Call("start", box[r] # "absent", StartBox(r),
            Goto(r, "verify") /\ Phase("verifying"), Back(r))
    /\ UNCHANGED fresh

Start(r) ==
    /\ At(r, "start")
    /\ Call("start", box[r] # "absent", StartBox(r),
            Set(r, "verify", "written") /\ Phase("verifying"), Back(r))
    /\ UNCHANGED fresh

Healthy(c) == box[c] = "running" /\ db <= version[c]

Verify(r) ==
    /\ At(r, "verify")
    /\ \/ Healthy(r) /\ Goto(r, "remove") /\ UNCHANGED status
       \/ Back(r)
    /\ UNCHANGED <<fresh, api, poll, docker, past, faults>>

\* A removal that Docker refuses makes no difference; one that it does not answer
\* takes the upgrade back.
RemoveOld(r) ==
    /\ At(r, "remove")
    /\ \/ Call("remove", box[Own(r)] # "running", RemoveBox(Own(r)),
               Report(r, "succeeded"), Back(r))
       \/ /\ faults < MaxFaults /\ faults' = faults + 1
          /\ Report(r, "succeeded")
          /\ UNCHANGED <<docker, api, poll, past>>
    /\ UNCHANGED fresh

-----------------------------------------------------------------------------
(* Going back; what fails now is left to people *)

UndoNew(r) ==
    LET next == Goto(r, IF helper[r].written THEN "undo db" ELSE "undo name") /\ UNCHANGED status
    IN  /\ At(r, "undo new")
        /\ IF helper[r].made
           THEN Call("undo new", TRUE, RemoveBox(r), next, Report(r, "manual"))
           ELSE next /\ UNCHANGED <<docker, api, poll, past, faults>>
        /\ UNCHANGED fresh

UndoDb(r) ==
    /\ At(r, "undo db")
    /\ Call("undo db", TRUE, db' = helper[r].backup /\ UNCHANGED <<box, name, version, api, poll>>,
            Goto(r, "undo name") /\ UNCHANGED status, Report(r, "manual"))
    /\ UNCHANGED fresh

UndoName(r) ==
    /\ At(r, "undo name")
    /\ IF helper[r].renamed
       THEN Call("undo name", name = "none" /\ box[Own(r)] # "absent", Rename(Own(r)),
                 Goto(r, "undo stop") /\ UNCHANGED status, Report(r, "manual"))
       ELSE Goto(r, "undo stop") /\ UNCHANGED <<status, docker, api, poll, past, faults>>
    /\ UNCHANGED fresh

UndoStop(r) ==
    /\ At(r, "undo stop")
    /\ Call("undo stop", box[Own(r)] # "absent", StartBox(Own(r)),
            Goto(r, "undone") /\ UNCHANGED status, Report(r, "manual"))
    /\ UNCHANGED fresh

Undone(r) ==
    /\ At(r, "undone")
    /\ \/ Healthy(Own(r)) /\ Report(r, "rolled_back")
       \/ Report(r, "manual")
    /\ UNCHANGED <<fresh, api, poll, docker, past, faults>>

HelperDies(r) ==
    /\ Works(r) /\ faults < MaxFaults /\ faults' = faults + 1
    /\ helper' = [helper EXCEPT ![r] = Gone]
    /\ UNCHANGED <<status, fresh, api, poll, docker, past>>

-----------------------------------------------------------------------------

Init ==
    /\ status = [phase |-> "idle", request |-> "none"] /\ fresh = FALSE
    /\ api = [r \in Requests |-> "idle"] /\ poll = NoPoll
    /\ helper = [r \in Requests |-> NoHelper]
    /\ box = [c \in Containers |-> IF c = "first" THEN "running" ELSE "absent"]
    /\ name = "first" /\ version = [c \in Containers |-> 0] /\ db = 0
    /\ past = [lost |-> {}, crossed |-> FALSE] /\ faults = 0

Helper(r) ==
    \/ Begin(r) \/ Plan(r) \/ Pull(r) \/ Stop(r) \/ Backup(r) \/ RenameOld(r) \/ Create(r)
    \/ Start(r) \/ Verify(r) \/ RemoveOld(r)
    \/ UndoNew(r) \/ UndoDb(r) \/ UndoName(r) \/ UndoStop(r) \/ Undone(r)
    \/ HelperDies(r)

\* Bound: what follows a state file written over is not looked at.
Next ==
    /\ ~past.crossed
    /\ \/ \E r \in Requests : Admit(r) \/ Enter(r) \/ Accept(r) \/ Boot(r) \/ Helper(r)
       \/ ReadStatus \/ LookForHelper \/ AcceptanceAges

Spec == Init /\ [][Next]_vars

-----------------------------------------------------------------------------

TypeOK ==
    /\ status \in [phase : Phases, request : Requests \cup {"none"}] /\ fresh \in BOOLEAN
    /\ api \in [Requests -> {"idle", "admitted", "entered", "boot"}]
    /\ poll.seen \in [phase : Phases, request : Requests \cup {"none"}]
    /\ \A r \in Requests : helper[r].own \in Containers \cup {"none"}
    /\ box \in [Containers -> {"absent", "created", "running", "stopped"}]
    /\ name \in Containers \cup {"none"} /\ db \in Nat
    /\ version \in [Containers -> Nat]
    /\ past.crossed \in BOOLEAN /\ faults \in 0..MaxFaults

\* Two containers never run on the one database, whatever fails on the way there
\* or back (docker_updater.py:635).
NeverBoth == past.crossed \/ Cardinality({c \in Containers : box[c] = "running"}) <= 1

\* No container runs on a database that a newer one has migrated: the database is
\* restored before the old one starts again.  A lost reply to the start of the new
\* container would hide from the helper that it ran (docker_updater.py:604).
NoneRunsBehind ==
    \A c \in Containers : box[c] = "running" =>
        db <= version[c] \/ "start" \in past.lost \/ past.crossed

\* When the upgrade is over and nobody is called for help, the application runs
\* under its name.  Lost replies to a stop or a rename are what it does not survive:
\* the helper takes them for failures (docker_updater.py:590).
ServiceStands ==
    status.phase \in {"idle", "succeeded", "rolled_back", "failed"}
        /\ (\A r \in Requests : ~Works(r)) /\ past.lost = {} /\ ~past.crossed => Serving

=============================================================================
