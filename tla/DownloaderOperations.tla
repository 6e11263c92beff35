------------------------- MODULE DownloaderOperations -------------------------
(***************************************************************************)
(* The operations of one task on its download client: add the torrent      *)
(* paused, have it checked, start it, remove it and keep its files.  Each  *)
(* has one row in the operation journal and its own lock, so at most one   *)
(* call of an operation is under way, but calls of different operations    *)
(* interleave at every await.                                              *)
(*                                                                         *)
(* The client is a process of its own behind HTTP: a request may reach it  *)
(* late or not at all, and an answer that does not come says nothing about *)
(* the request.  Users work on the same torrents through its interface.    *)
(* qBittorrent and Transmission have a service each, of the same shape;    *)
(* where they differ the model asks for kind.                              *)
(***************************************************************************)
EXTENDS Naturals

CONSTANTS
    MaxCalls,      \* bound: calls of each operation
    MaxFaults,     \* bound: unanswered requests, and stops of the process
    MaxMeddling    \* bound: what a user does in the client's interface

VARIABLES
    kind,      \* "qbittorrent" or "transmission"
    torrent,   \* what the client has under the torrent's hash
    wire,      \* requests sent and not handled yet
    answered,  \* the answers the client has given, by request
    row,       \* the journal row of each operation
    task,      \* the call of each operation
    history,   \* what has happened to the torrent at the client, see History
    budget

downloaderVars == <<kind, torrent, wire, answered, row, task, history, budget>>

Ops == {"add", "check", "start", "remove"}

\* A torrent is ours when it carries the task's ownership tag at the planned
\* path; `full' is the client's progress of 1.
Absent == [owner |-> "none", state |-> "none", full |-> FALSE]
States == {"stopped", "checking", "active"}
Torrent == [owner : {"ours", "theirs"}, state : States, full : BOOLEAN] \cup {Absent}

Complete(t) == t.state = "stopped" /\ t.full       \* verification_complete
Incomplete(t) == t.state = "stopped" /\ ~t.full    \* verification_incomplete
Seeding(t) == t.state = "active" /\ t.full

\* Mutant: the hash alone says whose torrent it is.
OursByHash(t) == t # Absent

Ours(t) == t.owner = "ours"

Status == {"NONE", "INTENT_RECORDED", "APPLIED", "NOOP", "RECONCILE_REQUIRED"}

\* `before' and `after' are the torrent's states kept in the row.
Row == [status : Status, before : Torrent, after : Torrent]
NoRow == [status |-> "NONE", before |-> Absent, after |-> Absent]

\* `seen' is the status a call began with, `result' the torrent it returns.
Pcs == {"idle", "find", "look", "send", "answer", "confirm", "stop", "stopping", "done"}
Call == [pc : Pcs, seen : Status, result : Torrent]
Idle == [pc |-> "idle", seen |-> "NONE", result |-> Absent]

\* `checked': the client has checked or downloaded every piece since the intent
\* of the check; `asked': the checks asked for; `added': an add of ours was
\* executed; `again': a second one was, which had been sent before the first was
\* known to have come through; `touched': a torrent that was there before ours
\* was sent a request; `stale': the torrent has changed since the start was
\* decided; `wrote': a start of ours made an incomplete torrent download although
\* nothing had.
History == [checked : BOOLEAN, asked : Nat, added : BOOLEAN, again : BOOLEAN,
            touched : BOOLEAN, stale : BOOLEAN, wrote : BOOLEAN]

-----------------------------------------------------------------------------
(* The journal: every change is a compare-and-set on the status *)

Is(op, s) == row[op].status = s
Intent(op) ==
    row' = [row EXCEPT ![op].status = "INTENT_RECORDED", ![op].before = torrent]

\* A call whose row has moved under it raises, and leaves the row as it is.
MarkReconcile(op) ==
    row' = IF row[op].status \in {"INTENT_RECORDED", "APPLIED"}
           THEN [row EXCEPT ![op].status = "RECONCILE_REQUIRED"]
           ELSE row

Keep == UNCHANGED row
Goto(op, pc) == task' = [task EXCEPT ![op].pc = pc]
End(op) == task' = [task EXCEPT ![op] = Idle]          \* the call raises
Return(op) == task' = [task EXCEPT ![op].pc = "done", ![op].result = torrent]
At(op, pc) == task[op].pc = pc
Seen(op, s) == task[op].seen = s

\* INTENT_RECORDED -> APPLIED with the state seen, and the call returns it.
Apply(op) ==
    IF Is(op, "INTENT_RECORDED")
    THEN /\ row' = [row EXCEPT ![op].status = "APPLIED", ![op].after = torrent]
         /\ Return(op)
    ELSE Keep /\ End(op)

Reconciled(op) == MarkReconcile(op) /\ End(op)
Raise(op) == Keep /\ End(op)
Outside == <<kind, torrent, wire, answered, history, budget>>

-----------------------------------------------------------------------------
(* A call begins by reading its row *)

\* A check and a removal need the applied add.
Authorised(op) == op # "add" => Is("add", "APPLIED")

\* A row that waits for reconciliation is not executed.
Begin(op) ==
    /\ At(op, "idle") /\ budget.calls[op] < MaxCalls
    /\ row[op].status # "RECONCILE_REQUIRED"
    /\ task' = [task EXCEPT ![op].pc = IF op = "add" /\ Is("add", "NONE") THEN "find" ELSE "look",
                            ![op].seen = row[op].status]
    /\ budget' = [budget EXCEPT !.calls[op] = @ + 1]
    /\ UNCHANGED <<kind, torrent, wire, answered, row, history>>

\* A request leaves; its answer may come or not.
Send(op) ==
    /\ At(op, "send")
    /\ wire' = wire \cup {op}
    /\ answered' = [answered EXCEPT ![op] = "none"]
    /\ Goto(op, "answer")
    /\ history' = [history EXCEPT
          !.asked = IF op = "check" THEN @ + 1 ELSE @,
          !.touched = @ \/ (op # "add" /\ ~history.added /\ torrent.owner = "theirs")]
    /\ UNCHANGED <<kind, torrent, row, budget>>

-----------------------------------------------------------------------------
(* Add *)

\* A torrent that is there before the intent is not claimed; after an answer
\* that never came, the client is asked before anything is sent again.
AddLook ==
    /\ At("add", "look")
    /\ \/ /\ Seen("add", "APPLIED")
          /\ IF Ours(torrent) /\ torrent.state = "stopped"
             THEN Keep /\ Return("add")
             ELSE Reconciled("add")
       \/ /\ Seen("add", "NONE") /\ torrent # Absent
          /\ Raise("add")
       \/ /\ Seen("add", "NONE") /\ torrent = Absent
          /\ Intent("add") /\ Goto("add", "send")
       \/ /\ Seen("add", "INTENT_RECORDED")
          /\ Keep /\ Goto("add", IF torrent = Absent THEN "send" ELSE "confirm")
    /\ UNCHANGED Outside

\* A torrent that was there already: Transmission says so, qBittorrent reports
\* a failed add.
AddAnswered ==
    /\ At("add", "answer") /\ answered["add"] # "none"
    /\ \/ answered["add"] = "done" /\ Keep /\ Goto("add", "confirm")
       \/ answered["add"] = "refused" /\ kind = "transmission" /\ Reconciled("add")
       \/ answered["add"] = "refused" /\ kind = "qbittorrent" /\ Raise("add")
    /\ UNCHANGED Outside

\* Mutant: a torrent of that hash is the one that was added.
ConfirmAny ==
    /\ At("add", "confirm")
    /\ IF torrent # Absent THEN Apply("add") ELSE Raise("add")
    /\ UNCHANGED Outside

\* The torrent must carry the tag and must be stopped; one that runs is stopped.
AddConfirm ==
    /\ At("add", "confirm")
    /\ \/ torrent = Absent /\ Raise("add")
       \/ torrent # Absent /\ ~Ours(torrent) /\ Reconciled("add")
       \/ Ours(torrent) /\ torrent.state = "stopped" /\ Apply("add")
       \/ Ours(torrent) /\ torrent.state # "stopped" /\ Keep /\ Goto("add", "stop")
    /\ UNCHANGED Outside

\* The stop is confirmed by looking again for a bounded time.
Stop(op) ==
    /\ At(op, "stop")
    /\ wire' = wire \cup {"stop"}
    /\ history' = [history EXCEPT !.touched = @ \/ (~history.added /\ torrent.owner = "theirs")]
    /\ Goto(op, "stopping")
    /\ UNCHANGED <<kind, torrent, answered, row, budget>>

AddStopped ==
    /\ At("add", "stopping")
    /\ IF Ours(torrent) /\ torrent.state = "stopped" THEN Apply("add") ELSE Reconciled("add")
    /\ UNCHANGED Outside

-----------------------------------------------------------------------------
(* Check: recheck_torrent, verify_torrent *)

\* What a lost answer leaves is proven by a torrent that checks, or that has
\* become complete since the intent.
Proven(t) == t.state = "checking" \/ (Complete(t) /\ t # row["check"].before)

\* Mutant: a check whose answer never came is asked for again.
CheckLookRetrying ==
    /\ At("check", "look")
    /\ Ours(torrent)
    /\ IF Seen("check", "NONE") THEN Intent("check") ELSE Keep
    /\ Goto("check", "send")
    /\ UNCHANGED Outside

CheckLook ==
    /\ At("check", "look")
    /\ \/ ~Ours(torrent) /\ Reconciled("check")
       \/ Ours(torrent) /\ Seen("check", "APPLIED") /\ Keep /\ Return("check")
       \/ /\ Ours(torrent) /\ Seen("check", "INTENT_RECORDED")
          /\ IF Proven(torrent) THEN Apply("check") ELSE Reconciled("check")
       \/ /\ Ours(torrent) /\ Seen("check", "NONE")
          /\ IF torrent.state = "stopped"
             THEN Intent("check") /\ Goto("check", "send")
             ELSE Raise("check")
    /\ history' = IF Is("check", "NONE") THEN [history EXCEPT !.checked = FALSE] ELSE history
    /\ UNCHANGED <<kind, torrent, wire, answered, budget>>

CheckAnswered ==
    /\ At("check", "answer") /\ answered["check"] # "none"
    /\ Keep /\ Goto("check", "confirm")
    /\ UNCHANGED Outside

CheckConfirm ==
    /\ At("check", "confirm")
    /\ IF Ours(torrent) THEN Apply("check") ELSE Reconciled("check")
    /\ UNCHANGED Outside

-----------------------------------------------------------------------------
(* Start: only a torrent that is stopped and complete *)

\* Mutant: the start is sent whatever the client says of the torrent.
StartLookBlind ==
    /\ At("start", "look")
    /\ IF Seen("start", "NONE") THEN Intent("start") ELSE Keep
    /\ Goto("start", "send") /\ history' = [history EXCEPT !.stale = FALSE]
    /\ UNCHANGED <<kind, torrent, wire, answered, budget>>

Decide == Goto("start", "send") /\ history' = [history EXCEPT !.stale = FALSE]

StartLook ==
    /\ At("start", "look")
    /\ \/ /\ Ours(torrent) /\ Complete(torrent)
          /\ \/ Seen("start", "NONE") /\ Intent("start")
             \/ Seen("start", "INTENT_RECORDED") /\ Keep
          /\ Decide
       \/ /\ ~(Ours(torrent) /\ Complete(torrent)) \/ Seen("start", "APPLIED")
          /\ \/ Seen("start", "NONE") /\ Raise("start")
             \/ /\ Seen("start", "APPLIED") /\ Ours(torrent) /\ Seeding(torrent)
                /\ Keep /\ Return("start")
             \/ /\ Seen("start", "INTENT_RECORDED") /\ Ours(torrent) /\ Seeding(torrent)
                /\ Apply("start")
             \/ /\ ~Seen("start", "NONE") /\ ~(Ours(torrent) /\ Seeding(torrent))
                /\ Reconciled("start")
          /\ UNCHANGED history
    /\ UNCHANGED <<kind, torrent, wire, answered, budget>>

StartAnswered ==
    /\ At("start", "answer") /\ answered["start"] # "none"
    /\ Keep /\ Goto("start", "confirm")
    /\ UNCHANGED Outside

StartConfirm ==
    /\ At("start", "confirm")
    /\ \/ Ours(torrent) /\ Seeding(torrent) /\ Apply("start")
       \/ Ours(torrent) /\ Complete(torrent) /\ Raise("start")
       \/ ~(Ours(torrent) /\ (Seeding(torrent) \/ Complete(torrent))) /\ Reconciled("start")
    /\ UNCHANGED Outside

-----------------------------------------------------------------------------
(* Remove, keeping the files *)

\* No torrent at the first look: intent and NOOP at once.
Noop == row' = [row EXCEPT !["remove"].status = "NOOP"] /\ Return("remove")

RemoveLook ==
    /\ At("remove", "look")
    /\ \/ Seen("remove", "NOOP") /\ Keep /\ Return("remove")
       \/ ~Seen("remove", "NOOP") /\ torrent # Absent /\ ~Ours(torrent) /\ Reconciled("remove")
       \/ Seen("remove", "APPLIED") /\ torrent = Absent /\ Keep /\ Return("remove")
       \/ Seen("remove", "APPLIED") /\ Ours(torrent) /\ Reconciled("remove")
       \/ Seen("remove", "INTENT_RECORDED") /\ torrent = Absent /\ Apply("remove")
       \/ Seen("remove", "NONE") /\ torrent = Absent /\ Noop
       \/ /\ Ours(torrent) /\ task["remove"].seen \in {"NONE", "INTENT_RECORDED"}
          /\ IF Seen("remove", "NONE") THEN Intent("remove") ELSE Keep
          /\ Goto("remove", IF torrent.state = "stopped" THEN "send" ELSE "stop")
    /\ UNCHANGED Outside

\* A torrent that has not stopped in time raises and leaves the intent.
RemoveStopped ==
    /\ At("remove", "stopping")
    /\ \/ torrent = Absent /\ Apply("remove")
       \/ torrent # Absent /\ ~Ours(torrent) /\ Reconciled("remove")
       \/ Ours(torrent) /\ torrent.state = "stopped" /\ Keep /\ Goto("remove", "send")
       \/ Ours(torrent) /\ torrent.state # "stopped" /\ Raise("remove")
    /\ UNCHANGED Outside

\* Mutant: the request that was sent is taken for the removal.
SentIsGone == At("remove", "answer") /\ Apply("remove")

\* Answered or not, the client is asked whether the torrent is gone.
AskGone ==
    /\ At("remove", "answer")
    /\ \/ torrent = Absent /\ Apply("remove")
       \/ torrent # Absent /\ ~Ours(torrent) /\ Reconciled("remove")
       \/ Ours(torrent) /\ Raise("remove")

RemoveAnswered ==
    /\ answered["remove"] # "none" /\ AskGone
    /\ UNCHANGED Outside

-----------------------------------------------------------------------------
(* reconcile: a row is applied again when its effect is seen *)

\* A row without its snapshot cannot be proven, but for qBittorrent's add; a
\* removal only Transmission's service takes.
Reconcilable(op) ==
    IF op = "remove"
    THEN kind = "transmission" /\ row[op].before # Absent
    ELSE row[op].after # Absent \/ (op = "add" /\ kind = "qbittorrent")

PostconditionHolds(op) ==
    \/ op = "add" /\ Ours(torrent) /\ torrent.state = "stopped"
    \/ op = "check" /\ Ours(torrent) /\ torrent.state \in {"checking", "stopped"}
    \/ op = "start" /\ Ours(torrent) /\ Seeding(torrent)
    \/ op = "remove" /\ torrent = Absent

\* Mutant: the row is applied without a snapshot.
ReconcileBare(op) ==
    /\ Is(op, "RECONCILE_REQUIRED") /\ At(op, "idle") /\ budget.calls[op] < MaxCalls
    /\ Reconcilable(op) /\ PostconditionHolds(op)
    /\ row' = [row EXCEPT ![op].status = "APPLIED"]
    /\ budget' = [budget EXCEPT !.calls[op] = @ + 1]
    /\ UNCHANGED <<kind, torrent, wire, answered, task, history>>

Reconcile(op) ==
    /\ Is(op, "RECONCILE_REQUIRED") /\ At(op, "idle") /\ budget.calls[op] < MaxCalls
    /\ Reconcilable(op) /\ PostconditionHolds(op)
    /\ row' = [row EXCEPT ![op].status = "APPLIED",
                          ![op].after = IF @ = Absent THEN torrent ELSE @]
    /\ budget' = [budget EXCEPT !.calls[op] = @ + 1]
    /\ UNCHANGED <<kind, torrent, wire, answered, task, history>>

-----------------------------------------------------------------------------
(* The client, the wire and the users *)

\* A request takes effect when the client gets to it.
Handle(request) ==
    /\ request \in wire
    /\ wire' = wire \ {request}
    /\ UNCHANGED <<kind, row, task, budget>>

Answer(request, a) ==
    answered' = IF request \in Ops THEN [answered EXCEPT ![request] = a] ELSE answered

\* A check is answered before it has begun.
ClientAccepts ==
    /\ "check" \in wire /\ answered["check"] = "none"
    /\ Answer("check", "done")
    /\ UNCHANGED <<kind, torrent, wire, row, task, history, budget>>

ClientAdds ==
    /\ Handle("add")
    /\ IF torrent = Absent
       THEN /\ torrent' \in [owner : {"ours"}, state : States, full : BOOLEAN]
            /\ Answer("add", "done")
            /\ history' = [history EXCEPT !.added = TRUE, !.again = @ \/ history.added, !.stale = TRUE]
       ELSE Answer("add", "refused") /\ UNCHANGED <<torrent, history>>

\* A check begins by forgetting what was known of the pieces.
ClientChecks ==
    /\ Handle("check")
    /\ torrent' = IF torrent = Absent THEN torrent
                  ELSE [torrent EXCEPT !.state = "checking", !.full = FALSE]
    /\ Answer("check", "done")
    /\ history' = [history EXCEPT !.stale = TRUE]

ClientStarts ==
    /\ Handle("start")
    /\ torrent' = IF torrent.state = "stopped" THEN [torrent EXCEPT !.state = "active"] ELSE torrent
    /\ history' = [history EXCEPT !.wrote = @ \/ (Incomplete(torrent) /\ ~history.stale)]
    /\ Answer("start", "done")

\* A check that is stopped leaves pieces that are not known.
Halt == torrent' = IF torrent = Absent THEN torrent ELSE [torrent EXCEPT !.state = "stopped"]

ClientStops ==
    /\ Handle("stop") /\ Halt
    /\ history' = [history EXCEPT !.stale = TRUE]
    /\ UNCHANGED answered

ClientRemoves ==
    /\ Handle("remove")
    /\ torrent' = Absent
    /\ Answer("remove", "done")
    /\ UNCHANGED history

\* A check ends; an active torrent that lacked pieces has got them all.
ClientEnds ==
    /\ \/ /\ torrent.state = "checking"
          /\ torrent' \in {[torrent EXCEPT !.state = "stopped", !.full = f] : f \in BOOLEAN}
       \/ /\ torrent.state = "active" /\ ~torrent.full
          /\ torrent' = [torrent EXCEPT !.full = TRUE]
    /\ history' = [history EXCEPT !.checked = TRUE, !.stale = TRUE]
    /\ UNCHANGED <<kind, wire, answered, row, task, budget>>

\* What a user does to a torrent in the client's interface.
Meddle ==
    /\ budget.meddle < MaxMeddling
    /\ \/ torrent = Absent
          /\ torrent' \in [owner : {"theirs"}, state : {"stopped", "active"}, full : BOOLEAN]
       \/ torrent # Absent /\ torrent' = Absent
       \/ torrent # Absent /\ torrent' = [torrent EXCEPT !.state = "checking", !.full = FALSE]
       \/ torrent.state = "stopped" /\ torrent' = [torrent EXCEPT !.state = "active"]
       \/ torrent.state \in {"checking", "active"} /\ Halt
    /\ history' = [history EXCEPT !.stale = TRUE]
    /\ budget' = [budget EXCEPT !.meddle = @ + 1]
    /\ UNCHANGED <<kind, wire, answered, row, task>>

\* The answer does not come, or the stop of an add fails: the call raises, the
\* request may still arrive.
Unanswered(op) ==
    /\ budget.faults < MaxFaults
    /\ wire' \in {wire, wire \ {op}}
    /\ \/ op # "remove" /\ At(op, "answer") /\ Raise(op)
       \/ op = "add" /\ At(op, "stop") /\ Reconciled(op)
       \/ op = "remove" /\ At(op, "stop") /\ Raise(op)
       \/ op = "remove" /\ AskGone
    /\ budget' = [budget EXCEPT !.faults = @ + 1]
    /\ UNCHANGED <<kind, torrent, answered, history>>

Crash ==
    /\ budget.faults < MaxFaults
    /\ \E op \in Ops : ~At(op, "idle")
    /\ task' = [op \in Ops |-> Idle]
    /\ budget' = [budget EXCEPT !.faults = @ + 1]
    /\ UNCHANGED <<kind, torrent, wire, answered, row, history>>

-----------------------------------------------------------------------------

DownloaderInit ==
    /\ kind \in {"qbittorrent", "transmission"}
    /\ torrent \in {Absent} \cup [owner : {"theirs"}, state : {"stopped", "active"}, full : BOOLEAN]
    /\ wire = {} /\ answered = [op \in Ops |-> "none"]
    /\ row = [op \in Ops |-> NoRow] /\ task = [op \in Ops |-> Idle]
    /\ history = [checked |-> FALSE, asked |-> 0, added |-> FALSE, again |-> FALSE,
                  touched |-> FALSE, stale |-> FALSE, wrote |-> FALSE]
    /\ budget = [calls |-> [op \in Ops |-> 0], faults |-> 0, meddle |-> 0]

\* The steps of a call that has begun, and those of the world outside.
CallSteps ==
    \/ \E op \in Ops : Send(op) \/ Stop(op) \/ Unanswered(op) \/ Reconcile(op)
    \/ AddLook \/ AddAnswered \/ AddConfirm \/ AddStopped
    \/ CheckLook \/ CheckAnswered \/ CheckConfirm
    \/ StartLook \/ StartAnswered \/ StartConfirm
    \/ RemoveLook \/ RemoveStopped \/ RemoveAnswered

ClientSteps ==
    \/ ClientAccepts \/ ClientAdds \/ ClientChecks \/ ClientStarts \/ ClientStops \/ ClientRemoves
    \/ ClientEnds \/ Meddle

-----------------------------------------------------------------------------

DownloaderTypeOK ==
    /\ kind \in {"qbittorrent", "transmission"}
    /\ torrent \in Torrent /\ wire \subseteq Ops \cup {"stop"}
    /\ answered \in [Ops -> {"none", "done", "refused"}]
    /\ row \in [Ops -> Row] /\ task \in [Ops -> Call] /\ history \in History
    /\ \A op \in Ops \ {"remove"} : Is(op, "APPLIED") => row[op].after # Absent

=============================================================================
