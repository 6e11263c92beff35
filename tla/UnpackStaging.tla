------------------------------ MODULE UnpackStaging ------------------------------
(***************************************************************************)
(* The missing small files of a torrent are downloaded into a staging      *)
(* directory: the torrent is added, only the missing files are selected,   *)
(* it is started, stopped when they are there, everything is verified      *)
(* together with the source, and the torrent is removed.                   *)
(*                                                                         *)
(* One item and the worker that advances it pass by pass.  Every step into *)
(* the file system or the client has a journal row; a row without a proof  *)
(* of its effect is never acted on twice.  The client answers, fails,      *)
(* answers too late or loses the answer; the process may stop between any  *)
(* two steps; the user works in the same client.                           *)
(***************************************************************************)
EXTENDS Naturals, FiniteSets

CONSTANTS
    MaxFaults,       \* bound: lost or late replies, failures and stops
    MaxMeddling,     \* bound: what the user does to the torrent or the directory
    MaxRetries       \* bound: retries of the item

VARIABLES
    item,      \* status and auxiliary_state of the item, and why it failed
    journal,   \* UnpackExternalOperationJournal, one row of each operation
    disk,      \* the staging directory: "absent", "ours", "strange"
    client,    \* the torrent in the client, its selection, and its files on disk
    worker,    \* what the pass does, and what it saw last
    wire,      \* requests whose reply was given up and that may still arrive
    past,      \* history: requests sent, the directory made, verified at rest
    sound,     \* whether the downloaded files fit
    faults, meddled, retries

vars == <<item, journal, disk, client, worker, wire, past, sound, faults, meddled, retries>>

Requests == {"add", "select", "start", "stop", "remove"}
Operations == Requests \cup {"directory"}
\* "NOT_OBSERVED" is RECONCILE_REQUIRED after a stop that was answered but had no effect.
Rows == {"NONE", "INTENT_RECORDED", "APPLIED", "RECONCILE_REQUIRED", "NOT_OBSERVED"}
Statuses == {"AUXILIARY_FETCHING", "CONTENT_VERIFIED", "CONTENT_MISMATCH",
             "MATCH_ERROR", "DROPPED"}
Seen == {"absent", "paused", "running", "foreign"}
Ours == {"paused", "running"}
Idle == [at |-> "idle", op |-> "directory", seen |-> "absent", reply |-> "ok"]

Busy(at) == worker.at = at
Go(at, op) == worker' = [worker EXCEPT !.at = at, !.op = op]
Then(op) == CASE op = "directory" -> [at |-> "look", op |-> "add"]
              [] op = "add" -> [at |-> "look", op |-> "select"]
              [] op = "select" -> [at |-> "look", op |-> "start"]
              [] op = "start" -> [at |-> "staged", op |-> "start"]
              [] op = "stop" -> [at |-> "verify", op |-> "stop"]
              [] op = "remove" -> [at |-> "finish", op |-> "remove"]
Continue(op) == Go(Then(op).at, Then(op).op)
Row(op, status) == journal' = [journal EXCEPT ![op] = status]
\* _mark_reconcile keeps the first reason.
Unclear(op) ==
    Row(op, IF journal[op] = "NOT_OBSERVED" THEN journal[op] ELSE "RECONCILE_REQUIRED")
Fetching == item.status = "AUXILIARY_FETCHING"

\* _mark_error, which a worker that lost its claim does not reach.
Fail(why) ==
    /\ worker' = Idle
    /\ item' = IF Fetching THEN [item EXCEPT !.status = "MATCH_ERROR", !.why = why] ELSE item

\* An outage leaves the item as it is, for the next pass.
Wait == worker' = Idle /\ UNCHANGED item
Fault == faults < MaxFaults /\ faults' = faults + 1

-----------------------------------------------------------------------------
(* _advance_item, _ensure_directory *)

Begin ==
    /\ Busy("idle") /\ Fetching
    /\ IF item.state = "DOWNLOADING" THEN Go("poll", "stop") ELSE Go("directory", "directory")
    /\ UNCHANGED <<item, journal, disk, client, wire, past, sound, faults, meddled, retries>>

\* Mutant: a directory that is there is taken for the one to be made.
AdoptDirectory ==
    /\ Busy("directory")
    /\ IF disk # "absent" THEN Row("directory", "APPLIED") /\ Continue("directory") /\ UNCHANGED item
       ELSE Row("directory", "INTENT_RECORDED") /\ Go("mkdir", "directory") /\ UNCHANGED item
    /\ UNCHANGED <<disk, client, wire, past, sound, faults, meddled, retries>>

EnsureDirectory ==
    /\ Busy("directory")
    /\ IF journal["directory"] = "APPLIED" /\ disk = "ours" /\ Fetching
       THEN Continue("directory") /\ UNCHANGED <<item, journal>>
       ELSE IF journal["directory"] \in {"NONE", "INTENT_RECORDED"} /\ disk = "absent" /\ Fetching
       THEN Row("directory", "INTENT_RECORDED") /\ Go("mkdir", "directory") /\ UNCHANGED item
       ELSE (IF Fetching THEN Unclear("directory") ELSE UNCHANGED journal) /\ Fail("conflict")
    /\ UNCHANGED <<disk, client, wire, past, sound, faults, meddled, retries>>

\* With exist_ok=False the directory is new, or the pass ends with an error that
\* nobody takes down.
MakeDirectory ==
    /\ Busy("mkdir")
    /\ IF disk = "absent" THEN /\ disk' = "ours" /\ Go("made", "directory")
                               /\ past' = [past EXCEPT !.made = TRUE]
       ELSE worker' = Idle /\ UNCHANGED <<disk, past>>
    /\ UNCHANGED <<item, journal, client, wire, sound, faults, meddled, retries>>

DirectoryMade ==
    /\ Busy("made") /\ Row("directory", "APPLIED") /\ Continue("directory")
    /\ UNCHANGED <<item, disk, client, wire, past, sound, faults, meddled, retries>>

-----------------------------------------------------------------------------
(* The requests: look, announce, send, look again *)

\* _owned_torrent_state, _require_owned_torrent_state
Look ==
    /\ Busy("look")
    /\ IF client.torrent = "foreign"
          \/ (client.torrent = "absent" /\ worker.op \in {"select", "start", "stop"})
       THEN Fail("other")
       ELSE worker' = [worker EXCEPT !.at = "decide", !.seen = client.torrent] /\ UNCHANGED item
    /\ UNCHANGED <<journal, disk, client, wire, past, sound, faults, meddled, retries>>

Shows(op, seen) == CASE op = "add" -> seen \in Ours
                     [] op = "select" -> FALSE       \* the client is not asked
                     [] op = "start" -> seen = "running"
                     [] op = "stop" -> seen = "paused"
                     [] op = "remove" -> seen = "absent"

\* Mutant: what was announced but is not to be seen is sent again.
MaySendAgain(op) == journal[op] \in {"NONE", "INTENT_RECORDED"}

MaySend(op) == journal[op] = "NONE"

\* _record_intent fences the announcement by the item; then the row and what was
\* seen decide.  A row that is applied must not be contradicted.
Decide ==
    LET op == worker.op IN
    /\ Busy("decide")
    /\ IF ~Fetching THEN Fail("other") /\ UNCHANGED journal
       ELSE IF Shows(op, worker.seen) \/ (op = "select" /\ journal[op] = "APPLIED")
       THEN Row(op, "APPLIED") /\ Continue(op) /\ UNCHANGED item
       ELSE IF MaySend(op)
       THEN Row(op, "INTENT_RECORDED") /\ Go("send", op) /\ UNCHANGED item
       ELSE Unclear(op) /\ Fail(IF op = "start" /\ journal[op] = "APPLIED" THEN "conflict" ELSE "other")
    /\ UNCHANGED <<disk, client, wire, past, sound, faults, meddled, retries>>

\* What the request does to the client.
Works(op, c) ==
    CASE op = "add" -> IF c.torrent = "absent"
                       THEN [c EXCEPT !.torrent = "paused", !.wanted = FALSE] ELSE c
      [] op = "select" -> IF c.torrent \in Ours THEN [c EXCEPT !.wanted = TRUE] ELSE c
      [] op = "start" -> IF c.torrent \in Ours THEN [c EXCEPT !.torrent = "running"] ELSE c
      [] op = "stop" -> IF c.torrent \in Ours THEN [c EXCEPT !.torrent = "paused"] ELSE c
      [] op = "remove" -> IF c.torrent \in Ours THEN [c EXCEPT !.torrent = "absent"] ELSE c

Sent(op) == past' = [past EXCEPT !.sent[op] = @ + 1]

Send ==
    /\ Busy("send") /\ Sent(worker.op)
    /\ client' = Works(worker.op, client)
    /\ worker' = [worker EXCEPT !.at = "check", !.reply = "ok"]
    /\ UNCHANGED <<item, journal, disk, wire, sound, faults, meddled, retries>>

\* The reply is an error or never comes, and the request was done, or not, or is late.
SendFails(reply) ==
    /\ Busy("send") /\ Sent(worker.op) /\ Fault
    /\ \/ client' = Works(worker.op, client) /\ UNCHANGED wire
       \/ UNCHANGED <<client, wire>>
       \/ wire' = wire \cup {worker.op} /\ UNCHANGED client
    /\ worker' = [worker EXCEPT !.at = "check", !.reply = reply]
    /\ UNCHANGED <<item, journal, disk, sound, meddled, retries>>

\* Mutant: the selection is taken for done.
NeverLooksMostly(op, reply) == op # "start" /\ op # "select" /\ reply = "timeout"

\* After these nothing is read back: the outcome is unknown.
NeverLooks(op, reply) ==
    \/ op = "select" /\ reply # "ok"
    \/ op # "start" /\ reply = "timeout"

Check ==
    LET op == worker.op
        seen == client.torrent
    IN
    /\ Busy("check")
    /\ IF NeverLooks(op, worker.reply)
       THEN Unclear(op) /\ (Wait \/ (worker.reply = "error" /\ Fail("other")))
       ELSE IF op = "select" \/ Shows(op, seen)
       THEN Row(op, "APPLIED") /\ Continue(op) /\ UNCHANGED item
       ELSE IF seen = "foreign" \/ (op = "start" /\ worker.reply = "ok" /\ seen = "absent")
       THEN Fail("other") /\ UNCHANGED journal
       ELSE IF worker.reply = "ok"
       THEN (IF op = "stop" THEN Row(op, "NOT_OBSERVED") ELSE Unclear(op)) /\ Fail("conflict")
       ELSE Unclear(op) /\ (Wait \/ (worker.reply = "error" /\ Fail("other")))
    /\ UNCHANGED <<disk, client, wire, past, sound, faults, meddled, retries>>

\* The client does not say, before a decision or after a request.
Unreachable ==
    /\ worker.at \in {"look", "poll", "check"} /\ Fault
    /\ Busy("check") => worker.op # "select" /\ ~NeverLooks(worker.op, worker.reply)
    /\ Wait \/ Fail("other")
    /\ IF Busy("check") THEN Unclear(worker.op) ELSE UNCHANGED journal
    /\ UNCHANGED <<disk, client, wire, past, sound, meddled, retries>>

Staged ==
    /\ Busy("staged") /\ worker' = Idle
    /\ item' = IF Fetching THEN [item EXCEPT !.state = "DOWNLOADING"] ELSE item
    /\ UNCHANGED <<journal, disk, client, wire, past, sound, faults, meddled, retries>>

-----------------------------------------------------------------------------
(* _poll_downloading *)

\* Mutant: only a removal that is confirmed explains that the torrent is gone.
ConfirmedRemoval == journal["stop"] = "APPLIED" /\ journal["remove"] = "APPLIED"

RemovedByUs == journal["stop"] = "APPLIED" /\ journal["remove"] # "NONE"

\* Mutant: the files are verified as soon as they are there.
PollAtOnce ==
    /\ Busy("poll") /\ client.torrent \in Ours /\ client.files
    /\ Go("verify", "stop")
    /\ UNCHANGED <<item, journal, disk, client, wire, past, sound, faults, meddled, retries>>

Poll ==
    /\ Busy("poll")
    /\ IF client.torrent \in Ours
       THEN (IF client.files THEN Go("look", "stop") ELSE worker' = Idle) /\ UNCHANGED item
       ELSE IF client.torrent = "absent" /\ RemovedByUs /\ client.files
       THEN Go("verify", "stop") /\ UNCHANGED item
       ELSE Fail(IF client.torrent = "absent" THEN "conflict" ELSE "other")
    /\ UNCHANGED <<journal, disk, client, wire, past, sound, faults, meddled, retries>>

Verify ==
    /\ Busy("verify")
    /\ past' = [past EXCEPT !.rest = client.torrent # "running"]
    /\ IF sound THEN Go("look", "remove") /\ UNCHANGED item
       ELSE /\ worker' = Idle
            /\ item' = IF Fetching THEN [item EXCEPT !.status = "CONTENT_MISMATCH"] ELSE item
    /\ UNCHANGED <<journal, disk, client, wire, sound, faults, meddled, retries>>

\* _mark_verified
Finish ==
    /\ Busy("finish") /\ worker' = Idle
    /\ item' = IF Fetching THEN [item EXCEPT !.status = "CONTENT_VERIFIED"] ELSE item
    /\ UNCHANGED <<journal, disk, client, wire, past, sound, faults, meddled, retries>>

-----------------------------------------------------------------------------
(* The rest of the world *)

Download ==
    /\ client.torrent = "running" /\ ~client.files /\ client' = [client EXCEPT !.files = TRUE]
    /\ UNCHANGED <<item, journal, disk, worker, wire, past, sound, faults, meddled, retries>>

Arrive(op) ==
    /\ op \in wire /\ wire' = wire \ {op} /\ client' = Works(op, client)
    /\ UNCHANGED <<item, journal, disk, worker, past, sound, faults, meddled, retries>>

Crash ==
    /\ ~Busy("idle") /\ Fault /\ worker' = Idle
    /\ UNCHANGED <<item, journal, disk, client, wire, past, sound, meddled, retries>>

\* The item is taken away from the worker: deleted with its execution, or reviewed.
DropItem ==
    /\ Fetching /\ meddled < MaxMeddling /\ meddled' = meddled + 1
    /\ item' = [item EXCEPT !.status = "DROPPED"]
    /\ UNCHANGED <<journal, disk, client, worker, wire, past, sound, faults, retries>>

UserActs ==
    /\ meddled < MaxMeddling /\ meddled' = meddled + 1
    /\ \/ client.torrent = "paused" /\ client' = Works("start", client) /\ UNCHANGED disk
       \/ client.torrent \in Ours
          /\ client' \in {Works("stop", client), Works("remove", client)} /\ UNCHANGED disk
       \/ client.torrent = "absent"
          /\ client' = [client EXCEPT !.torrent = "foreign"] /\ UNCHANGED disk
       \/ disk' = "strange" /\ UNCHANGED client
    /\ UNCHANGED <<item, journal, worker, wire, past, sound, faults, retries>>

\* _queue_failed_item: only after a stop that was sent and not seen to work.
Retry ==
    /\ item.status = "MATCH_ERROR" /\ retries < MaxRetries /\ retries' = retries + 1
    /\ item.why = "conflict" /\ item.state = "DOWNLOADING"
    /\ \A op \in {"directory", "add", "select", "start"} : journal[op] = "APPLIED"
    /\ journal["stop"] = "NOT_OBSERVED" /\ journal["remove"] = "NONE"
    /\ item' = [item EXCEPT !.status = "AUXILIARY_FETCHING", !.why = "none"]
    /\ UNCHANGED <<journal, disk, client, worker, wire, past, sound, faults, meddled>>

-----------------------------------------------------------------------------

Init ==
    /\ item = [status |-> "AUXILIARY_FETCHING", state |-> "PREPARING", why |-> "none"]
    /\ journal = [op \in Operations |-> "NONE"]
    /\ disk \in {"absent", "strange"}
    /\ client \in [torrent : {"absent", "foreign"}, wanted : {FALSE}, files : {FALSE}]
    /\ worker = Idle /\ wire = {} /\ sound \in BOOLEAN
    /\ past = [sent |-> [op \in Requests |-> 0], made |-> FALSE, rest |-> FALSE]
    /\ faults = 0 /\ meddled = 0 /\ retries = 0

Next ==
    \/ Begin \/ EnsureDirectory \/ MakeDirectory \/ DirectoryMade
    \/ Look \/ Decide \/ Send \/ SendFails("error") \/ SendFails("timeout")
    \/ Check \/ Unreachable \/ Staged \/ Poll \/ Verify \/ Finish
    \/ Download \/ Crash \/ DropItem \/ UserActs \/ Retry
    \/ \E op \in Requests : Arrive(op)

Spec == Init /\ [][Next]_vars

-----------------------------------------------------------------------------

TypeOK ==
    /\ item \in [status : Statuses, state : {"PREPARING", "DOWNLOADING"},
                 why : {"none", "conflict", "other"}]
    /\ journal \in [Operations -> Rows]
    /\ disk \in {"absent", "ours", "strange"}
    /\ client \in [torrent : Seen, wanted : BOOLEAN, files : BOOLEAN]
    /\ worker.seen \in Seen /\ worker.op \in Operations
    /\ wire \subseteq Requests /\ past.sent \in [Requests -> 0..3]
    /\ faults \in 0..MaxFaults /\ meddled \in 0..MaxMeddling /\ retries \in 0..MaxRetries

\* No request goes out twice, whatever reply was lost and however often the process
\* stopped, although the rows outlive it and the item may be retried.
SentOnce == \A op \in Requests : past.sent[op] <= 1

\* The torrent is started only when nothing but the missing files is selected: what
\* it shares with the source is not downloaded a second time.
StartsSelected == past.sent["start"] > 0 /\ client.torrent \in Ours => client.wanted

\* Downloads go only into a directory that was made for the item.
InOwnDirectory == past.sent["add"] > 0 => past.made

\* What is verified stood still, and the torrent that brought it is gone: nothing
\* writes to the files any more.
VerifiedAtRest == item.status = "CONTENT_VERIFIED" =>
    client.torrent \notin Ours /\ sound /\ (past.rest \/ meddled > 0)

\* A removal that was sent is recognised by the next pass although its reply, or the
\* process, was lost: the item does not fail for want of the torrent.
RemovalRecognised ==
    [][past.sent["remove"] > 0 /\ client.torrent = "absent" /\ worker.at = "poll"
            /\ faults' = faults
        => item'.status # "MATCH_ERROR"]_vars

=============================================================================
