--------------------------- MODULE UnpackSeeding ---------------------------
(***************************************************************************)
(* The last stage of the unpack pipeline: UnpackSeedingService takes an    *)
(* item whose files are in place, adds its torrent to a downloader, has    *)
(* the downloader verify it when the plan asks for that, starts it and     *)
(* completes the item.  Each of the three RPCs is announced by a journal   *)
(* row and confirmed by reading the downloader back.                       *)
(*                                                                         *)
(* A step is one database transaction or one awaited call, the places at   *)
(* which another worker, the downloader, a user or a crash can come in     *)
(* between.  A read that is followed by a transaction that repeats it is   *)
(* part of that transaction.                                               *)
(*                                                                         *)
(* Simplifications.  All items belong to one execution and, the worst      *)
(* case, want the same torrent on the same downloader.  The frozen plan,   *)
(* candidate and generation of an item never change without its version,   *)
(* so the version stands for them in every fence.  What a user does to the *)
(* downloader or the files, the faults of RPCs and processes, and the API  *)
(* calls are bounded by a budget each.                                     *)
(***************************************************************************)
EXTENDS Naturals, FiniteSets

CONSTANTS
  Items,         \* items of the execution, FILES_MATERIALIZED at the start
  Workers,       \* runs of advance_next_batch that may overlap
  QB,            \* TRUE: qBittorrent, FALSE: Transmission
  ClientCheck,   \* client_check_required of the plan
  MaxFaults,     \* crashes, lost answers, failed reads
  MaxMeddling,   \* acts of a user on the downloader or on the files
  MaxCalls       \* retry and delete calls

ASSUME ItemsAssumption == Items # {} /\ {"none", "foreign"} \cap Items = {}
ASSUME KindAssumption == QB \in BOOLEAN /\ ClientCheck \in BOOLEAN
ASSUME BudgetAssumption ==
         MaxFaults \in Nat /\ MaxMeddling \in Nat /\ MaxCalls \in Nat

VARIABLES
  status,        \* UnpackExecutionItem.status, "DELETED" once removed
  stage,         \* execution_state["stage"]
  version,       \* the optimistic version of the item
  errorSafe,     \* last_error_code is one of _SAFE_SEED_RETRY_ERRORS
  execution,     \* UnpackExecution.status
  journal,       \* rows by item and operation; of a deleted item, the audit copy
  materialized,  \* the files and their journal rows still prove the plan
  torrent,       \* the torrent as the downloader has it
  created,       \* history: items whose own ADD made a torrent
  wire,          \* RPCs on their way to the downloader
  sent,          \* history: how often each RPC left the process
  pc, local,     \* the workers
  budget

itemVars == <<status, stage, version, errorSafe, execution>>
clientVars == <<torrent, created, wire>>
workerVars == <<pc, local>>
vars == <<status, stage, version, errorSafe, execution, journal, materialized,
          torrent, created, wire, sent, pc, local, budget>>

Ops == {"ADD", "VERIFY", "START"}
ActiveStatus == {"EXECUTING", "CLIENT_VERIFYING"}
Status == ActiveStatus \cup {"EXECUTION_ERROR", "COMPLETED", "DELETED"}
Stage == {"FILES_MATERIALIZED", "CLIENT_VERIFYING", "CLIENT_VERIFIED",
          "STARTING", "COMPLETED"}
ExecutionStatus == {"EXECUTING", "CLIENT_VERIFYING", "COMPLETED",
                    "COMPLETED_WITH_ERRORS", "FAILED", "CANCELLED"}
RowStatus == {"NONE", "INTENT_RECORDED", "APPLIED", "RECONCILE_REQUIRED"}

\* partial and complete are the stopped states, below and at 100 percent.
ClientState == {"partial", "complete", "checking", "seeding", "downloading"}
View == ClientState \cup {"absent", "alien"}

\* A journal row: ack is request_accepted, chk is checking_observed, grace the
\* age of recheck_accepted_at, before the state in before_snapshot, whole is
\* verification_complete of after_snapshot.
Row == [st : RowStatus, ack : BOOLEAN, chk : BOOLEAN, whole : BOOLEAN,
        grace : {"none", "running", "expired"}, before : View]
NoRow == [st |-> "NONE", ack |-> FALSE, chk |-> FALSE, whole |-> FALSE,
          grace |-> "none", before |-> "absent"]

Labels == {"idle", "fetch", "resume", "addLoad", "addProbe",
           "verifyProbe", "verifyLoad", "poll", "startProbe", "startLoad",
           "intent", "starting", "rpc", "reply", "recover", "confirm",
           "conclude", "commit", "added", "verified", "started",
           "failSafe", "failUnsafe"}
Marks == {"none", "applied", "snapshot", "reconcile", "drift"}
Fates == {"added", "verified", "started", "conclude", "failSafe", "failUnsafe"}
Todo == [mark : Marks, whole : BOOLEAN, chk : BOOLEAN, then : Fates]
NoTodo == [mark |-> "none", whole |-> FALSE, chk |-> FALSE, then |-> "failUnsafe"]

\* What a worker carries from one await to the next: the item and the version
\* _prepare saw, the operation it is at, the journal status and the torrent
\* state it read last, the answer of its RPC, the journal update to commit.
Local == [item : Items, ver : Nat, op : Ops, was : RowStatus, seen : View,
          reply : {"none", "ok", "refused", "error"}, todo : Todo]
Fresh(i) == [item |-> i, ver |-> 0, op |-> "ADD", was |-> "NONE",
             seen |-> "absent", reply |-> "none", todo |-> NoTodo]
AnyItem == CHOOSE i \in Items : TRUE

NoTorrent == [owner |-> "none", st |-> "partial", queued |-> FALSE,
              attested |-> FALSE]

TypeOK ==
  /\ status \in [Items -> Status]
  /\ stage \in [Items -> Stage]
  /\ version \in [Items -> Nat]
  /\ errorSafe \in [Items -> BOOLEAN]
  /\ execution \in ExecutionStatus
  /\ journal \in [Items -> [Ops -> Row]]
  /\ materialized \in [Items -> BOOLEAN]
  /\ torrent \in [owner : Items \cup {"none", "foreign"}, st : ClientState,
                  queued : BOOLEAN, attested : BOOLEAN]
  /\ created \subseteq Items
  /\ wire \subseteq [op : Ops, item : Items, by : Workers]
  /\ sent \in [Items -> [Ops -> Nat]]
  /\ pc \in [Workers -> Labels]
  /\ local \in [Workers -> Local]
  /\ budget \in [{"fault", "meddle", "call"} -> Nat]

Init ==
  /\ status = [i \in Items |-> "EXECUTING"]
  /\ stage = [i \in Items |-> "FILES_MATERIALIZED"]
  /\ version = [i \in Items |-> 1]
  /\ errorSafe = [i \in Items |-> FALSE]
  /\ execution = "EXECUTING"
  /\ journal = [i \in Items |-> [o \in Ops |-> NoRow]]
  /\ materialized = [i \in Items |-> TRUE]
  /\ torrent = NoTorrent
  /\ created = {}
  /\ wire = {}
  /\ sent = [i \in Items |-> [o \in Ops |-> 0]]
  /\ pc = [w \in Workers |-> "idle"]
  /\ local = [w \in Workers |-> Fresh(AnyItem)]
  /\ budget = [b \in {"fault", "meddle", "call"} |->
                 IF b = "fault" THEN MaxFaults
                 ELSE IF b = "meddle" THEN MaxMeddling ELSE MaxCalls]

-----------------------------------------------------------------------------
(* Reading the database and the downloader. *)

Active(i) == status[i] \in ActiveStatus

\* The journal row a query finds: deletion moves the rows to the audit table.
Visible(i, o) == IF status[i] = "DELETED" THEN NoRow ELSE journal[i][o]

\* Mutant: ownership tag and save path are not looked at.
ObserveAnyOwner(i) == IF torrent.owner = "none" THEN "absent" ELSE torrent.st

\* The state of the torrent with the item's hash; "alien" when save path or
\* ownership tag are not the item's (_require_owned_state).
Observe(i) == CASE torrent.owner = "none" -> "absent"
                [] torrent.owner = i      -> torrent.st
                [] OTHER                  -> "alien"
Owned(v) == v \in ClientState
AddSafe(v) == v \in {"partial", "complete", "checking"}

\* Mutant: any item that still exists may be written.
FencedByExistence(w) == status[local[w].item] # "DELETED"

\* The version fence every write of a worker goes through.
Fenced(w) == LET i == local[w].item
             IN  Active(i) /\ version[i] = local[w].ver

\* Mutant: the row's word is enough, whatever the after_snapshot says.
VerifyAcknowledged(i) == LET r == Visible(i, "VERIFY")
                         IN  r.st = "APPLIED" /\ r.ack

AddProven(i) == Visible(i, "ADD").st = "APPLIED"
VerifyProven(i) == LET r == Visible(i, "VERIFY")
                   IN  r.st = "APPLIED" /\ r.ack /\ r.whole
StartProven(i) == LET r == Visible(i, "START")
                  IN  r.st = "APPLIED" /\ r.ack /\ r.before = "complete"
\* What must be proven before START, and again before COMPLETED.
ReadyToStart(i) == AddProven(i) /\ (ClientCheck => VerifyProven(i))

\* Mutants: failed items are forgotten; the status of an item leaks through.
RefreshForgettingErrors(s) ==
  IF \E i \in Items : s[i] \in ActiveStatus THEN "EXECUTING" ELSE "COMPLETED"
RefreshToItemStatus(s) ==
  CASE \E i \in Items : s[i] \in ActiveStatus       -> "EXECUTING"
    [] \E i \in Items : s[i] = "EXECUTION_ERROR"    -> "EXECUTION_ERROR"
    [] OTHER                                        -> "COMPLETED"

(* _refresh_execution_state of the seeding service, over the new statuses. *)
RefreshBySeeding(s) ==
  CASE \E i \in Items : s[i] \in ActiveStatus       -> "EXECUTING"
    [] \E i \in Items : s[i] = "EXECUTION_ERROR"    -> "COMPLETED_WITH_ERRORS"
    [] OTHER                                        -> "COMPLETED"

(* _refresh_execution_state of the item actions, and the empty execution. *)
RefreshByAction(s) ==
  LET live == {i \in Items : s[i] # "DELETED"} IN
  CASE live = {}                                    -> "CANCELLED"
    [] \E i \in live : s[i] = "EXECUTING"           -> "EXECUTING"
    [] \E i \in live : s[i] = "CLIENT_VERIFYING"    -> "CLIENT_VERIFYING"
    [] \A i \in live : s[i] = "COMPLETED"           -> "COMPLETED"
    [] \A i \in live : s[i] = "EXECUTION_ERROR"     -> "FAILED"
    [] OTHER                                        -> "COMPLETED_WITH_ERRORS"

Spend(b) == budget[b] > 0 /\ budget' = [budget EXCEPT ![b] = @ - 1]

Goto(w, l) == pc' = [pc EXCEPT ![w] = l]
Keep(w, l) == Goto(w, l) /\ UNCHANGED local
Abandon(w) == Goto(w, "idle") /\ local' = [local EXCEPT ![w] = Fresh(AnyItem)]
\* Having seen the torrent in state v, leave the journal update to the next
\* transaction, which then goes on at the label "then".
Decide(w, v, mark, whole, chk, then) ==
  /\ Goto(w, "commit")
  /\ local' = [local EXCEPT ![w].seen = v, ![w].todo =
                 [mark |-> mark, whole |-> whole, chk |-> chk, then |-> then]]
Applied(w, v, then)  == Decide(w, v, "applied", TRUE, FALSE, then)
Escalate(w, v, then) == Decide(w, v, "reconcile", FALSE, FALSE, then)
Drifted(w, v)        == Decide(w, v, "drift", FALSE, FALSE, "failUnsafe")
See(w, v, l)         == Goto(w, l) /\ local' = [local EXCEPT ![w].seen = v]

OnlyWorker == UNCHANGED <<itemVars, journal, materialized, clientVars, sent>>

-----------------------------------------------------------------------------
(* _prepare and _current_stage. *)

\* The batch picks an item; _prepare checks it and its files.
Pick(w, i) ==
  /\ pc[w] = "idle"
  /\ Active(i)
  /\ local' = [local EXCEPT ![w] = [Fresh(i) EXCEPT !.ver = version[i]]]
  /\ Goto(w, IF ~materialized[i] THEN "failUnsafe"
             ELSE IF stage[i] = "FILES_MATERIALIZED" THEN "fetch" ELSE "resume")
  /\ OnlyWorker /\ UNCHANGED budget

\* The site fails, or torrent, site or downloader are not those of the plan.
PrepareFails(w) ==
  /\ \/ pc[w] = "fetch" /\ \E l \in {"failSafe", "failUnsafe"} : Keep(w, l)
     \/ pc[w] = "resume" /\ Keep(w, "failUnsafe")
  /\ Spend("fault")
  /\ OnlyWorker

\* Before ADD the torrent was fetched again; after it, the ADD row decides.
\* _current_stage then fences, and the checkpoint says what comes next.
Advance(w) ==
  LET i == local[w].item
      goTo(o, l) == Goto(w, l) /\ local' = [local EXCEPT ![w].op = o]
  IN /\ pc[w] \in {"fetch", "resume"}
     /\ IF pc[w] = "resume" /\ ~AddProven(i) THEN Keep(w, "failUnsafe")
        ELSE IF ~Fenced(w) THEN Abandon(w)
        ELSE IF stage[i] = "FILES_MATERIALIZED" THEN goTo("ADD", "addLoad")
        ELSE IF stage[i] = "CLIENT_VERIFYING" THEN goTo("VERIFY", "verifyProbe")
        ELSE goTo("START", "startProbe")
     /\ OnlyWorker /\ UNCHANGED budget

-----------------------------------------------------------------------------
(* The transactions every operation uses. *)

\* Mutant: an intent without an outcome is taken up again.
UnclaimedOrUnconfirmed(i, o) == journal[i][o].st \in {"NONE", "INTENT_RECORDED"}

\* No worker has announced the operation before.
Unclaimed(i, o) == journal[i][o].st = "NONE"

\* _record_intent: fence, file proof and journal row in one transaction.
RecordIntent(w) ==
  LET i == local[w].item  o == local[w].op IN
  /\ pc[w] = "intent"
  /\ IF Fenced(w) /\ materialized[i] /\ Unclaimed(i, o)
     THEN /\ journal' = [journal EXCEPT ![i][o] =
               [NoRow EXCEPT !.st = "INTENT_RECORDED", !.before = local[w].seen]]
          /\ Keep(w, IF o = "START" THEN "starting" ELSE "rpc")
     ELSE /\ UNCHANGED journal
          /\ IF Fenced(w) /\ ~materialized[i] THEN Keep(w, "failUnsafe")
             ELSE Abandon(w)
  /\ UNCHANGED <<itemVars, materialized, clientVars, sent, budget>>

\* Mutant: a late confirmation withdraws the reconciliation request.
WritesOverReconcile(mark, st) ==
  \/ mark \in {"applied", "snapshot", "reconcile", "drift"} /\ st = "INTENT_RECORDED"
  \/ mark = "applied" /\ st = "RECONCILE_REQUIRED"
  \/ mark = "drift" /\ st = "APPLIED"

\* The rows a mark still changes: a reconciliation request is final, and only a
\* contradiction (drift) reopens an APPLIED row.
Writes(mark, st) ==
  \/ mark \in {"applied", "snapshot", "reconcile", "drift"} /\ st = "INTENT_RECORDED"
  \/ mark = "drift" /\ st = "APPLIED"

Marked(r, t) ==
  IF t.mark = "applied"
  THEN [r EXCEPT !.st = "APPLIED", !.ack = TRUE, !.whole = t.whole]
  ELSE IF t.mark = "snapshot"
  THEN [r EXCEPT !.ack = TRUE, !.chk = t.chk,
                 !.grace = IF t.then = "conclude" THEN "running" ELSE @]
  ELSE [r EXCEPT !.st = "RECONCILE_REQUIRED"]

\* _mark_applied, _update_after_snapshot and _mark_reconcile.
Commit(w) ==
  LET i == local[w].item  o == local[w].op  t == local[w].todo
      r == Visible(i, o)
  IN
  /\ pc[w] = "commit"
  /\ IF Writes(t.mark, r.st)
     THEN /\ journal' = [journal EXCEPT ![i][o] = Marked(r, t)]
          /\ Goto(w, t.then)
     ELSE /\ UNCHANGED journal
          /\ Goto(w, IF t.mark = "applied" /\ r.st # "APPLIED"
                     THEN "failUnsafe" ELSE t.then)
  /\ local' = [local EXCEPT ![w].todo = NoTodo]
  /\ UNCHANGED <<itemVars, materialized, clientVars, sent, budget>>

\* The RPC leaves the process; what answered an earlier one is forgotten.
Send(w) ==
  LET i == local[w].item  o == local[w].op IN
  /\ pc[w] = "rpc"
  /\ wire' = wire \cup {[op |-> o, item |-> i, by |-> w]}
  /\ sent' = [sent EXCEPT ![i][o] = @ + 1]
  /\ Goto(w, "reply") /\ local' = [local EXCEPT ![w].reply = "none"]
  /\ UNCHANGED <<itemVars, journal, materialized, torrent, created, budget>>

\* An answer: accepted, not a single new torrent, or an error of the adapter.
Reply(w) ==
  /\ pc[w] = "reply"
  /\ \/ local[w].reply = "ok" /\ Keep(w, "confirm")
     \/ local[w].reply = "refused" /\ Escalate(w, local[w].seen, "failUnsafe")
     \/ local[w].reply = "error" /\ Keep(w, "recover")
  /\ OnlyWorker /\ UNCHANGED budget

\* No answer in time, or a broken connection; the request may still be on
\* its way.  A native timeout is never read as a safe failure.
ReplyLost(w) ==
  /\ pc[w] = "reply"
  /\ Spend("fault")
  /\ Escalate(w, local[w].seen, "failSafe") \/ Keep(w, "recover")
  /\ OnlyWorker

\* A read of the downloader fails: before the RPC and in the polling loop the
\* item fails, right after the RPC the journal asks for reconciliation too.
ReadFails(w) ==
  /\ Spend("fault")
  /\ \/ /\ pc[w] \in {"addProbe", "verifyProbe", "poll", "startProbe"}
        /\ \E l \in {"failSafe", "failUnsafe"} : Keep(w, l)
     \/ /\ pc[w] \in {"recover", "confirm"}
        /\ \E l \in {"failSafe", "failUnsafe"} : Escalate(w, local[w].seen, l)
  /\ OnlyWorker

\* _mark_error, fenced by the version alone.
MarkError(w) ==
  LET i == local[w].item IN
  /\ pc[w] \in {"failSafe", "failUnsafe"}
  /\ IF Fenced(w)
     THEN /\ status' = [status EXCEPT ![i] = "EXECUTION_ERROR"]
          /\ version' = [version EXCEPT ![i] = @ + 1]
          /\ errorSafe' = [errorSafe EXCEPT ![i] = (pc[w] = "failSafe")]
          /\ execution' = RefreshBySeeding(status')
     ELSE UNCHANGED <<status, version, errorSafe, execution>>
  /\ Abandon(w)
  /\ UNCHANGED <<stage, journal, materialized, clientVars, sent, budget>>

\* _set_stage: the next checkpoint, and the worker's own version with it.
SetStage(w, from, to, st) ==
  LET i == local[w].item IN
  /\ Fenced(w) /\ stage[i] = from
  /\ stage' = [stage EXCEPT ![i] = to]
  /\ status' = [status EXCEPT ![i] = st]
  /\ version' = [version EXCEPT ![i] = @ + 1]
  /\ UNCHANGED <<errorSafe, execution>>

-----------------------------------------------------------------------------
(* _ensure_added. *)

AddLoad(w) ==
  LET st == Visible(local[w].item, "ADD").st IN
  /\ pc[w] = "addLoad"
  /\ IF st = "RECONCILE_REQUIRED" THEN Keep(w, "failUnsafe")
     ELSE Goto(w, "addProbe") /\ local' = [local EXCEPT ![w].was = st]
  /\ OnlyWorker /\ UNCHANGED budget

\* Without a row any torrent of that hash is someone else's; with one, only
\* an owned and still stopped or checking torrent answers for it.
AddProbe(w) ==
  LET v == Observe(local[w].item)  was == local[w].was IN
  /\ pc[w] = "addProbe"
  /\ \/ /\ was = "NONE"
        /\ IF v = "absent" THEN See(w, v, "intent") ELSE Keep(w, "failUnsafe")
     \/ /\ was # "NONE" /\ v = "absent"
        /\ IF was = "APPLIED" THEN Drifted(w, v) ELSE Escalate(w, v, "failUnsafe")
     \/ was # "NONE" /\ v = "alien" /\ Keep(w, "failUnsafe")
     \/ was # "NONE" /\ Owned(v) /\ ~AddSafe(v) /\ Escalate(w, v, "failUnsafe")
     \/ was = "APPLIED" /\ AddSafe(v) /\ See(w, v, "added")
     \/ was = "INTENT_RECORDED" /\ AddSafe(v) /\ Applied(w, v, "added")
  /\ OnlyWorker /\ UNCHANGED budget

AddConfirm(w) ==
  LET v == Observe(local[w].item) IN
  /\ pc[w] = "confirm" /\ local[w].op = "ADD"
  /\ IF AddSafe(v) THEN Applied(w, v, "added") ELSE Escalate(w, v, "failUnsafe")
  /\ OnlyWorker /\ UNCHANGED budget

\* After an adapter error the torrent itself decides.
AddRecover(w) ==
  LET v == Observe(local[w].item) IN
  /\ pc[w] = "recover" /\ local[w].op = "ADD"
  /\ IF AddSafe(v) THEN Applied(w, v, "added")
     ELSE Escalate(w, v, IF v = "absent" THEN "failSafe" ELSE "failUnsafe")
  /\ OnlyWorker /\ UNCHANGED budget

\* Back in _advance.
Added(w) ==
  /\ pc[w] = "added"
  /\ IF ClientCheck
     THEN /\ \/ SetStage(w, "FILES_MATERIALIZED", "CLIENT_VERIFYING", "CLIENT_VERIFYING")
             \/ ~(Fenced(w) /\ stage[local[w].item] = "FILES_MATERIALIZED")
                /\ UNCHANGED itemVars
          /\ Abandon(w)
     ELSE IF local[w].seen # "complete"
     THEN Keep(w, "failSafe") /\ UNCHANGED itemVars
     ELSE \/ /\ SetStage(w, "FILES_MATERIALIZED", "CLIENT_VERIFIED", "EXECUTING")
             /\ Goto(w, "startProbe")
             /\ local' = [local EXCEPT ![w].ver = @ + 1, ![w].op = "START"]
          \/ /\ ~(Fenced(w) /\ stage[local[w].item] = "FILES_MATERIALIZED")
             /\ Abandon(w) /\ UNCHANGED itemVars
  /\ UNCHANGED <<journal, materialized, clientVars, sent, budget>>

-----------------------------------------------------------------------------
(* _ensure_verified. *)

VerifyProbe(w) ==
  LET v == Observe(local[w].item) IN
  /\ pc[w] = "verifyProbe"
  /\ IF Owned(v) THEN See(w, v, "verifyLoad") ELSE Keep(w, "failUnsafe")
  /\ OnlyWorker /\ UNCHANGED budget

\* Mutants: the grace time never ends; a preexisting 100 percent is believed.
GraceUnbounded(r) == r.grace # "none"
UnobservedPartialOnly(r, v) == ~r.chk /\ v = "partial"

GraceActive(r) == r.grace = "running"

\* The state read does not show that the accepted RECHECK has run.
Unobserved(r, v) == ~r.chk /\ (v = "partial" \/ (QB /\ r.before = "complete"))

\* An accepted RECHECK is awaited until its effect shows, for the grace time.
AwaitRecheck(w, r, v) ==
  \/ v = "checking" /\ Decide(w, v, "snapshot", FALSE, TRUE, "verified")
  \/ v \in {"seeding", "downloading"} /\ Keep(w, "verified")
  \/ /\ v \in {"complete", "partial"} /\ Unobserved(r, v)
     /\ IF GraceActive(r) THEN Keep(w, "verified")
        ELSE Escalate(w, v, "failUnsafe")
  \/ v = "complete" /\ ~Unobserved(r, v) /\ Applied(w, v, "verified")
  \/ v = "partial" /\ ~Unobserved(r, v)
     /\ Decide(w, v, "applied", FALSE, FALSE, "failUnsafe")

VerifyLoad(w) ==
  LET r == Visible(local[w].item, "VERIFY")  v == local[w].seen IN
  /\ pc[w] = "verifyLoad"
  /\ \/ r.st = "NONE" /\ Keep(w, IF v = "checking" THEN "verified" ELSE "intent")
     \/ r.st = "RECONCILE_REQUIRED" /\ Keep(w, "failUnsafe")
     \/ r.st = "APPLIED"
        /\ IF v = "complete" THEN Keep(w, "verified") ELSE Drifted(w, v)
     \/ r.st = "INTENT_RECORDED" /\ r.ack /\ AwaitRecheck(w, r, v)
     \/ r.st = "INTENT_RECORDED" /\ ~r.ack /\ Escalate(w, v, "failUnsafe")
  /\ OnlyWorker /\ UNCHANGED budget

VerifyConfirm(w) ==
  LET v == Observe(local[w].item) IN
  /\ pc[w] = "confirm" /\ local[w].op = "VERIFY"
  /\ IF ~Owned(v) THEN Escalate(w, v, "failUnsafe")
     ELSE IF QB /\ v = "partial" THEN See(w, v, "poll")
     ELSE Decide(w, v, "snapshot", FALSE, v = "checking", "conclude")
  /\ OnlyWorker /\ UNCHANGED budget

\* qBittorrent may not have begun yet and is read up to 16 times more; a read
\* that fails in this loop leaves the row as it is.
VerifyPoll(w) ==
  LET v == Observe(local[w].item) IN
  /\ pc[w] = "poll"
  /\ IF Owned(v) THEN Decide(w, v, "snapshot", FALSE, v = "checking", "conclude")
     ELSE Keep(w, "failUnsafe")
  /\ OnlyWorker /\ UNCHANGED budget

\* The last state read settles the verification or leaves it pending.
VerifyConclude(w) ==
  LET v == local[w].seen
      before == journal[local[w].item]["VERIFY"].before IN
  /\ pc[w] = "conclude"
  /\ IF v = "complete" /\ ~(QB /\ before = "complete") THEN Applied(w, v, "verified")
     ELSE IF v = "partial" /\ ~QB
     THEN Decide(w, v, "applied", FALSE, FALSE, "failUnsafe")
     ELSE Keep(w, "verified")
  /\ OnlyWorker /\ UNCHANGED budget

VerifyRecover(w) ==
  LET v == Observe(local[w].item) IN
  /\ pc[w] = "recover" /\ local[w].op = "VERIFY"
  /\ IF v = "checking" THEN Decide(w, v, "snapshot", FALSE, FALSE, "verified")
     ELSE Escalate(w, v, IF Owned(v) THEN "failSafe" ELSE "failUnsafe")
  /\ OnlyWorker /\ UNCHANGED budget

\* Back in _advance: a complete torrent counts only with a proven VERIFY row.
Verified(w) ==
  LET i == local[w].item IN
  /\ pc[w] = "verified"
  /\ \/ /\ local[w].seen # "complete" \/ Visible(i, "VERIFY").st # "APPLIED"
        /\ Abandon(w) /\ UNCHANGED itemVars
     \/ /\ local[w].seen = "complete" /\ Visible(i, "VERIFY").st = "APPLIED"
        /\ IF ~VerifyProven(i) THEN Keep(w, "failUnsafe") /\ UNCHANGED itemVars
           ELSE \/ /\ SetStage(w, "CLIENT_VERIFYING", "CLIENT_VERIFIED", "EXECUTING")
                   /\ Goto(w, "startProbe")
                   /\ local' = [local EXCEPT ![w].ver = @ + 1, ![w].op = "START"]
                \/ /\ ~(Fenced(w) /\ stage[i] = "CLIENT_VERIFYING")
                   /\ Abandon(w) /\ UNCHANGED itemVars
  /\ UNCHANGED <<journal, materialized, clientVars, sent, budget>>

-----------------------------------------------------------------------------
(* _ensure_started and _mark_completed. *)

StartProbe(w) ==
  LET v == Observe(local[w].item) IN
  /\ pc[w] = "startProbe"
  /\ IF ReadyToStart(local[w].item) /\ Owned(v) THEN See(w, v, "startLoad")
     ELSE Keep(w, "failUnsafe")
  /\ OnlyWorker /\ UNCHANGED budget

StartLoad(w) ==
  LET r == Visible(local[w].item, "START")  v == local[w].seen IN
  /\ pc[w] = "startLoad"
  /\ IF v = "seeding"
     THEN \/ r.st \in {"NONE", "RECONCILE_REQUIRED"} /\ Keep(w, "failUnsafe")
          \/ r.st = "APPLIED" /\ Keep(w, "started")
          \/ r.st = "INTENT_RECORDED"
             /\ IF r.before = "complete" THEN Applied(w, v, "started")
                ELSE Escalate(w, v, "failUnsafe")
     ELSE IF v # "complete" THEN Keep(w, "failUnsafe")
     ELSE \/ r.st = "NONE" /\ Keep(w, "intent")
          \/ r.st = "RECONCILE_REQUIRED" /\ Keep(w, "failUnsafe")
          \/ r.st = "APPLIED" /\ Drifted(w, v)
          \/ r.st = "INTENT_RECORDED" /\ r.ack /\ Keep(w, "started")
          \/ r.st = "INTENT_RECORDED" /\ ~r.ack /\ Escalate(w, v, "failUnsafe")
  /\ OnlyWorker /\ UNCHANGED budget

\* The STARTING checkpoint goes between the intent and the RPC.
SetStarting(w) ==
  /\ pc[w] = "starting"
  /\ \/ /\ SetStage(w, "CLIENT_VERIFIED", "STARTING", "EXECUTING")
        /\ Goto(w, "rpc") /\ local' = [local EXCEPT ![w].ver = @ + 1]
     \/ /\ ~(Fenced(w) /\ stage[local[w].item] = "CLIENT_VERIFIED")
        /\ Abandon(w) /\ UNCHANGED itemVars
  /\ UNCHANGED <<journal, materialized, clientVars, sent, budget>>

StartConfirm(w) ==
  LET v == Observe(local[w].item) IN
  /\ pc[w] = "confirm" /\ local[w].op = "START"
  /\ IF v = "seeding" THEN Applied(w, v, "started")
     ELSE IF v = "complete" THEN Decide(w, v, "snapshot", FALSE, FALSE, "started")
     ELSE Escalate(w, v, "failUnsafe")
  /\ OnlyWorker /\ UNCHANGED budget

StartRecover(w) ==
  LET v == Observe(local[w].item) IN
  /\ pc[w] = "recover" /\ local[w].op = "START"
  /\ IF v = "seeding" THEN Applied(w, v, "started")
     ELSE Escalate(w, v, IF Owned(v) THEN "failSafe" ELSE "failUnsafe")
  /\ OnlyWorker /\ UNCHANGED budget

\* _mark_completed re-checks files and journal in the completing transaction.
Complete(w) ==
  LET i == local[w].item IN
  /\ pc[w] = "started"
  /\ IF local[w].seen # "seeding" \/ ~Fenced(w)
        \/ stage[i] \notin {"CLIENT_VERIFIED", "STARTING"}
     THEN Abandon(w) /\ UNCHANGED itemVars
     ELSE IF ~(materialized[i] /\ ReadyToStart(i) /\ StartProven(i))
     THEN Keep(w, "failUnsafe") /\ UNCHANGED itemVars
     ELSE /\ status' = [status EXCEPT ![i] = "COMPLETED"]
          /\ stage' = [stage EXCEPT ![i] = "COMPLETED"]
          /\ version' = [version EXCEPT ![i] = @ + 1]
          /\ execution' = RefreshBySeeding(status')
          /\ UNCHANGED errorSafe
          /\ Abandon(w)
  /\ UNCHANGED <<journal, materialized, clientVars, sent, budget>>

\* The process of a worker dies or its task is cancelled.
Crash(w) ==
  /\ pc[w] # "idle"
  /\ Spend("fault")
  /\ Abandon(w)
  /\ OnlyWorker

WorkerStep(w) ==
  \/ Advance(w) \/ RecordIntent(w) \/ Commit(w) \/ Send(w)
  \/ Reply(w) \/ MarkError(w) \/ AddLoad(w) \/ AddProbe(w) \/ AddConfirm(w)
  \/ AddRecover(w) \/ Added(w) \/ VerifyProbe(w) \/ VerifyLoad(w)
  \/ VerifyConfirm(w) \/ VerifyPoll(w) \/ VerifyConclude(w) \/ VerifyRecover(w)
  \/ Verified(w)
  \/ StartProbe(w) \/ StartLoad(w) \/ SetStarting(w)
  \/ StartConfirm(w) \/ StartRecover(w) \/ Complete(w)
  \/ \E i \in Items : Pick(w, i)
WorkerFault(w) == PrepareFails(w) \/ ReplyLost(w) \/ ReadFails(w) \/ Crash(w)

-----------------------------------------------------------------------------
(* The downloader: external, as the code above reads and drives it. *)

AfterStart(st) == IF st = "complete" THEN "seeding"
                  ELSE IF st = "partial" THEN "downloading" ELSE st

Answer(m, r) ==
  local' = IF pc[m.by] = "reply" /\ local[m.by].item = m.item /\ local[m.by].op = m.op
           THEN [local EXCEPT ![m.by].reply = r] ELSE local

\* An RPC takes effect; its answer reaches the worker if it still waits.
Execute(m) ==
  LET here == torrent.owner # "none" IN
  /\ m \in wire
  /\ wire' = wire \ {m}
  /\ \/ /\ m.op = "ADD" /\ ~here
        /\ \E st \in IF QB /\ ~ClientCheck THEN {"complete"}
                     ELSE {"partial", "checking"} :
             torrent' = [NoTorrent EXCEPT !.owner = m.item, !.st = st]
        /\ created' = created \cup {m.item}
        /\ \/ Answer(m, "ok") /\ UNCHANGED budget
           \/ QB /\ Spend("fault") /\ Answer(m, "refused")   \* still pending
     \/ /\ m.op = "ADD" /\ here
        /\ Answer(m, "refused") /\ UNCHANGED <<torrent, created, budget>>
     \/ /\ m.op = "VERIFY" /\ here
        /\ torrent' = IF QB THEN [torrent EXCEPT !.queued = TRUE]
                      ELSE [torrent EXCEPT !.st = "checking"]
        /\ Answer(m, "ok") /\ UNCHANGED <<created, budget>>
     \/ /\ m.op = "START" /\ here
        /\ torrent' = [torrent EXCEPT !.st = AfterStart(@)]
        /\ Answer(m, "ok") /\ UNCHANGED <<created, budget>>
     \/ /\ m.op # "ADD" /\ ~here
        /\ Answer(m, "ok") \/ Answer(m, "error")
        /\ UNCHANGED <<torrent, created, budget>>
  /\ UNCHANGED <<itemVars, journal, materialized, sent, pc>>

\* qBittorrent acknowledges a recheck before it enters a checking state.
RecheckBegins ==
  /\ torrent.owner # "none" /\ torrent.queued
  /\ torrent' = [torrent EXCEPT !.queued = FALSE, !.st = "checking"]
  /\ UNCHANGED <<itemVars, journal, materialized, created, wire, sent, workerVars, budget>>

\* attested: the client vouched for every piece after the VERIFY intent.
AfterVerifyIntent ==
  \E i \in Items : torrent.owner = i /\ journal[i]["VERIFY"].st # "NONE"
CheckEnds ==
  /\ torrent.st = "checking" /\ ~torrent.queued
  /\ \/ torrent' = [torrent EXCEPT !.st = "complete",
                                   !.attested = @ \/ AfterVerifyIntent]
     \/ torrent' = [torrent EXCEPT !.st = "partial"]
  /\ UNCHANGED <<itemVars, journal, materialized, created, wire, sent, workerVars, budget>>
Downloaded ==
  /\ torrent.st = "downloading"
  /\ torrent' = [torrent EXCEPT !.st = "seeding",
                                !.attested = @ \/ AfterVerifyIntent]
  /\ UNCHANGED <<itemVars, journal, materialized, created, wire, sent, workerVars, budget>>

\* A user removes, adds, starts, stops or rechecks the torrent.
UserActs ==
  /\ Spend("meddle")
  /\ \/ torrent.owner # "none" /\ torrent' = NoTorrent
     \/ torrent.owner = "none"
        /\ \E st \in {"complete", "seeding"} :
             torrent' = [NoTorrent EXCEPT !.owner = "foreign", !.st = st]
     \/ /\ torrent.owner # "none"
        /\ \/ torrent.st = "complete" /\ torrent' = [torrent EXCEPT !.st = "seeding"]
           \/ torrent.st = "partial" /\ torrent' = [torrent EXCEPT !.st = "downloading"]
           \/ torrent.st = "seeding" /\ torrent' = [torrent EXCEPT !.st = "complete"]
           \/ torrent.st = "downloading" /\ torrent' = [torrent EXCEPT !.st = "partial"]
           \/ torrent.st \in {"complete", "partial"}
              /\ torrent' = [torrent EXCEPT !.st = "checking"]
  /\ UNCHANGED <<itemVars, journal, materialized, created, wire, sent, workerVars>>

\* A target file is removed or replaced after it was put in place, or put back.
FilesChange(i) ==
  /\ Spend("meddle")
  /\ materialized' = [materialized EXCEPT ![i] = ~@]
  /\ UNCHANGED <<itemVars, journal, clientVars, sent, workerVars>>

\* The 120 seconds of _recheck_grace_active pass.
GraceEnds(i) ==
  /\ journal[i]["VERIFY"].grace = "running"
  /\ journal' = [journal EXCEPT ![i]["VERIFY"].grace = "expired"]
  /\ UNCHANGED <<itemVars, materialized, clientVars, sent, workerVars, budget>>

-----------------------------------------------------------------------------
(* The API calls of unpack_item_actions on an item with journal rows. *)

\* Resume the same plan only when every effect is proven and none is past ADD.
Retry(i) ==
  /\ Spend("call")
  /\ status[i] = "EXECUTION_ERROR" /\ errorSafe[i]
  /\ stage[i] = "FILES_MATERIALIZED"
  /\ journal[i]["ADD"].st \in {"NONE", "APPLIED"}
  /\ \A o \in Ops \ {"ADD"} : journal[i][o].st = "NONE"
  /\ status' = [status EXCEPT ![i] = "EXECUTING"]
  /\ errorSafe' = [errorSafe EXCEPT ![i] = FALSE]
  /\ version' = [version EXCEPT ![i] = @ + 1]
  /\ execution' = RefreshByAction(status')
  /\ UNCHANGED <<stage, journal, materialized, clientVars, sent, workerVars>>

\* delete_item archives the rows and removes the item, whatever its worker does.
Delete(i) ==
  /\ Spend("call")
  /\ status[i] # "DELETED"
  /\ status' = [status EXCEPT ![i] = "DELETED"]
  /\ execution' = RefreshByAction(status')
  /\ UNCHANGED <<stage, version, errorSafe, journal, materialized, clientVars,
                 sent, workerVars>>

ClientStep == RecheckBegins \/ CheckEnds \/ Downloaded

Next ==
  \/ \E w \in Workers : WorkerStep(w) \/ WorkerFault(w)
  \/ \E m \in wire : Execute(m)
  \/ ClientStep
  \/ UserActs
  \/ \E i \in Items : FilesChange(i) \/ GraceEnds(i) \/ Retry(i) \/ Delete(i)

Spec == Init /\ [][Next]_vars

\* The driver ticks for ever, the downloader answers, finishes its checks, and
\* time passes; nothing makes users, faults or API calls happen.
Fairness ==
  /\ \A w \in Workers : WF_vars(WorkerStep(w))
  /\ WF_vars(\E m \in wire : Execute(m))
  /\ WF_vars(RecheckBegins) /\ WF_vars(CheckEnds)
  /\ \A i \in Items : WF_vars(GraceEnds(i))

FairSpec == Spec /\ Fairness

-----------------------------------------------------------------------------
(* Properties. *)

\* No RPC of an item is ever sent twice, whatever crashes, times out, is
\* retried or raced by another worker ("never blindly re-add" of the tests).
AtMostOnce == \A i \in Items, o \in Ops : sent[i][o] <= 1

\* An RPC that left the process has a row, in the journal or in its audit copy.
WriteAhead == \A i \in Items, o \in Ops : sent[i][o] > 0 => journal[i][o].st # "NONE"

\* An ADD row is APPLIED only for a torrent this item's own RPC created; a
\* torrent someone else added is never adopted.
AddIsOurs ==
  \A i \in Items : journal[i]["ADD"].st = "APPLIED" => i \in created

\* START is sent only after VERIFY was confirmed with every piece in place.
StartAfterVerify ==
  \A i \in Items : ClientCheck /\ sent[i]["START"] > 0 =>
     journal[i]["VERIFY"].st \in {"APPLIED", "RECONCILE_REQUIRED"}
     /\ journal[i]["VERIFY"].whole

\* A torrent that was complete before RECHECK was asked for is taken as verified
\* only if the client vouched for it again after the intent.
RecheckReallyRan ==
  \A i \in Items :
     LET r == journal[i]["VERIFY"]
     IN  r.st = "APPLIED" /\ r.whole /\ r.before = "complete"
         /\ torrent.owner = i => torrent.attested

\* A COMPLETED item stays so, whatever a late worker still writes.
CompletedStays ==
  [][\A i \in Items :
       status[i] = "COMPLETED" => status'[i] \in {"COMPLETED", "DELETED"}]_vars

\* The execution reads COMPLETED only when every item that is left is.
ExecutionTruthful ==
  execution = "COMPLETED" => \A i \in Items : status[i] \in {"COMPLETED", "DELETED"}

\* Every row follows the promise of ExternalOperation.
Promise == INSTANCE ExternalOperation WITH
  Keys <- Items \X Ops,
  record <- [k \in Items \X Ops |-> journal[k[1]][k[2]].st],
  dispatched <- [k \in Items \X Ops |-> sent[k[1]][k[2]]]
KeepsPromise == Promise!Spec

\* As long as nobody meddles with the downloader, every item is eventually settled.
Untouched == budget["meddle"] = MaxMeddling
Settles == []Untouched => \A i \in Items : Active(i) ~> ~Active(i)

\* "An APPLIED journal is already backed by a confirmed external observation";
\* only a new contradiction reopens it.  Stated where nobody contradicts it.
AppliedIsKept ==
  [][\A i \in Items, o \in Ops :
       journal[i][o].st = "APPLIED" => journal'[i][o].st = "APPLIED"]_vars

\* "A 100% client read is not proof that this RECHECK request ever ran."
RecheckProven ==
  \A i \in Items :
     LET r == journal[i]["VERIFY"]
     IN  r.st = "APPLIED" /\ r.whole /\ torrent.owner = i => torrent.attested
=============================================================================
