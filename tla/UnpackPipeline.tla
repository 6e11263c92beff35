--------------------------- MODULE UnpackPipeline ---------------------------
(***************************************************************************)
(* One execution of the unpack pipeline: UnpackDriver runs discovery,      *)
(* matching, content verification, auxiliary files, planning, file         *)
(* placement and seeding over it, one phase after the other in every tick, *)
(* and then projects its result to the notification outbox.  A phase is    *)
(* entered only for the execution statuses its list_* query selects, and   *)
(* every service ends its transactions by recomputing the execution status *)
(* from the items in its own way.  The management API writes to the same   *)
(* items between any two transactions.                                     *)
(*                                                                         *)
(* A step is one transaction, together with the reads it repeats.  A       *)
(* worker that waits for a site, a downloader or a hash holds a job, the   *)
(* item as it was claimed.                                                 *)
(*                                                                         *)
(* Simplifications.  Batch stands for the batch size of every phase.  An   *)
(* item has two candidates, so the limit of three automatic attempts is    *)
(* not reached.  A transaction raises the item version once.  Auxiliary,   *)
(* file and seeding work on the outside is reduced to the fact that it has *)
(* left journal rows and whether its failure may be resumed; seeding is    *)
(* modelled step by step in UnpackSeeding.                                 *)
(***************************************************************************)
EXTENDS Naturals, FiniteSets

CONSTANTS
  Items,         \* the source objects of the execution
  Excluded,      \* items an exclusion rule of the file filter may name
  NeedsAux,      \* candidates whose torrent lacks only auxiliary files
  Page,          \* discovery page
  Batch,         \* items a phase works on in one tick
  MaxRetries,    \* max_retries of the definition
  MaxFaults,     \* crashes, failing batches, bad references, risk control, outages
  MaxCalls       \* calls of the management API

ASSUME ItemsAssumption == IsFiniteSet(Items) /\ Items # {}
ASSUME SubsetAssumption == Excluded \subseteq Items /\ NeedsAux \subseteq Nat
ASSUME BoundAssumption == /\ Page \in Nat \ {0} /\ Batch \in Nat \ {0}
                          /\ MaxRetries \in Nat /\ MaxFaults \in Nat /\ MaxCalls \in Nat

VARIABLES
  item,          \* the UnpackExecutionItem rows
  execution,     \* UnpackExecution.status
  complete,      \* UnpackExecution.discovery_complete
  phase,         \* where the driver is in its tick
  working,       \* the execution was selected for this phase
  left, batch,   \* what is left of the batch: a number of claims, a list of items
  job,           \* the item the worker of the phase holds
  touched,       \* the execution was selected by a phase of this tick
  announced,     \* results in the notification outbox
  budget

driverVars == <<phase, working, left, batch, job, touched, announced>>
vars == <<item, execution, complete, phase, working, left, batch, job, touched,
          announced, budget>>

Candidates == 1..2

\* UNSEEN and GONE are not statuses of a row: it is not discovered yet, or it
\* was filtered out or deleted.
Status == {"UNSEEN", "GONE", "MATCH_PENDING", "MATCHING", "MATCHED_AUTO",
           "REVIEW_REQUIRED", "MATCHED_MANUAL", "NO_MATCH", "MATCH_TIMEOUT",
           "MATCH_ERROR", "TORRENT_FETCHING", "AUXILIARY_FETCHING",
           "CONTENT_VERIFYING", "CONTENT_VERIFIED", "CONTENT_MISMATCH",
           "PLAN_PENDING", "EXECUTING", "CLIENT_VERIFYING", "COMPLETED",
           "EXECUTION_ERROR", "CANCELLED"}
ExecutionStatus == {"DISCOVERING", "MATCHING", "REVIEW_REQUIRED",
                    "CONTENT_VERIFYING", "EXECUTING", "CLIENT_VERIFYING",
                    "COMPLETED", "COMPLETED_WITH_ERRORS", "FAILED", "CANCELLED"}
TerminalExecution == {"COMPLETED", "COMPLETED_WITH_ERRORS", "FAILED", "CANCELLED"}
Verification == {"NOT_CHECKED", "VERIFYING", "VERIFIED", "MISMATCH", "UNAVAILABLE"}

\* gen is candidate_generation, cand the selected candidate (0 for none), auto
\* match_origin = AUTO, checks verification_status of the candidates, aux
\* auxiliary_state["state"], due that auto_retry_not_before has passed, effects
\* the kinds of journal rows, stage execution_state["stage"], ready and planned
\* the verdict and item_version_before of the frozen plan, resumable that
\* last_error_code and the rows allow a retry to resume, proven the generation
\* and candidate a verification last succeeded for (history), named that an
\* exclusion rule names the item.
Item == [status : Status, version : Nat, gen : Nat, cand : 0..2, auto : BOOLEAN,
         checks : [Candidates -> Verification],
         aux : {"NONE", "PENDING_FETCH", "PREPARING", "DOWNLOADING", "READY"},
         due : BOOLEAN, retries : Nat,
         effects : SUBSET {"auxiliary", "execution"},
         stage : {"NONE", "MATERIALIZING", "FILES_MATERIALIZED", "SEEDING"},
         ready : BOOLEAN, planned : Nat, resumable : BOOLEAN,
         proven : Nat \X (0..2), named : BOOLEAN]
Unchecked == [c \in Candidates |-> "NOT_CHECKED"]
NewItem == [status |-> "UNSEEN", version |-> 0, gen |-> 0, cand |-> 0,
            auto |-> FALSE, checks |-> Unchecked, aux |-> "NONE", due |-> TRUE,
            retries |-> 0, effects |-> {}, stage |-> "NONE", ready |-> FALSE,
            planned |-> 0, resumable |-> FALSE, proven |-> <<0, 0>>,
            named |-> FALSE]

Phases == {"discover", "match", "verify", "auxiliary", "plan", "files", "seed",
           "project"}
Steps == {"none", "search", "fetch", "hash", "prepare", "stage", "poll", "build",
          "write", "settle", "seed"}
Job == [step : Steps, of : Items, ver : Nat, gen : Nat, cand : 0..2]
NoJob == [step |-> "none", of |-> CHOOSE i \in Items : TRUE,
          ver |-> 0, gen |-> 0, cand |-> 0]

TypeOK ==
  /\ item \in [Items -> Item]
  /\ execution \in ExecutionStatus
  /\ complete \in BOOLEAN /\ working \in BOOLEAN /\ touched \in BOOLEAN
  /\ phase \in Phases
  /\ left \in 0..Batch
  /\ batch \subseteq Items
  /\ job \in Job
  /\ announced \subseteq {"COMPLETED", "COMPLETED_WITH_ERRORS"}
  /\ budget \in [{"fault", "call"} -> Nat]

Init ==
  /\ \E X \in SUBSET Excluded :
       item = [i \in Items |-> [NewItem EXCEPT !.named = i \in X]]
  /\ execution = "DISCOVERING"
  /\ complete = FALSE
  /\ phase = "discover"
  /\ working = FALSE
  /\ left = 0
  /\ batch = {}
  /\ job = NoJob
  /\ touched = FALSE
  /\ announced = {}
  /\ budget = [fault |-> MaxFaults, call |-> MaxCalls]

-----------------------------------------------------------------------------
(* The execution status, as each service recomputes it from the items. *)

Rows(it) == {i \in Items : it[i].status \notin {"UNSEEN", "GONE"}}
Some(it, S) == \E i \in Items : it[i].status \in S
All(it, S) == \A i \in Rows(it) : it[i].status \in S

NotMatched == {"NO_MATCH", "MATCH_TIMEOUT", "MATCH_ERROR"}
Failures == NotMatched \cup {"CONTENT_MISMATCH", "EXECUTION_ERROR"}
\* Mutant: an item that waits for verification does not count.
ContentStarted == {"TORRENT_FETCHING", "AUXILIARY_FETCHING", "CONTENT_VERIFYING",
                   "CONTENT_VERIFIED"}
ContentActive == {"MATCHED_AUTO", "MATCHED_MANUAL", "TORRENT_FETCHING",
                  "AUXILIARY_FETCHING", "CONTENT_VERIFYING", "CONTENT_VERIFIED"}
ExecutionActive == {"CONTENT_VERIFIED", "PLAN_PENDING", "EXECUTING",
                    "CLIENT_VERIFYING"}

\* Mutant: the status of the items is written to the execution.
RefreshToPending(it) ==
  IF Some(it, {"MATCH_PENDING"}) THEN "MATCH_PENDING" ELSE "COMPLETED_WITH_ERRORS"

RefreshDiscovery(it) ==
  IF Some(it, {"MATCH_PENDING"}) THEN "MATCHING"
  ELSE IF Rows(it) = {}          THEN "COMPLETED"
  ELSE                                "COMPLETED_WITH_ERRORS"

\* Mutant: only a search under way keeps the execution matching.
RefreshIgnoringPending(it) ==
  IF Some(it, {"MATCHING"})                                THEN "MATCHING"
  ELSE IF Some(it, {"MATCHED_AUTO", "REVIEW_REQUIRED"})    THEN "CONTENT_VERIFYING"
  ELSE IF Some(it, NotMatched)                             THEN "COMPLETED_WITH_ERRORS"
  ELSE                                                          "COMPLETED"

RefreshMatching(it) ==
  IF Some(it, {"MATCH_PENDING", "MATCHING"}) THEN "MATCHING"
  ELSE IF Some(it, {"REVIEW_REQUIRED"})      THEN "REVIEW_REQUIRED"
  ELSE IF Some(it, {"MATCHED_AUTO"})         THEN "CONTENT_VERIFYING"
  ELSE IF ~Some(it, NotMatched)              THEN "COMPLETED"
  ELSE IF All(it, NotMatched)                THEN "FAILED"
  ELSE                                            "COMPLETED_WITH_ERRORS"

RefreshContent(it, failed) ==
  IF Some(it, ContentActive)            THEN "CONTENT_VERIFYING"
  ELSE IF Some(it, {"REVIEW_REQUIRED"}) THEN "REVIEW_REQUIRED"
  ELSE IF Some(it, failed)              THEN "COMPLETED_WITH_ERRORS"
  ELSE                                       execution
RefreshVerification(it) == RefreshContent(it, NotMatched \cup {"CONTENT_MISMATCH"})
RefreshAuxiliary(it) == RefreshContent(it, {"CONTENT_MISMATCH", "MATCH_ERROR"})

\* The same in the planning, the placement and the seeding service.
RefreshExecuting(it) ==
  IF Some(it, ExecutionActive)                             THEN "EXECUTING"
  ELSE IF Some(it, {"MATCH_ERROR", "EXECUTION_ERROR"})     THEN "COMPLETED_WITH_ERRORS"
  ELSE IF All(it, {"COMPLETED"})                           THEN "COMPLETED"
  ELSE                                                          execution

RefreshActions(it) ==
  IF Some(it, {"MATCH_PENDING", "MATCHING"})       THEN "MATCHING"
  ELSE IF Some(it, {"REVIEW_REQUIRED"})            THEN "REVIEW_REQUIRED"
  ELSE IF Some(it, ContentActive)                  THEN "CONTENT_VERIFYING"
  ELSE IF Some(it, {"PLAN_PENDING", "EXECUTING"})  THEN "EXECUTING"
  ELSE IF Some(it, {"CLIENT_VERIFYING"})           THEN "CLIENT_VERIFYING"
  ELSE IF All(it, {"COMPLETED"})                   THEN "COMPLETED"
  ELSE IF All(it, Failures)                        THEN "FAILED"
  ELSE IF Some(it, Failures)                       THEN "COMPLETED_WITH_ERRORS"
  ELSE                                                  execution

-----------------------------------------------------------------------------
(* Transactions, claims and the driver's tick. *)

Bumped(r) == [r EXCEPT !.version = @ + 1]
Saved(i, r) == [item EXCEPT ![i] = Bumped(r)]

\* A transaction writes item i as r and recomputes the execution status.
Commit(i, r, Refresh(_)) ==
  /\ item' = Saved(i, r)
  /\ execution' = Refresh(Saved(i, r))

Hold(step, i, r) ==
  job' = [step |-> step, of |-> i, ver |-> r.version, gen |-> r.gen, cand |-> r.cand]
Holds(steps) == job.step \in steps
Free == job.step = "none"

\* Mutants: a result is written as long as the item exists and was not matched anew.
CurrentByGeneration(S) == item[job.of].status # "GONE" /\ item[job.of].gen = job.gen
UnchangedByGeneration(S) == CurrentByGeneration(S) /\ item[job.of].cand # 0

\* The fences of results: the item is still in one of the statuses S with the
\* generation and candidate of the claim, or even with its version.
Current(S) == /\ item[job.of].status \in S
              /\ item[job.of].gen = job.gen
              /\ item[job.of].cand = job.cand
Unchanged(S) == Current(S) /\ item[job.of].version = job.ver

\* The job ends with a fenced transaction.
Conclude(fence, r, Refresh(_)) ==
  /\ IF fence THEN Commit(job.of, r, Refresh) ELSE UNCHANGED <<item, execution>>
  /\ job' = NoJob

Spend(b) == budget[b] > 0 /\ budget' = [budget EXCEPT ![b] = @ - 1]

NextPhase == [discover |-> "match", match |-> "verify", verify |-> "auxiliary",
              auxiliary |-> "plan", plan |-> "files", files |-> "seed",
              seed |-> "project"]
LeavePhase ==
  /\ phase' = NextPhase[phase]
  /\ working' = FALSE
  /\ left' = 0
  /\ batch' = {}
StayInPhase == UNCHANGED <<phase, working, left, batch>>
Claiming(p) == phase = p /\ working /\ Free /\ left > 0
Working(p) == phase = p /\ working

\* What the list query of a phase that works on a list of items returns.
Eligible(p) ==
  {i \in Items : LET r == item[i] IN
     \/ p = "auxiliary" /\ r.status = "AUXILIARY_FETCHING"
     \/ p = "plan" /\ r.status = "CONTENT_VERIFIED"
     \/ p = "files" /\ r.status = "PLAN_PENDING" /\ r.ready
     \/ p = "files" /\ r.status = "EXECUTING" /\ r.stage = "MATERIALIZING"
     \/ p = "seed" /\ r.status \in {"EXECUTING", "CLIENT_VERIFYING"}
                   /\ r.stage \in {"FILES_MATERIALIZED", "SEEDING"}}

\* The list_* query of a phase selects the execution.
Selected ==
  \/ phase = "match" /\ execution = "MATCHING" /\ Some(item, {"MATCH_PENDING"})
  \/ phase = "verify" /\ execution \in {"CONTENT_VERIFYING", "REVIEW_REQUIRED"}
                      /\ Some(item, {"MATCHED_AUTO", "MATCHED_MANUAL"})
  \/ phase = "auxiliary" /\ execution = "CONTENT_VERIFYING"
                         /\ Eligible("auxiliary") # {}
  \/ phase \in {"plan", "files", "seed"} /\ Eligible(phase) # {}
  \/ phase = "files" /\ Some(item, {"EXECUTING"})

EnterPhase ==
  /\ ~working /\ Selected
  /\ working' = TRUE
  /\ touched' = TRUE
  /\ left' = IF phase \in {"match", "verify"} THEN Batch ELSE 0
  /\ \E b \in SUBSET Eligible(phase) :
       /\ Cardinality(b) = IF Cardinality(Eligible(phase)) < Batch
                           THEN Cardinality(Eligible(phase)) ELSE Batch
       /\ batch' = b
  /\ UNCHANGED <<item, execution, complete, phase, job, announced, budget>>

PassPhase ==
  /\ phase \notin {"discover", "project"}
  /\ ~working /\ ~Selected
  /\ LeavePhase
  /\ UNCHANGED <<item, execution, complete, job, touched, announced, budget>>

EndBatch ==
  /\ working /\ Free /\ left = 0 /\ batch = {}
  /\ LeavePhase
  /\ UNCHANGED <<item, execution, complete, job, touched, announced, budget>>

\* Mutant: only a full success is announced.
AnnouncesSuccess == touched /\ execution = "COMPLETED"

Announces == touched /\ execution \in {"COMPLETED", "COMPLETED_WITH_ERRORS"}

\* Only a finished execution that this tick selected is projected, and the
\* outbox takes a result once.
Project ==
  /\ phase = "project"
  /\ announced' = IF Announces THEN announced \cup {execution} ELSE announced
  /\ phase' = "discover"
  /\ touched' = FALSE
  /\ UNCHANGED <<item, execution, complete, working, left, batch, job, budget>>

-----------------------------------------------------------------------------
(* Discovery and matching. *)

\* One page of the source becomes items: to be matched, already in error when
\* the source has changed since it was selected, or no item at all when the
\* file filter leaves it out.
Discover ==
  /\ phase = "discover"
  /\ IF execution = "DISCOVERING" /\ ~complete
     THEN LET unseen == {i \in Items : item[i].status = "UNSEEN"} IN
          \E page \in SUBSET unseen :
          \E fate \in [page -> {"MATCH_PENDING", "MATCH_ERROR", "GONE"}] :
            LET found == [i \in Items |-> IF i \in page
                            THEN [item[i] EXCEPT !.status = fate[i], !.version = 1]
                            ELSE item[i]]
            IN /\ Cardinality(page) = IF Cardinality(unseen) < Page
                                      THEN Cardinality(unseen) ELSE Page
               /\ item' = found
               /\ complete' = (page = unseen)
               /\ execution' = IF complete' THEN RefreshDiscovery(found) ELSE execution
               /\ touched' = TRUE
     ELSE UNCHANGED <<item, complete, execution, touched>>
  /\ LeavePhase
  /\ UNCHANGED <<job, announced, budget>>

Pending == {i \in Items : item[i].status = "MATCH_PENDING" /\ item[i].due}

Named == {i \in Items : item[i].named}

\* The claim loop cancels the excluded items it meets before the one it takes.
Skipping(skip) ==
  [i \in Items |-> IF i \in skip
     THEN Bumped([item[i] EXCEPT !.status = "CANCELLED", !.cand = 0,
                                 !.auto = FALSE, !.aux = "NONE"])
     ELSE item[i]]

\* _defer_pending_items: a site under risk control parks what is pending.
Deferring(it, but) ==
  [i \in Items |-> IF it[i].status = "MATCH_PENDING" /\ i \notin but
                   THEN Bumped([it[i] EXCEPT !.due = FALSE]) ELSE it[i]]

MatchClaim(i) ==
  /\ Claiming("match") /\ execution = "MATCHING"
  /\ i \in Pending \ Named
  /\ \E skip \in SUBSET (Pending \cap Named) :
       LET r == Bumped([item[i] EXCEPT !.status = "MATCHING", !.gen = @ + 1,
                                       !.cand = 0, !.checks = Unchecked])
       IN /\ item' = [Skipping(skip) EXCEPT ![i] = r]
          /\ Hold("search", i, r)
  /\ left' = left - 1
  /\ UNCHANGED <<execution, complete, phase, working, batch, touched, announced, budget>>

\* Nothing to claim is left.
MatchExhausted ==
  /\ Claiming("match")
  /\ \/ execution # "MATCHING" /\ UNCHANGED <<item, execution>>
     \/ /\ execution = "MATCHING" /\ Pending \subseteq Named
        /\ item' = Skipping(Pending)
        /\ execution' = RefreshMatching(Skipping(Pending))
  /\ LeavePhase
  /\ UNCHANGED <<complete, job, touched, announced, budget>>

\* A site of the snapshot is disabled by risk control.
MatchDeferred ==
  /\ Claiming("match") /\ execution = "MATCHING" /\ Pending # {}
  /\ Spend("fault")
  /\ item' = Deferring(item, {})
  /\ execution' = RefreshMatching(Deferring(item, {}))
  /\ LeavePhase
  /\ UNCHANGED <<complete, job, touched, announced>>

\* The item does not describe a searchable unit.
MatchRefused(i) ==
  /\ Claiming("match") /\ execution = "MATCHING"
  /\ i \in Pending \ Named
  /\ Spend("fault")
  /\ \E skip \in SUBSET (Pending \cap Named) :
       LET new == [Skipping(skip) EXCEPT
                     ![i] = Bumped([@ EXCEPT !.status = "MATCH_ERROR"])]
       IN item' = new /\ execution' = RefreshMatching(new)
  /\ LeavePhase
  /\ UNCHANGED <<complete, job, touched, announced>>

\* _reset_item_for_match_retry
Reset(r, automatic) ==
  [r EXCEPT !.status = "MATCH_PENDING", !.gen = @ + 1, !.cand = 0, !.auto = FALSE,
            !.checks = Unchecked, !.aux = "NONE", !.due = ~automatic,
            !.retries = IF automatic THEN @ + 1 ELSE 0, !.stage = "NONE",
            !.ready = FALSE, !.planned = 0, !.resumable = FALSE]

\* What a search ends with.  A template match reuses the verification status its
\* candidate had when it was accepted.  Under risk control the item itself may
\* be parked as well.
MatchResults(r, risk) ==
  LET matched == [r EXCEPT !.status = "MATCHED_AUTO", !.cand = 1, !.auto = TRUE]
      without == [r EXCEPT !.cand = 0, !.auto = FALSE]
  IN {matched, [matched EXCEPT !.checks = <<"VERIFIED", "UNAVAILABLE">>]}
     \cup {[without EXCEPT !.status = s] : s \in {"REVIEW_REQUIRED", "MATCH_ERROR"}}
     \cup (IF r.retries < MaxRetries THEN {Reset(r, TRUE)} ELSE {})
     \cup (IF risk THEN {[without EXCEPT !.status = "MATCH_PENDING", !.due = FALSE]}
           ELSE {[without EXCEPT !.status = s] : s \in {"NO_MATCH", "MATCH_TIMEOUT"}})

MatchFinish ==
  /\ phase = "match" /\ Holds({"search"})
  /\ \E risk \in BOOLEAN : \E r \in MatchResults(item[job.of], risk) :
       /\ IF risk THEN Spend("fault") ELSE UNCHANGED budget
       /\ IF Current({"MATCHING"})
          THEN LET new == [IF risk THEN Deferring(item, {job.of}) ELSE item
                             EXCEPT ![job.of] = Bumped(r)]
               IN item' = new /\ execution' = RefreshMatching(new) /\ StayInPhase
          ELSE UNCHANGED <<item, execution>> /\ LeavePhase
  /\ job' = NoJob
  /\ UNCHANGED <<complete, touched, announced>>

-----------------------------------------------------------------------------
(* Content verification. *)

Matched == {"MATCHED_AUTO", "MATCHED_MANUAL"}
Verifying == {"TORRENT_FETCHING", "AUXILIARY_FETCHING", "CONTENT_VERIFYING"}
Checked(r, v) == [r.checks EXCEPT ![r.cand] = v]

VerifyClaim(i) ==
  /\ Claiming("verify") /\ execution \in {"CONTENT_VERIFYING", "REVIEW_REQUIRED"}
  /\ item[i].status \in Matched
  /\ LET r == [item[i] EXCEPT !.status = "TORRENT_FETCHING",
                              !.checks = Checked(item[i], "VERIFYING")]
     IN item' = Saved(i, r) /\ Hold("fetch", i, Bumped(r))
  /\ left' = left - 1
  /\ UNCHANGED <<execution, complete, phase, working, batch, touched, announced, budget>>

VerifyExhausted ==
  /\ Claiming("verify")
  /\ \/ /\ execution \notin {"CONTENT_VERIFYING", "REVIEW_REQUIRED"}
        /\ UNCHANGED execution
     \/ /\ execution \in {"CONTENT_VERIFYING", "REVIEW_REQUIRED"}
        /\ ~Some(item, Matched)
        /\ execution' = RefreshVerification(item)
  /\ LeavePhase
  /\ UNCHANGED <<item, complete, job, touched, announced, budget>>

\* _mark_claim_error: the candidate or its site reference cannot be used.
VerifyRefused(i) ==
  /\ Claiming("verify") /\ execution \in {"CONTENT_VERIFYING", "REVIEW_REQUIRED"}
  /\ item[i].status \in Matched
  /\ Spend("fault")
  /\ Commit(i, [item[i] EXCEPT !.status = IF @ = "MATCHED_MANUAL" THEN "MATCH_ERROR"
                                          ELSE "REVIEW_REQUIRED"],
            RefreshVerification)
  /\ LeavePhase
  /\ UNCHANGED <<complete, job, touched, announced>>

\* The torrent is there; what it lacks decides the phase that is shown.
VerifyFetched ==
  /\ Holds({"fetch"})
  /\ IF Current({"TORRENT_FETCHING"})
     THEN LET r == [item[job.of] EXCEPT !.status =
                      IF item[job.of].cand \in NeedsAux THEN "AUXILIARY_FETCHING"
                      ELSE "CONTENT_VERIFYING"]
          IN Commit(job.of, r, RefreshVerification) /\ Hold("hash", job.of, Bumped(r))
     ELSE job' = NoJob /\ UNCHANGED <<item, execution>>
  /\ StayInPhase
  /\ UNCHANGED <<complete, touched, announced, budget>>

\* _finalize_failure, of the fetch or of the hashing
VerifyFails ==
  /\ Holds({"fetch", "hash"})
  /\ LET r == item[job.of] IN
     Conclude(Current(Verifying),
              [r EXCEPT !.status = IF @ = "CONTENT_VERIFYING" THEN "REVIEW_REQUIRED"
                                   ELSE "MATCH_ERROR",
                        !.checks = Checked(r, "UNAVAILABLE")],
              RefreshVerification)
  /\ StayInPhase
  /\ UNCHANGED <<complete, touched, announced, budget>>

Verified(r) == [r EXCEPT !.status = "CONTENT_VERIFIED",
                         !.checks = Checked(r, "VERIFIED"),
                         !.proven = <<r.gen, r.cand>>]
Mismatched(r, v) == [r EXCEPT !.status = "CONTENT_MISMATCH", !.aux = "NONE",
                              !.checks = Checked(r, v)]

\* A mismatch of an automatic match may move on to another candidate.
Fallbacks(r, v) ==
  {[r EXCEPT !.status = "MATCHED_AUTO", !.cand = c, !.checks = Checked(r, v),
             !.aux = "NONE"] :
     c \in {d \in Candidates : /\ r.auto /\ r.effects = {}
                               /\ r.status = "CONTENT_VERIFYING"
                               /\ d # r.cand /\ r.checks[d] = "NOT_CHECKED"}}

Outcomes(r) ==
  (UNION {{Mismatched(r, v)} \cup Fallbacks(r, v) : v \in {"MISMATCH", "UNAVAILABLE"}})
  \cup IF r.cand \in NeedsAux
       THEN {[r EXCEPT !.status = "AUXILIARY_FETCHING", !.aux = "PENDING_FETCH",
                       !.checks = Checked(r, "UNAVAILABLE")]}
       ELSE {[Verified(r) EXCEPT !.aux = "NONE"],
             [r EXCEPT !.status = "REVIEW_REQUIRED", !.aux = "NONE",
                       !.checks = Checked(r, "UNAVAILABLE")]}

VerifyFinish ==
  /\ Holds({"hash"})
  /\ \E r \in IF Current(Verifying) THEN Outcomes(item[job.of])
               ELSE {item[job.of]} :
       Conclude(Current(Verifying), r, RefreshVerification)
  /\ StayInPhase
  /\ UNCHANGED <<complete, touched, announced, budget>>

-----------------------------------------------------------------------------
(* Auxiliary files. *)

\* An item of the list that is no longer what the phase works on.
Drop(i) ==
  /\ working /\ Free
  /\ i \in batch /\ i \notin Eligible(phase)
  /\ batch' = batch \ {i}
  /\ UNCHANGED <<item, execution, complete, phase, working, left, job, touched,
                 announced, budget>>

Takes(i) == Free /\ i \in batch \cap Eligible(phase) /\ batch' = batch \ {i}
SameItems == UNCHANGED <<item, execution>>
KeepTick == UNCHANGED <<complete, phase, working, left, touched, announced, budget>>

AuxiliaryLoad(i) ==
  /\ Working("auxiliary") /\ Takes(i)
  /\ IF item[i].aux = "NONE"
     THEN /\ Commit(i, [item[i] EXCEPT !.status = "MATCH_ERROR", !.resumable = FALSE],
                    RefreshAuxiliary)
          /\ UNCHANGED job
     ELSE /\ Hold(IF item[i].aux = "DOWNLOADING" THEN "poll" ELSE "prepare", i, item[i])
          /\ SameItems
  /\ KeepTick

\* The PREPARING checkpoint, and the version it makes is fenced from then on.
AuxiliaryPrepare ==
  /\ Holds({"prepare"})
  /\ IF Unchanged({"AUXILIARY_FETCHING"})
     THEN LET r == [item[job.of] EXCEPT !.aux = "PREPARING"] IN
          item' = Saved(job.of, r) /\ Hold("stage", job.of, Bumped(r))
     ELSE job' = NoJob /\ UNCHANGED item
  /\ UNCHANGED <<execution, batch>> /\ KeepTick

\* The staging directory and the torrent are announced by journal rows.
AuxiliaryStage ==
  /\ Holds({"stage"})
  /\ IF Unchanged({"AUXILIARY_FETCHING"})
     THEN /\ item' = [item EXCEPT ![job.of].effects = @ \cup {"auxiliary"}]
          /\ job' = [job EXCEPT !.step = "settle"]
     ELSE job' = NoJob /\ UNCHANGED item
  /\ UNCHANGED <<execution, batch>> /\ KeepTick

AuxiliaryStaged ==
  /\ Working("auxiliary") /\ Holds({"settle"})
  /\ item' = IF Unchanged({"AUXILIARY_FETCHING"})
             THEN Saved(job.of, [item[job.of] EXCEPT !.aux = "DOWNLOADING"]) ELSE item
  /\ job' = NoJob
  /\ UNCHANGED <<execution, batch>> /\ KeepTick

\* The files have arrived and the whole content was checked.
AuxiliaryFinish ==
  /\ Holds({"poll"})
  /\ \E r \in {[Verified(item[job.of]) EXCEPT !.aux = "READY"],
               [Mismatched(item[job.of], "MISMATCH") EXCEPT !.aux = "DOWNLOADING"]} :
       Conclude(Unchanged({"AUXILIARY_FETCHING"}), r, RefreshAuxiliary)
  /\ UNCHANGED batch /\ KeepTick

\* The files are not there yet.
AuxiliaryWaits ==
  /\ Holds({"poll"})
  /\ job' = NoJob
  /\ SameItems /\ UNCHANGED batch /\ KeepTick

\* The downloader or the site cannot be reached: the next tick tries again.
AuxiliaryUnavailable ==
  /\ Working("auxiliary") /\ Holds({"prepare", "stage", "settle", "poll"})
  /\ Spend("fault")
  /\ job' = NoJob
  /\ SameItems
  /\ UNCHANGED <<complete, phase, working, left, batch, touched, announced>>

AuxiliaryFails ==
  /\ Working("auxiliary") /\ Holds({"prepare", "stage", "settle", "poll"})
  /\ LET r == item[job.of] IN
     \E b \in IF r.aux = "DOWNLOADING" /\ r.effects = {"auxiliary"}
              THEN BOOLEAN ELSE {FALSE} :
       Conclude(Unchanged({"AUXILIARY_FETCHING"}),
                [r EXCEPT !.status = "MATCH_ERROR", !.resumable = b], RefreshAuxiliary)
  /\ UNCHANGED batch /\ KeepTick

-----------------------------------------------------------------------------
(* Planning, file placement, seeding. *)

PlanLoad(i) ==
  /\ Working("plan") /\ Takes(i)
  /\ Hold("build", i, item[i])
  /\ SameItems /\ KeepTick

\* _persist_plan: whatever the other items do, the execution is executing.
Executes(it) == "EXECUTING"
PlanBuilt ==
  /\ Holds({"build"})
  /\ LET r == item[job.of] IN
     \E ready \in BOOLEAN :
       Conclude(Unchanged({"CONTENT_VERIFIED"}) /\ r.checks[r.cand] = "VERIFIED",
                [r EXCEPT !.status = "PLAN_PENDING", !.ready = ready,
                          !.planned = r.version],
                Executes)
  /\ UNCHANGED batch /\ KeepTick

PlanFails ==
  /\ Holds({"build"})
  /\ Conclude(Unchanged({"CONTENT_VERIFIED"}),
              [item[job.of] EXCEPT !.status = "EXECUTION_ERROR"], RefreshExecuting)
  /\ UNCHANGED batch /\ KeepTick

\* _reserve_and_load_plan: the plan was made for exactly this version.
FilesReserve(i) ==
  /\ Working("files") /\ Takes(i)
  /\ LET r == item[i] IN
     IF r.status = "EXECUTING" THEN Hold("write", i, r) /\ SameItems
     ELSE IF r.version = r.planned + 1
     THEN LET s == [r EXCEPT !.status = "EXECUTING", !.stage = "MATERIALIZING"] IN
          item' = Saved(i, s) /\ Hold("write", i, Bumped(s)) /\ UNCHANGED execution
     ELSE /\ Commit(i, [r EXCEPT !.status = "EXECUTION_ERROR"], RefreshExecuting)
          /\ UNCHANGED job
  /\ KeepTick

Placing == Unchanged({"EXECUTING"}) /\ item[job.of].stage = "MATERIALIZING"

\* The first journal row of a directory or file of the plan.
FilesWrite ==
  /\ Holds({"write"})
  /\ IF Placing
     THEN /\ item' = [item EXCEPT ![job.of].effects = @ \cup {"execution"}]
          /\ job' = [job EXCEPT !.step = "settle"]
     ELSE job' = NoJob /\ UNCHANGED item
  /\ UNCHANGED <<execution, batch>> /\ KeepTick

FilesMaterialized ==
  /\ Working("files") /\ Holds({"settle"})
  /\ item' = IF Placing THEN Saved(job.of, [item[job.of] EXCEPT !.stage = "FILES_MATERIALIZED"])
             ELSE item
  /\ job' = NoJob
  /\ UNCHANGED <<execution, batch>> /\ KeepTick

FilesFail ==
  /\ Working("files") /\ Holds({"write", "settle"})
  /\ Conclude(Placing, [item[job.of] EXCEPT !.status = "EXECUTION_ERROR",
                                            !.resumable = FALSE], RefreshExecuting)
  /\ UNCHANGED batch /\ KeepTick

SeedLoad(i) ==
  /\ Working("seed") /\ Takes(i)
  /\ Hold("seed", i, item[i])
  /\ SameItems /\ KeepTick

Seeding == Unchanged({"EXECUTING", "CLIENT_VERIFYING"})

\* A checkpoint on the way: the client verifies, or has verified, the torrent.
SeedAdvance ==
  /\ Holds({"seed"}) /\ item[job.of].stage = "FILES_MATERIALIZED"
  /\ \E s \in {"EXECUTING", "CLIENT_VERIFYING"} :
       item' = IF Seeding THEN Saved(job.of, [item[job.of] EXCEPT !.status = s,
                                                !.stage = "SEEDING"]) ELSE item
  /\ job' = NoJob
  /\ UNCHANGED <<execution, batch>> /\ KeepTick

SeedWaits ==
  /\ Holds({"seed"})
  /\ job' = NoJob
  /\ SameItems /\ UNCHANGED batch /\ KeepTick

SeedFinish ==
  /\ Holds({"seed"})
  /\ Conclude(Seeding, [item[job.of] EXCEPT !.status = "COMPLETED"], RefreshExecuting)
  /\ UNCHANGED batch /\ KeepTick

SeedFails ==
  /\ Holds({"seed"})
  /\ LET r == item[job.of] IN
     \E b \in IF r.stage = "FILES_MATERIALIZED" /\ r.effects = {"execution"}
              THEN BOOLEAN ELSE {FALSE} :
       Conclude(Seeding, [r EXCEPT !.status = "EXECUTION_ERROR", !.resumable = b],
                RefreshExecuting)
  /\ UNCHANGED batch /\ KeepTick

-----------------------------------------------------------------------------
(* Time, faults and the management API. *)

TimePasses(i) ==
  /\ item[i].status = "MATCH_PENDING" /\ ~item[i].due
  /\ item' = [item EXCEPT ![i].due = TRUE]
  /\ UNCHANGED <<execution, complete, driverVars, budget>>

\* The process stops, or its driver is cancelled: the tick and its job are gone.
Crash ==
  /\ Spend("fault")
  /\ phase' = "discover" /\ working' = FALSE /\ left' = 0 /\ batch' = {}
  /\ job' = NoJob
  /\ touched' = FALSE
  /\ UNCHANGED <<item, execution, complete, announced>>

\* An exception leaves the batch, and the driver goes on to the next phase.
BatchFails ==
  /\ working
  /\ Spend("fault")
  /\ LeavePhase
  /\ job' = NoJob
  /\ UNCHANGED <<item, execution, complete, touched, announced>>

Call == Spend("call") /\ UNCHANGED <<complete, driverVars>>

Reviewable == {"REVIEW_REQUIRED", "MATCHED_AUTO", "TORRENT_FETCHING",
               "CONTENT_VERIFYING", "CONTENT_VERIFIED", "PLAN_PENDING"}

\* A decision withdraws everything that was concluded from the former candidate.
Decided(r, s, c) ==
  [r EXCEPT !.status = s, !.cand = c, !.auto = FALSE, !.aux = "NONE", !.due = TRUE,
            !.ready = FALSE, !.planned = 0, !.stage = "NONE", !.resumable = FALSE]
MayReview(r) == r.status \in Reviewable /\ r.effects = {}

Approve(i) ==
  /\ MayReview(item[i])
  /\ \E c \in Candidates :
       Commit(i, Decided(item[i], "MATCHED_MANUAL", c), RefreshActions)
  /\ Call

Reject(i) ==
  /\ MayReview(item[i])
  /\ Commit(i, Decided(item[i], "NO_MATCH", 0), RefreshActions)
  /\ Call

\* add of the manual candidates: a new candidate, or one that is there again.
AddCandidate(i) ==
  /\ item[i].status = "REVIEW_REQUIRED" /\ item[i].effects = {}
  /\ \E c \in Candidates :
       item' = Saved(i, [item[i] EXCEPT !.checks = [@ EXCEPT ![c] = "NOT_CHECKED"]])
  /\ UNCHANGED execution
  /\ Call

\* retry_match: from scratch without journal rows, else only where they allow
\* to resume the same plan or the same auxiliary download.
RetryMatch(i) ==
  LET r == item[i] IN
  /\ r.status \in NotMatched \cup {"EXECUTION_ERROR"}
  /\ \/ r.effects = {} /\ Commit(i, Reset(r, FALSE), RefreshActions)
     \/ /\ r.effects # {} /\ r.resumable
        /\ Commit(i, [r EXCEPT !.resumable = FALSE, !.status =
                        IF @ = "MATCH_ERROR" THEN "AUXILIARY_FETCHING" ELSE "EXECUTING"],
                  RefreshActions)
  /\ Call

Rematchable == Failures \cup Matched \cup {"REVIEW_REQUIRED"}
\* Mutant: a bulk retry takes the items a single retry would refuse.
BulkAnything(r) == r.status # "GONE"

\* _bulk_rematch_safety_reason finds nothing the item has left outside.
BulkSafe(r) == r.effects = {}

\* retry_eligible_items, for the item statuses a user selects
RetryAll ==
  /\ \E S \in SUBSET (Rematchable \cap {item[i].status : i \in Items}) :
       LET again == {i \in Items : item[i].status \in S /\ BulkSafe(item[i])}
           new == [i \in Items |-> IF i \in again THEN Bumped(Reset(item[i], FALSE))
                                   ELSE item[i]]
       IN again # {} /\ item' = new /\ execution' = RefreshActions(new)
  /\ Call

\* delete_item: the row goes, and with it the candidates and journal rows.
Delete(i) ==
  /\ i \in Rows(item) /\ item[i].status \notin {"MATCH_PENDING", "MATCHING"}
  /\ LET new == [item EXCEPT ![i] = [NewItem EXCEPT !.status = "GONE"]] IN
     /\ item' = new
     /\ execution' = IF Rows(new) = {} THEN "CANCELLED" ELSE RefreshActions(new)
  /\ Call

-----------------------------------------------------------------------------

Match == MatchExhausted \/ MatchDeferred \/ MatchFinish
         \/ \E i \in Items : MatchClaim(i) \/ MatchRefused(i)
Verify == VerifyExhausted \/ VerifyFetched \/ VerifyFails \/ VerifyFinish
          \/ \E i \in Items : VerifyClaim(i) \/ VerifyRefused(i)
Auxiliary == AuxiliaryPrepare \/ AuxiliaryStage \/ AuxiliaryStaged \/ AuxiliaryFinish
             \/ AuxiliaryWaits \/ AuxiliaryUnavailable \/ AuxiliaryFails
             \/ \E i \in Items : AuxiliaryLoad(i)
Plan == PlanBuilt \/ PlanFails \/ \E i \in Items : PlanLoad(i)
Files == FilesWrite \/ FilesMaterialized \/ FilesFail \/ \E i \in Items : FilesReserve(i)
Seed == SeedAdvance \/ SeedWaits \/ SeedFinish \/ SeedFails \/ \E i \in Items : SeedLoad(i)

Driver == EnterPhase \/ PassPhase \/ EndBatch \/ Project \/ Discover \/ Match \/ Verify
          \/ Auxiliary \/ Plan \/ Files \/ Seed \/ \E i \in Items : Drop(i)

Api == RetryAll \/ \E i \in Items : Approve(i) \/ Reject(i) \/ AddCandidate(i)
                                    \/ RetryMatch(i) \/ Delete(i)

Next == Driver \/ Api \/ Crash \/ BatchFails \/ \E i \in Items : TimePasses(i)

Spec == Init /\ [][Next]_vars

\* The driver loop never stops, time passes, and what an item waits for outside
\* (an auxiliary download, the client) happens if the driver keeps asking.
Answered(i) ==
  /\ job.of = i
  /\ AuxiliaryPrepare \/ AuxiliaryStage \/ AuxiliaryStaged \/ AuxiliaryFinish
     \/ SeedFinish
FairSpec ==
  /\ Spec /\ WF_vars(Driver)
  /\ \A i \in Items : WF_vars(TimePasses(i)) /\ SF_vars(Answered(i))

-----------------------------------------------------------------------------
(* Safety. *)

Beyond == {"CONTENT_VERIFIED", "PLAN_PENDING", "EXECUTING", "CLIENT_VERIFYING",
           "COMPLETED"}

\* No item gets past content verification, into a plan, a file or a torrent,
\* unless the very candidate it selects now was verified in the generation it
\* has now, whatever reviews, retries and reused matches came in between.
VerifiedBeforePlan ==
  \A i \in Items : item[i].status \in Beyond =>
                     item[i].proven = <<item[i].gen, item[i].cand>>

\* The same, of states that have their type.
PlansAreProven == TypeOK /\ VerifiedBeforePlan

\* An item with journal rows keeps its candidate and generation: neither a
\* review, a retry, a bulk retry nor a fallback moves it to another torrent.
EffectPinsCandidate ==
  [][\A i \in Items : item[i].effects # {} /\ item'[i].effects # {} =>
       item'[i].cand = item[i].cand /\ item'[i].gen = item[i].gen]_vars

\* The result of a worker is written only over the version its own last
\* transaction left: a review, retry or deletion made while it was fetching,
\* hashing, planning or writing is never overwritten.
DecisionKept ==
  [][\A i \in Items : job # NoJob /\ job' # job /\ job.of = i /\ item'[i] # item[i] =>
       item[i].version = job.ver]_vars

InFlight == {"MATCH_PENDING", "MATCHING", "TORRENT_FETCHING", "AUXILIARY_FETCHING",
             "CONTENT_VERIFYING", "MATCHED_AUTO", "MATCHED_MANUAL", "CONTENT_VERIFIED",
             "EXECUTING", "CLIENT_VERIFYING"}

\* While nobody calls the API the execution is not declared finished, and its
\* result is not announced, as long as an item is still on its way.
TerminalTruthful ==
  execution \in TerminalExecution => ~Some(item, InFlight \cup {"UNSEEN"})

-----------------------------------------------------------------------------
(* Liveness, under FairSpec. *)

\* An item that is on its way ends, or comes to wait for a human.
Settles == \A i \in Items : item[i].status \in InFlight ~> item[i].status \notin InFlight

\* A finished execution is announced, unless it is taken up again.
ResultAnnounced ==
  \A s \in {"COMPLETED", "COMPLETED_WITH_ERRORS"} :
     execution = s ~> execution # s \/ s \in announced

\* What waits for verification, matched or approved, or for an auxiliary download
\* the driver has begun, is taken further by the phase that claims such items.
Waiting == {"MATCHED_AUTO", "MATCHED_MANUAL", "AUXILIARY_FETCHING"}
WaitingIsServed ==
  \A i \in Items : item[i].status \in Waiting ~> item[i].status \notin Waiting

\* What a crash interrupted is taken up again.
InterruptedResumes ==
  \A i \in Items : item[i].status \in {"MATCHING", "TORRENT_FETCHING", "CONTENT_VERIFYING"}
                     ~> item[i].status \notin {"MATCHING", "TORRENT_FETCHING", "CONTENT_VERIFYING"}

\* An execution all of whose items have ended ends.
ExecutionEnds ==
  All(item, Failures \cup {"COMPLETED", "CANCELLED"}) /\ complete /\ Rows(item) # {}
    ~> execution \in TerminalExecution
=============================================================================
