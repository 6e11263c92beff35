------------------------ MODULE UnpackPipelineProofs ------------------------
(***************************************************************************)
(* Proofs about UnpackPipeline for any number of items, any batch sizes,   *)
(* faults and API calls: the types, that no plan is made of an unverified  *)
(* candidate, that effects pin the candidate of an item, and that no late  *)
(* result overwrites a decision.                                           *)
(***************************************************************************)
EXTENDS UnpackPipeline, TLAPS

ProvenNow(r) == r.proven = <<r.gen, r.cand>>

\* Nothing has left the process for an item that is still to be matched.
Early == {"UNSEEN", "MATCH_PENDING", "MATCHING"}

\* What holds of every row.  A row may be resumed only from an error, and from
\* an execution error only with the candidate that was verified.
RowInv(r) ==
  /\ r \in Item
  /\ r.status \in Beyond => ProvenNow(r)
  /\ r.resumable => \/ r.status = "MATCH_ERROR"
                    \/ r.status = "EXECUTION_ERROR" /\ ProvenNow(r)
  /\ r.status \in Early => r.effects = {}

ItemsInv(it) == it \in [Items -> Item] /\ \A i \in Items : RowInv(it[i])

\* The statuses of an item whose worker is at a step.
HeldAs == {<<"search", "MATCHING">>, <<"fetch", "TORRENT_FETCHING">>,
           <<"hash", "AUXILIARY_FETCHING">>, <<"hash", "CONTENT_VERIFYING">>,
           <<"prepare", "AUXILIARY_FETCHING">>, <<"stage", "AUXILIARY_FETCHING">>,
           <<"settle", "AUXILIARY_FETCHING">>, <<"poll", "AUXILIARY_FETCHING">>,
           <<"build", "CONTENT_VERIFIED">>, <<"write", "EXECUTING">>,
           <<"settle", "EXECUTING">>, <<"seed", "EXECUTING">>,
           <<"seed", "CLIENT_VERIFYING">>}

\* The worker's item is as it was claimed, or a user has taken it away, to where
\* no result of this worker is accepted.
Held(j, r) == /\ r.version = j.ver /\ r.gen = j.gen /\ r.cand = j.cand
              /\ <<j.step, r.status>> \in HeldAs
TakenAway == {"MATCHED_MANUAL", "NO_MATCH", "MATCH_PENDING", "GONE"}

JobInv ==
  /\ job \in Job
  /\ job.step = "none" => job = NoJob
  /\ job.step # "none" => Held(job, item[job.of]) \/ item[job.of].status \in TakenAway

\* The driver and its tick.
TickInv ==
  /\ execution \in ExecutionStatus
  /\ complete \in BOOLEAN /\ working \in BOOLEAN /\ touched \in BOOLEAN
  /\ phase \in Phases /\ (working => phase # "project")
  /\ left \in 0..Batch /\ batch \subseteq Items
  /\ announced \subseteq {"COMPLETED", "COMPLETED_WITH_ERRORS"}
  /\ budget \in [{"fault", "call"} -> Nat]

\* The inductive invariant.
PipelineInv == ItemsInv(item) /\ JobInv /\ TickInv

\* What a step may do to a row.
RowStep(r, s) ==
  /\ RowInv(s)
  /\ r.effects # {} /\ s.effects # {} => s.cand = r.cand /\ s.gen = r.gen

ItemsStep(old, new) ==
  /\ new \in [Items -> Item]
  /\ \A i \in Items : RowStep(old[i], new[i])

\* What a step that ends or changes a job may do to its item.
ResultIsFenced ==
  job # NoJob /\ job' # job =>
    item'[job.of] = item[job.of] \/ item[job.of].version = job.ver

Sound == ItemsStep(item, item') /\ JobInv' /\ TickInv' /\ ResultIsFenced

-----------------------------------------------------------------------------
(* Rows: what each transaction writes. *)

LEMMA SameRow == ASSUME NEW r, RowInv(r) PROVE RowStep(r, r)
BY DEF RowStep

LEMMA UncheckedType == Unchecked \in [Candidates -> Verification]
BY DEF Unchecked, Verification

LEMMA CheckedType ==
  ASSUME NEW r \in Item, NEW v \in Verification
  PROVE  Checked(r, v) \in [Candidates -> Verification]
BY DEF Checked, Item

LEMMA BumpedStep ==
  ASSUME NEW r, NEW s, RowStep(r, s) PROVE RowStep(r, Bumped(s))
BY DEF RowStep, RowInv, Bumped, Item, ProvenNow

LEMMA StatusFacts ==
  /\ {"UNSEEN", "GONE", "MATCH_PENDING", "MATCHING", "MATCHED_AUTO", "REVIEW_REQUIRED",
      "MATCHED_MANUAL"} \subseteq Status
  /\ {"NO_MATCH", "MATCH_TIMEOUT", "MATCH_ERROR", "CONTENT_MISMATCH", "EXECUTION_ERROR",
      "CANCELLED"} \subseteq Status
  /\ {"TORRENT_FETCHING", "AUXILIARY_FETCHING", "CONTENT_VERIFYING", "CONTENT_VERIFIED",
      "PLAN_PENDING", "EXECUTING", "CLIENT_VERIFYING", "COMPLETED"} \subseteq Status
BY DEF Status

LEMMA NumberFacts == 0 \in 0..2 /\ 1 \in 0..2 /\ 0 \in Nat
OBVIOUS

LEMMA ResetType ==
  ASSUME NEW r \in Item, NEW a \in BOOLEAN PROVE Reset(r, a) \in Item
<1>1. "MATCH_PENDING" \in Status
  BY StatusFacts
<1>2. r.gen + 1 \in Nat /\ r.retries + 1 \in Nat
  BY DEF Item
<1>3. (IF a THEN r.retries + 1 ELSE 0) \in Nat
  BY <1>2
<1>4. (~a) \in BOOLEAN
  OBVIOUS
<1> QED BY <1>1, <1>2, <1>3, <1>4, UncheckedType, NumberFacts DEF Reset, Item

LEMMA ResetStep ==
  ASSUME NEW r, RowInv(r), r.effects = {}, NEW a \in BOOLEAN
  PROVE  RowStep(r, Reset(r, a))
<1>1. r \in Item
  BY DEF RowInv
<1>2. /\ Reset(r, a).status = "MATCH_PENDING" /\ Reset(r, a).effects = {}
      /\ Reset(r, a).resumable = FALSE
  BY <1>1 DEF Reset, Item
<1> QED BY <1>1, <1>2, ResetType DEF RowStep, RowInv, Beyond

\* A row that keeps its effects and its candidate's proof, if it has any.
LEMMA EditStep ==
  ASSUME NEW r, RowInv(r), NEW s \in Item,
         s.status \notin Beyond \cup Early \/ (s.effects = {} /\ s.status \notin Beyond),
         s.resumable = FALSE, s.effects # {} => s.cand = r.cand /\ s.gen = r.gen
  PROVE  RowStep(r, s)
BY DEF RowStep, RowInv

LEMMA MatchResultsStep ==
  ASSUME NEW r, RowInv(r), r.status = "MATCHING", NEW risk \in BOOLEAN,
         NEW s \in MatchResults(r, risk)
  PROVE  RowStep(r, s)
<1>1. r \in Item /\ r.effects = {} /\ r.resumable = FALSE
  BY DEF RowInv, Early
<1>2. ASSUME NEW u \in [Candidates -> Verification],
             s = [r EXCEPT !.status = "MATCHED_AUTO", !.cand = 1, !.auto = TRUE,
                           !.checks = u]
      PROVE  RowStep(r, s)
  <2>1. s \in Item
    BY <1>1, <1>2, StatusFacts, NumberFacts DEF Item
  <2>2. s.status = "MATCHED_AUTO" /\ s.effects = {} /\ s.resumable = FALSE
    BY <1>1, <1>2 DEF Item
  <2> QED BY <2>1, <2>2, EditStep DEF Beyond
<1>3. CASE s = [r EXCEPT !.status = "MATCHED_AUTO", !.cand = 1, !.auto = TRUE]
  <2>1. s \in Item
    BY <1>1, <1>3, StatusFacts, NumberFacts DEF Item
  <2>2. s.status = "MATCHED_AUTO" /\ s.effects = {} /\ s.resumable = FALSE
    BY <1>1, <1>3 DEF Item
  <2> QED BY <2>1, <2>2, EditStep DEF Beyond
<1>4. <<"VERIFIED", "UNAVAILABLE">> \in [Candidates -> Verification]
  BY DEF Candidates, Verification
<1>5. ASSUME NEW x \in {"REVIEW_REQUIRED", "MATCH_ERROR", "NO_MATCH", "MATCH_TIMEOUT",
                        "MATCH_PENDING"},
             NEW d \in BOOLEAN,
             s = [r EXCEPT !.cand = 0, !.auto = FALSE, !.status = x, !.due = d]
      PROVE  RowStep(r, s)
  <2>1. s \in Item
    BY <1>1, <1>5, StatusFacts, NumberFacts DEF Item
  <2>2. s.status = x /\ s.effects = {} /\ s.resumable = FALSE
    BY <1>1, <1>5 DEF Item
  <2> QED BY <2>1, <2>2, EditStep DEF Beyond
<1>6. CASE s = Reset(r, TRUE)
  BY <1>1, <1>6, ResetStep
<1>7. ASSUME NEW x \in {"REVIEW_REQUIRED", "MATCH_ERROR", "NO_MATCH", "MATCH_TIMEOUT"},
             s = [r EXCEPT !.cand = 0, !.auto = FALSE, !.status = x]
      PROVE  RowStep(r, s)
  <2>1. s \in Item
    BY <1>1, <1>7, StatusFacts, NumberFacts DEF Item
  <2>2. s.status = x /\ s.effects = {} /\ s.resumable = FALSE
    BY <1>1, <1>7 DEF Item
  <2> QED BY <2>1, <2>2, EditStep DEF Beyond
<1>8. \/ s = [r EXCEPT !.status = "MATCHED_AUTO", !.cand = 1, !.auto = TRUE]
      \/ s = [r EXCEPT !.status = "MATCHED_AUTO", !.cand = 1, !.auto = TRUE,
                       !.checks = <<"VERIFIED", "UNAVAILABLE">>]
      \/ \E x \in {"REVIEW_REQUIRED", "MATCH_ERROR", "NO_MATCH", "MATCH_TIMEOUT"} :
           s = [r EXCEPT !.cand = 0, !.auto = FALSE, !.status = x]
      \/ s = Reset(r, TRUE)
      \/ s = [r EXCEPT !.cand = 0, !.auto = FALSE, !.status = "MATCH_PENDING",
                       !.due = FALSE]
  BY Zenon DEF MatchResults
<1> QED BY <1>2, <1>3, <1>4, <1>5, <1>6, <1>7, <1>8

LEMMA VerifiedStep ==
  ASSUME NEW r, RowInv(r), r.status \notin Early, r.resumable = FALSE
  PROVE  RowStep(r, Verified(r)) /\ Verified(r).checks = Checked(r, "VERIFIED")
<1>1. r \in Item /\ "VERIFIED" \in Verification
  BY DEF RowInv, Verification
<1>2. <<r.gen, r.cand>> \in Nat \X (0..2)
  BY <1>1 DEF Item
<1>3. Checked(r, "VERIFIED") \in [Candidates -> Verification]
  BY <1>1, CheckedType
<1>4. Verified(r) \in Item
  BY <1>1, <1>2, <1>3, StatusFacts DEF Verified, Item
<1>5. /\ Verified(r).status = "CONTENT_VERIFIED" /\ Verified(r).resumable = FALSE
      /\ Verified(r).proven = <<r.gen, r.cand>> /\ Verified(r).gen = r.gen
      /\ Verified(r).cand = r.cand /\ Verified(r).checks = Checked(r, "VERIFIED")
  BY <1>1 DEF Verified, Item
<1> QED BY <1>4, <1>5 DEF RowStep, RowInv, ProvenNow, Early

\* A row that stays on the candidate that was verified.
LEMMA StayStep ==
  ASSUME NEW r, RowInv(r), ProvenNow(r), NEW s \in Item,
         s.proven = r.proven, s.gen = r.gen, s.cand = r.cand, s.status \notin Early,
         s.resumable => s.status \in {"MATCH_ERROR", "EXECUTION_ERROR"}
  PROVE  RowStep(r, s)
BY DEF RowStep, RowInv, ProvenNow

-----------------------------------------------------------------------------
(* States: the helpers. *)

LEMMA SavedStep ==
  ASSUME ItemsInv(item), NEW i \in Items, NEW s, RowStep(item[i], s)
  PROVE  ItemsStep(item, Saved(i, s))
<1>1. RowStep(item[i], Bumped(s)) /\ Bumped(s) \in Item
  BY BumpedStep DEF RowStep, RowInv
<1>2. \A j \in Items : RowStep(item[j], item[j])
  BY SameRow DEF ItemsInv
<1> QED BY <1>1, <1>2 DEF ItemsStep, ItemsInv, Saved

LEMMA SameItemsStep ==
  ASSUME ItemsInv(item), UNCHANGED item PROVE ItemsStep(item, item')
BY SameRow DEF ItemsStep, ItemsInv

LEMMA RefreshTypes ==
  ASSUME TickInv, NEW it
  PROVE  {RefreshDiscovery(it), RefreshMatching(it), RefreshVerification(it),
          RefreshAuxiliary(it), RefreshExecuting(it), RefreshActions(it),
          Executes(it)} \subseteq ExecutionStatus
<1>1. execution \in ExecutionStatus
  BY DEF TickInv
<1>2. \A f : RefreshContent(it, f) \in ExecutionStatus
  BY <1>1 DEF RefreshContent, ExecutionStatus
<1> QED BY <1>1, <1>2
        DEF RefreshDiscovery, RefreshMatching, RefreshVerification, RefreshAuxiliary,
            RefreshExecuting, RefreshActions, Executes, ExecutionStatus

LEMMA NoJobType == NoJob \in Job /\ NoJob.step = "none"
BY ItemsAssumption DEF NoJob, Job, Steps

LEMMA HoldType ==
  ASSUME NEW st \in Steps, NEW i \in Items, NEW r \in Item, Hold(st, i, r)
  PROVE  /\ job' \in Job /\ job'.step = st /\ job'.of = i /\ job'.ver = r.version
         /\ job'.gen = r.gen /\ job'.cand = r.cand
BY DEF Hold, Job, Item

\* A worker that begins.
LEMMA BeginsSound ==
  ASSUME PipelineInv, Free, NEW st \in Steps, NEW i \in Items, NEW r \in Item,
         Hold(st, i, r), item'[i] = r, <<st, r.status>> \in HeldAs
  PROVE  JobInv' /\ ResultIsFenced
<1>1. job = NoJob
  BY DEF PipelineInv, JobInv, Free
<1>2. Held(job', item'[job'.of])
  BY HoldType DEF Held
<1>3. (Held(job, item[job.of]))' = Held(job', item'[job'.of])
  BY DEF Held
<1> QED BY <1>1, <1>2, <1>3, HoldType DEF JobInv, ResultIsFenced, HeldAs

\* A worker that ends.
LEMMA EndsSound ==
  ASSUME PipelineInv, job' = NoJob,
         item'[job.of] = item[job.of] \/ item[job.of].version = job.ver
  PROVE  JobInv' /\ ResultIsFenced
BY NoJobType DEF JobInv, ResultIsFenced

\* What the fences show.
LEMMA FenceShows ==
  ASSUME PipelineInv, job.step # "none", NEW S, Current(S), S \cap TakenAway = {}
  PROVE  Held(job, item[job.of]) /\ item[job.of].version = job.ver
BY DEF PipelineInv, JobInv, Held, Current

LEMMA SpendType ==
  ASSUME TickInv, NEW b \in {"fault", "call"}, Spend(b)
  PROVE  budget' \in [{"fault", "call"} -> Nat]
BY DEF TickInv, Spend

LEMMA NextPhaseType ==
  ASSUME NEW p \in Phases, p # "project" PROVE NextPhase[p] \in Phases \ {"discover"}
BY DEF NextPhase, Phases

LEMMA LeavePhaseType ==
  ASSUME TickInv, LeavePhase, phase # "project"
  PROVE  /\ phase' \in Phases /\ working' = FALSE /\ left' \in 0..Batch
         /\ batch' \subseteq Items
<1>1. 0 \in 0..Batch
  BY BoundAssumption
<1> QED BY <1>1, NextPhaseType DEF TickInv, LeavePhase

\* A step that leaves the items and the job alone.
LEMMA IdleSound ==
  ASSUME PipelineInv, UNCHANGED <<item, job>>, TickInv' PROVE Sound
<1>1. ItemsStep(item, item')
  BY SameItemsStep DEF PipelineInv
<1>2. JobInv' /\ ResultIsFenced
  BY DEF PipelineInv, JobInv, ResultIsFenced, Held
<1> QED BY <1>1, <1>2 DEF Sound

\* The worker is gone; the items are as they were.
LEMMA GivesUpSound ==
  ASSUME PipelineInv, UNCHANGED item, job' = NoJob, TickInv' PROVE Sound
<1>1. ItemsStep(item, item')
  BY SameItemsStep DEF PipelineInv
<1>2. JobInv' /\ ResultIsFenced
  BY EndsSound
<1> QED BY <1>1, <1>2 DEF Sound

\* The transaction that ends a job, behind its fence.
LEMMA ConcludeSound ==
  ASSUME PipelineInv, job.step # "none", NEW fence, NEW s,
         fence => RowStep(item[job.of], s) /\ item[job.of].version = job.ver,
         item' = IF fence THEN Saved(job.of, s) ELSE item,
         job' = NoJob, TickInv'
  PROVE  Sound
<1>1. job.of \in Items
  BY DEF PipelineInv, JobInv, Job
<1>2. ItemsStep(item, item')
  BY <1>1, SavedStep, SameItemsStep DEF PipelineInv
<1>3. JobInv' /\ ResultIsFenced
  BY EndsSound
<1> QED BY <1>2, <1>3 DEF Sound

\* An API call: of the item a worker holds it leaves everything, or takes it away.
LEMMA CallSound ==
  ASSUME PipelineInv, UNCHANGED job, TickInv', ItemsStep(item, item'),
         job.step # "none" => \/ item'[job.of] = item[job.of]
                              \/ item'[job.of].status \in TakenAway
  PROVE  Sound
<1>1. JobInv'
  BY DEF PipelineInv, JobInv, Held
<1> QED BY <1>1 DEF Sound, ResultIsFenced

-----------------------------------------------------------------------------
(* The driver's tick. *)

LEMMA TickSound ==
  ASSUME PipelineInv,
         \/ EnterPhase \/ PassPhase \/ EndBatch \/ Project \/ Crash \/ BatchFails
         \/ \E i \in Items : Drop(i)
  PROVE  Sound
<1>1. TickInv
  BY DEF PipelineInv
<1>2. CASE EnterPhase
  <2>1. 0 \in 0..Batch /\ Batch \in 0..Batch
    BY BoundAssumption
  <2>2. Eligible(phase) \subseteq Items
    BY DEF Eligible
  <2>3. phase # "project"
    BY <1>2 DEF EnterPhase, Selected
  <2>4. TickInv'
    BY <1>1, <1>2, <2>1, <2>2, <2>3 DEF EnterPhase, TickInv
  <2> QED BY <1>2, <2>4, IdleSound DEF EnterPhase
<1>3. CASE PassPhase
  BY <1>1, <1>3, LeavePhaseType, IdleSound DEF PassPhase, TickInv
<1>4. CASE EndBatch
  BY <1>1, <1>4, LeavePhaseType, IdleSound DEF EndBatch, TickInv
<1>5. CASE Project
  <2>1. TickInv'
    BY <1>1, <1>5 DEF Project, Announces, TickInv, Phases
  <2> QED BY <1>5, <2>1, IdleSound DEF Project
<1>6. CASE Crash
  <2>1. 0 \in 0..Batch
    BY BoundAssumption
  <2>2. budget' \in [{"fault", "call"} -> Nat]
    BY <1>1, <1>6, SpendType DEF Crash
  <2>3. TickInv'
    BY <1>1, <1>6, <2>1, <2>2 DEF Crash, TickInv, Phases
  <2> QED BY <1>6, <2>3, GivesUpSound DEF Crash
<1>7. CASE BatchFails
  <2>1. budget' \in [{"fault", "call"} -> Nat]
    BY <1>1, <1>7, SpendType DEF BatchFails
  <2>2. phase # "project"
    BY <1>1, <1>7 DEF BatchFails, TickInv
  <2>3. TickInv'
    BY <1>1, <1>7, <2>1, <2>2, LeavePhaseType DEF BatchFails, TickInv
  <2> QED BY <1>7, <2>3, GivesUpSound DEF BatchFails
<1>8. ASSUME NEW i \in Items, Drop(i) PROVE Sound
  <2>1. TickInv'
    BY <1>1, <1>8 DEF Drop, TickInv
  <2> QED BY <1>8, <2>1, IdleSound DEF Drop
<1> QED BY <1>2, <1>3, <1>4, <1>5, <1>6, <1>7, <1>8

-----------------------------------------------------------------------------
(* Discovery and matching. *)

LEMMA DiscoverSound == ASSUME PipelineInv, Discover PROVE Sound
<1>1. ItemsInv(item) /\ JobInv /\ TickInv
  BY DEF PipelineInv
<1>2. TickInv'
  <2>1. /\ phase' \in Phases /\ working' = FALSE /\ left' \in 0..Batch
        /\ batch' \subseteq Items
    BY <1>1, LeavePhaseType DEF Discover
  <2>2. CASE UNCHANGED <<complete, execution, touched>>
    BY <1>1, <2>1, <2>2 DEF Discover, TickInv
  <2>3. ASSUME NEW found, NEW whole \in BOOLEAN, complete' = whole, touched' = TRUE,
               execution' = IF complete' THEN RefreshDiscovery(found) ELSE execution
        PROVE  TickInv'
    <3>1. execution' \in ExecutionStatus
      BY <1>1, <2>3, RefreshTypes DEF TickInv
    <3> QED BY <1>1, <2>1, <2>3, <3>1 DEF Discover, TickInv
  <2> QED BY <2>2, <2>3 DEF Discover
<1>3. CASE UNCHANGED item
  BY <1>2, <1>3, IdleSound DEF Discover
<1>4. ASSUME NEW page \in SUBSET {i \in Items : item[i].status = "UNSEEN"},
             NEW fate \in [page -> {"MATCH_PENDING", "MATCH_ERROR", "GONE"}],
             item' = [i \in Items |-> IF i \in page
                        THEN [item[i] EXCEPT !.status = fate[i], !.version = 1]
                        ELSE item[i]]
      PROVE  Sound
  <2>1. ASSUME NEW i \in page
        PROVE  RowStep(item[i], [item[i] EXCEPT !.status = fate[i], !.version = 1])
    <3> DEFINE r == item[i]  s == [r EXCEPT !.status = fate[i], !.version = 1]
    <3>1. r \in Item /\ r.effects = {} /\ r.resumable = FALSE /\ RowInv(r)
      BY <1>1 DEF ItemsInv, RowInv, Early
    <3>2. fate[i] \in {"MATCH_PENDING", "MATCH_ERROR", "GONE"}
      OBVIOUS
    <3>3. fate[i] \in Status /\ 1 \in Nat
      BY <3>2, StatusFacts
    <3>4. s \in Item
      BY <3>1, <3>3 DEF Item
    <3>5. s.status = fate[i] /\ s.effects = {} /\ s.resumable = FALSE
      BY <3>1 DEF Item
    <3> QED BY <3>1, <3>2, <3>4, <3>5, EditStep DEF Beyond
  <2>2. \A i \in Items : RowStep(item[i], item'[i])
    BY <1>1, <1>4, <2>1, SameRow DEF ItemsInv
  <2>3. ItemsStep(item, item')
    BY <1>4, <2>2 DEF ItemsStep, RowStep, RowInv
  <2>4. job.step # "none" => item'[job.of] = item[job.of]
    BY <1>1, <1>4 DEF JobInv, Job, Held, HeldAs, TakenAway
  <2>5. UNCHANGED job
    BY DEF Discover
  <2> QED BY <1>2, <2>3, <2>4, <2>5, CallSound
<1> QED BY <1>3, <1>4 DEF Discover

LEMMA SkippedStep ==
  ASSUME ItemsInv(item), NEW skip \in SUBSET Pending
  PROVE  ItemsStep(item, Skipping(skip))
<1>1. ASSUME NEW i \in skip
      PROVE  RowStep(item[i], Bumped([item[i] EXCEPT !.status = "CANCELLED", !.cand = 0,
                                                     !.auto = FALSE, !.aux = "NONE"]))
  <2> DEFINE r == item[i]
             s == [r EXCEPT !.status = "CANCELLED", !.cand = 0, !.auto = FALSE,
                            !.aux = "NONE"]
  <2>1. r \in Item /\ r.effects = {} /\ r.resumable = FALSE /\ RowInv(r)
    BY DEF ItemsInv, RowInv, Early, Pending
  <2>2. s \in Item
    BY <2>1, StatusFacts, NumberFacts DEF Item
  <2>3. s.status = "CANCELLED" /\ s.effects = {} /\ s.resumable = FALSE
    BY <2>1 DEF Item
  <2> QED BY <2>1, <2>2, <2>3, EditStep, BumpedStep DEF Beyond
<1>2. \A i \in Items : RowStep(item[i], Skipping(skip)[i])
  BY <1>1, SameRow DEF Skipping, ItemsInv
<1> QED BY <1>2 DEF ItemsStep, RowStep, RowInv, Skipping

LEMMA DeferredStep ==
  ASSUME ItemsInv(item), NEW but
  PROVE  ItemsStep(item, Deferring(item, but))
<1>1. ASSUME NEW i \in Items, item[i].status = "MATCH_PENDING"
      PROVE  RowStep(item[i], Bumped([item[i] EXCEPT !.due = FALSE]))
  <2> DEFINE r == item[i]  s == [r EXCEPT !.due = FALSE]
  <2>1. r \in Item /\ r.effects = {} /\ r.resumable = FALSE /\ RowInv(r)
    BY <1>1 DEF ItemsInv, RowInv, Early
  <2>2. s \in Item
    BY <2>1 DEF Item
  <2>3. s.status = "MATCH_PENDING" /\ s.effects = {} /\ s.resumable = FALSE
    BY <1>1, <2>1 DEF Item
  <2> QED BY <2>1, <2>2, <2>3, EditStep, BumpedStep DEF Beyond
<1>2. \A i \in Items : RowStep(item[i], Deferring(item, but)[i])
  BY <1>1, SameRow DEF Deferring, ItemsInv
<1> QED BY <1>2 DEF ItemsStep, RowStep, RowInv, Deferring

LEMMA ChangeOne ==
  ASSUME NEW old, NEW new, ItemsStep(old, new), NEW i \in Items, NEW s,
         RowStep(old[i], s)
  PROVE  ItemsStep(old, [new EXCEPT ![i] = s])
BY DEF ItemsStep, RowStep, RowInv

LEMMA MatchClaimSound ==
  ASSUME PipelineInv, NEW i \in Items, MatchClaim(i) PROVE Sound
<1> DEFINE s == [item[i] EXCEPT !.status = "MATCHING", !.gen = @ + 1, !.cand = 0,
                                !.checks = Unchecked]
<1>1. ItemsInv(item) /\ TickInv /\ Free
  BY DEF PipelineInv, MatchClaim, Claiming
<1>2. /\ item[i] \in Item /\ item[i].effects = {} /\ item[i].resumable = FALSE
      /\ RowInv(item[i]) /\ item[i].gen + 1 \in Nat
  BY <1>1 DEF ItemsInv, RowInv, Early, MatchClaim, Pending, Item
<1>3. s \in Item
  BY <1>2, StatusFacts, NumberFacts, UncheckedType DEF Item
<1>4. s.status = "MATCHING" /\ s.effects = {} /\ s.resumable = FALSE
  BY <1>2 DEF Item
<1>5. RowStep(item[i], Bumped(s)) /\ Bumped(s) \in Item
  <2>1. RowStep(item[i], s)
    BY <1>2, <1>3, <1>4, EditStep DEF Beyond
  <2> QED BY <2>1, BumpedStep DEF RowStep, RowInv
<1>6. Bumped(s).status = "MATCHING"
  BY <1>3, <1>4 DEF Bumped, Item
<1>7. PICK skip \in SUBSET (Pending \cap Named) :
        item' = [Skipping(skip) EXCEPT ![i] = Bumped(s)] /\ Hold("search", i, Bumped(s))
  BY DEF MatchClaim
<1>8. ItemsStep(item, item')
  BY <1>1, <1>5, <1>7, SkippedStep, ChangeOne
<1>9. JobInv' /\ ResultIsFenced
  <2>1. item'[i] = Bumped(s)
    BY <1>7 DEF Skipping
  <2>2. "search" \in Steps /\ <<"search", "MATCHING">> \in HeldAs
    BY DEF Steps, HeldAs
  <2> QED BY <1>1, <1>5, <1>6, <1>7, <2>1, <2>2, BeginsSound
<1>10. TickInv'
  BY <1>1, BoundAssumption DEF MatchClaim, Claiming, TickInv
<1> QED BY <1>8, <1>9, <1>10 DEF Sound

\* The tick that a transaction leaves behind: at the end of its phase, or in it.
LEMMA LeavesTick ==
  ASSUME TickInv, LeavePhase, phase # "project", execution' \in ExecutionStatus,
         UNCHANGED <<complete, touched, announced>>,
         budget' \in [{"fault", "call"} -> Nat]
  PROVE  TickInv'
BY LeavePhaseType DEF TickInv

LEMMA KeepsTick ==
  ASSUME TickInv, execution' \in ExecutionStatus, batch' \subseteq Items,
         UNCHANGED <<complete, phase, working, left, touched, announced>>,
         budget' \in [{"fault", "call"} -> Nat]
  PROVE  TickInv'
BY DEF TickInv

LEMMA FreeSound ==
  ASSUME PipelineInv, Free, UNCHANGED job, TickInv', ItemsStep(item, item')
  PROVE  Sound
BY CallSound DEF Free

LEMMA MatchExhaustedSound == ASSUME PipelineInv, MatchExhausted PROVE Sound
<1>1. ItemsInv(item) /\ TickInv /\ Free /\ phase # "project"
  BY DEF PipelineInv, MatchExhausted, Claiming
<1>2. ItemsStep(item, item') /\ execution' \in ExecutionStatus
  <2>1. CASE UNCHANGED <<item, execution>>
    BY <1>1, <2>1, SameItemsStep DEF TickInv
  <2>2. CASE /\ item' = Skipping(Pending)
             /\ execution' = RefreshMatching(Skipping(Pending))
    BY <1>1, <2>2, SkippedStep, RefreshTypes
  <2> QED BY <2>1, <2>2 DEF MatchExhausted
<1>3. TickInv'
  BY <1>1, <1>2, LeavesTick DEF MatchExhausted, TickInv
<1> QED BY <1>1, <1>2, <1>3, FreeSound DEF MatchExhausted

LEMMA MatchDeferredSound == ASSUME PipelineInv, MatchDeferred PROVE Sound
<1>1. ItemsInv(item) /\ TickInv /\ Free /\ phase # "project"
  BY DEF PipelineInv, MatchDeferred, Claiming
<1>2. ItemsStep(item, item') /\ execution' \in ExecutionStatus
  BY <1>1, DeferredStep, RefreshTypes DEF MatchDeferred
<1>3. TickInv'
  BY <1>1, <1>2, LeavesTick, SpendType DEF MatchDeferred
<1> QED BY <1>1, <1>2, <1>3, FreeSound DEF MatchDeferred

\* An error, or a claim, that keeps the candidate of the row.
LEMMA StatusStep ==
  ASSUME NEW r, RowInv(r), r.resumable = FALSE,
         NEW x \in Status \ (Beyond \cup Early)
  PROVE  RowStep(r, [r EXCEPT !.status = x])
<1> DEFINE s == [r EXCEPT !.status = x]
<1>1. r \in Item
  BY DEF RowInv
<1>2. s \in Item
  BY <1>1 DEF Item
<1>3. s.status = x /\ s.resumable = FALSE /\ s.cand = r.cand /\ s.gen = r.gen
  BY <1>1 DEF Item
<1> QED BY <1>2, <1>3, EditStep

LEMMA CheckedStep ==
  ASSUME NEW r, RowInv(r), r.resumable = FALSE,
         NEW x \in Status \ (Beyond \cup Early), NEW v \in Verification
  PROVE  RowStep(r, [r EXCEPT !.status = x, !.checks = Checked(r, v)])
<1> DEFINE s == [r EXCEPT !.status = x, !.checks = Checked(r, v)]
<1>1. r \in Item /\ Checked(r, v) \in [Candidates -> Verification]
  BY CheckedType DEF RowInv
<1>2. s \in Item
  BY <1>1 DEF Item
<1>3. s.status = x /\ s.resumable = FALSE /\ s.cand = r.cand /\ s.gen = r.gen
  BY <1>1 DEF Item
<1> QED BY <1>2, <1>3, EditStep

LEMMA MatchRefusedSound ==
  ASSUME PipelineInv, NEW i \in Items, MatchRefused(i) PROVE Sound
<1>1. ItemsInv(item) /\ TickInv /\ Free /\ phase # "project"
  BY DEF PipelineInv, MatchRefused, Claiming
<1>2. PICK skip \in SUBSET (Pending \cap Named) :
        LET new == [Skipping(skip) EXCEPT
                      ![i] = Bumped([@ EXCEPT !.status = "MATCH_ERROR"])]
        IN item' = new /\ execution' = RefreshMatching(new)
  BY DEF MatchRefused
<1>3. i \in Pending \ Named /\ i \notin skip /\ Skipping(skip)[i] = item[i]
  BY <1>2 DEF MatchRefused, Skipping
<1>4. RowStep(item[i], Bumped([item[i] EXCEPT !.status = "MATCH_ERROR"]))
  <2>1. RowInv(item[i]) /\ item[i].resumable = FALSE
    BY <1>1, <1>3 DEF ItemsInv, RowInv, Pending, Item
  <2>2. "MATCH_ERROR" \in Status \ (Beyond \cup Early)
    BY StatusFacts DEF Beyond, Early
  <2> QED BY <2>1, <2>2, StatusStep, BumpedStep
<1>5. ItemsStep(item, item')
  BY <1>1, <1>2, <1>3, <1>4, SkippedStep, ChangeOne
<1>6. TickInv'
  BY <1>1, <1>2, RefreshTypes, LeavesTick, SpendType DEF MatchRefused
<1> QED BY <1>1, <1>5, <1>6, FreeSound DEF MatchRefused

LEMMA MatchFinishSound == ASSUME PipelineInv, MatchFinish PROVE Sound
<1>1. ItemsInv(item) /\ TickInv /\ phase = "match" /\ job.step = "search" /\ job.of \in Items
  BY DEF PipelineInv, JobInv, Job, MatchFinish, Holds
<1>2. SUFFICES
        ASSUME NEW risk \in BOOLEAN, NEW r \in MatchResults(item[job.of], risk),
        /\ IF risk THEN Spend("fault") ELSE UNCHANGED budget
        /\ IF Current({"MATCHING"})
           THEN LET new == [IF risk THEN Deferring(item, {job.of}) ELSE item
                              EXCEPT ![job.of] = Bumped(r)]
                IN item' = new /\ execution' = RefreshMatching(new) /\ StayInPhase
           ELSE UNCHANGED <<item, execution>> /\ LeavePhase
        PROVE  Sound
  BY DEF MatchFinish
<1>3. budget' \in [{"fault", "call"} -> Nat]
  BY <1>1, <1>2, SpendType DEF TickInv
<1>4. job' = NoJob /\ UNCHANGED <<complete, touched, announced>>
  BY DEF MatchFinish
<1>5. CASE Current({"MATCHING"})
  <2>1. item[job.of].version = job.ver
    BY <1>1, <1>5, FenceShows DEF TakenAway
  <2>2. RowStep(item[job.of], Bumped(r))
    BY <1>1, <1>2, <1>5, MatchResultsStep, BumpedStep DEF Current, ItemsInv
  <2>3. ItemsStep(item, item)
    BY <1>1, SameRow DEF ItemsStep, ItemsInv
  <2>4. ItemsStep(item, IF risk THEN Deferring(item, {job.of}) ELSE item)
    BY <1>1, <2>3, DeferredStep
  <2>5. ItemsStep(item, item')
    BY <1>1, <1>2, <1>5, <2>2, <2>4, ChangeOne
  <2>6. TickInv'
    BY <1>1, <1>2, <1>3, <1>4, <1>5, RefreshTypes, KeepsTick DEF StayInPhase, TickInv
  <2> QED BY <1>4, <2>1, <2>5, <2>6, EndsSound DEF Sound
<1>6. CASE ~Current({"MATCHING"})
  <2>1. TickInv'
    BY <1>1, <1>2, <1>3, <1>4, <1>6, LeavesTick DEF TickInv
  <2> QED BY <1>2, <1>4, <1>6, <2>1, GivesUpSound
<1> QED BY <1>5, <1>6

-----------------------------------------------------------------------------
(* Content verification. *)

\* A worker that claims an item with a transaction.
LEMMA ClaimSound ==
  ASSUME PipelineInv, Free, NEW st \in Steps, NEW i \in Items, NEW s,
         RowStep(item[i], s), item' = Saved(i, s), Hold(st, i, Bumped(s)),
         <<st, s.status>> \in HeldAs, TickInv'
  PROVE  Sound
<1>1. ItemsStep(item, item')
  BY SavedStep DEF PipelineInv
<1>2. Bumped(s) \in Item /\ Bumped(s).status = s.status
  BY BumpedStep DEF RowStep, RowInv, Bumped, Item
<1>3. item'[i] = Bumped(s)
  BY DEF Saved, PipelineInv, ItemsInv
<1>4. JobInv' /\ ResultIsFenced
  BY <1>2, <1>3, BeginsSound
<1> QED BY <1>1, <1>4 DEF Sound

\* A worker that goes on to its next step with a transaction.
LEMMA GoesOnSound ==
  ASSUME PipelineInv, job.step # "none", item[job.of].version = job.ver,
         NEW st \in Steps, NEW s,
         RowStep(item[job.of], s), item' = Saved(job.of, s), Hold(st, job.of, Bumped(s)),
         <<st, s.status>> \in HeldAs, TickInv'
  PROVE  Sound
<1>1. job.of \in Items
  BY DEF PipelineInv, JobInv, Job
<1>2. ItemsStep(item, item')
  BY <1>1, SavedStep DEF PipelineInv
<1>3. Bumped(s) \in Item /\ Bumped(s).status = s.status
  BY BumpedStep DEF RowStep, RowInv, Bumped, Item
<1>4. item'[job.of] = Bumped(s)
  BY <1>1 DEF Saved, PipelineInv, ItemsInv
<1>5. /\ job' \in Job /\ job'.of = job.of /\ job'.step = st
      /\ Held(job', item'[job'.of])
  BY <1>1, <1>3, <1>4, HoldType DEF Held
<1>6. (Held(job, item[job.of]))' = Held(job', item'[job'.of])
  BY DEF Held
<1>7. JobInv'
  BY <1>5, <1>6 DEF JobInv, HeldAs
<1> QED BY <1>2, <1>7 DEF Sound, ResultIsFenced

LEMMA MatchedFacts ==
  ASSUME NEW r, RowInv(r), r.status \in Matched
  PROVE  r \in Item /\ r.resumable = FALSE /\ r.status \notin Early
BY DEF RowInv, Matched, Early, Item

LEMMA VerifyClaimSound ==
  ASSUME PipelineInv, NEW i \in Items, VerifyClaim(i) PROVE Sound
<1> DEFINE s == [item[i] EXCEPT !.status = "TORRENT_FETCHING",
                                !.checks = Checked(item[i], "VERIFYING")]
<1>1. ItemsInv(item) /\ TickInv /\ Free
  BY DEF PipelineInv, VerifyClaim, Claiming
<1>2. RowInv(item[i]) /\ item[i] \in Item /\ item[i].resumable = FALSE
  BY <1>1, MatchedFacts DEF ItemsInv, VerifyClaim
<1>3. "TORRENT_FETCHING" \in Status \ (Beyond \cup Early) /\ "VERIFYING" \in Verification
  BY StatusFacts DEF Beyond, Early, Verification
<1>4. RowStep(item[i], s)
  BY <1>2, <1>3, CheckedStep
<1>5. s.status = "TORRENT_FETCHING"
  BY <1>2 DEF Item
<1>6. item' = Saved(i, s) /\ Hold("fetch", i, Bumped(s))
  BY DEF VerifyClaim
<1>7. "fetch" \in Steps /\ <<"fetch", "TORRENT_FETCHING">> \in HeldAs
  BY DEF Steps, HeldAs
<1>8. TickInv'
  BY <1>1, BoundAssumption DEF VerifyClaim, Claiming, TickInv
<1> QED BY <1>1, <1>4, <1>5, <1>6, <1>7, <1>8, ClaimSound

LEMMA VerifyExhaustedSound == ASSUME PipelineInv, VerifyExhausted PROVE Sound
<1>1. ItemsInv(item) /\ TickInv /\ Free /\ phase # "project"
  BY DEF PipelineInv, VerifyExhausted, Claiming
<1>2. execution' \in ExecutionStatus /\ budget' \in [{"fault", "call"} -> Nat]
  BY <1>1, RefreshTypes DEF VerifyExhausted, TickInv
<1>3. TickInv'
  BY <1>1, <1>2, LeavesTick DEF VerifyExhausted
<1> QED BY <1>3, IdleSound DEF VerifyExhausted

LEMMA VerifyRefusedSound ==
  ASSUME PipelineInv, NEW i \in Items, VerifyRefused(i) PROVE Sound
<1> DEFINE x == IF item[i].status = "MATCHED_MANUAL" THEN "MATCH_ERROR"
                ELSE "REVIEW_REQUIRED"
           s == [item[i] EXCEPT !.status = x]
<1>1. ItemsInv(item) /\ TickInv /\ Free /\ phase # "project"
  BY DEF PipelineInv, VerifyRefused, Claiming
<1>2. RowInv(item[i]) /\ item[i] \in Item /\ item[i].resumable = FALSE
  BY <1>1, MatchedFacts DEF ItemsInv, VerifyRefused
<1>3. x \in Status \ (Beyond \cup Early)
  BY StatusFacts DEF Beyond, Early
<1>4. RowStep(item[i], s)
  BY <1>2, <1>3, StatusStep
<1>5. item' = Saved(i, s) /\ execution' = RefreshVerification(Saved(i, s))
  BY DEF VerifyRefused, Commit
<1>6. ItemsStep(item, item')
  BY <1>1, <1>4, <1>5, SavedStep
<1>7. TickInv'
  BY <1>1, <1>5, RefreshTypes, LeavesTick, SpendType DEF VerifyRefused
<1> QED BY <1>1, <1>6, <1>7, FreeSound DEF VerifyRefused

\* What the fence of a verification shows of the row.
LEMMA VerifyingFacts ==
  ASSUME PipelineInv, NEW S \in SUBSET Verifying, Current(S), job.step # "none"
  PROVE  /\ job.of \in Items /\ item[job.of].version = job.ver
         /\ RowInv(item[job.of]) /\ item[job.of] \in Item
         /\ item[job.of].resumable = FALSE /\ item[job.of].status \in S
<1>1. job.of \in Items /\ ItemsInv(item)
  BY DEF PipelineInv, JobInv, Job
<1>2. item[job.of].version = job.ver
  BY FenceShows DEF Verifying, TakenAway
<1>3. RowInv(item[job.of]) /\ item[job.of].status \in S
  BY <1>1 DEF ItemsInv, Current
<1> QED BY <1>1, <1>2, <1>3 DEF RowInv, Verifying, Item

LEMMA VerifyFetchedSound == ASSUME PipelineInv, VerifyFetched PROVE Sound
<1> DEFINE x == IF item[job.of].cand \in NeedsAux THEN "AUXILIARY_FETCHING"
                ELSE "CONTENT_VERIFYING"
           s == [item[job.of] EXCEPT !.status = x]
<1>1. TickInv /\ job.step # "none"
  BY DEF PipelineInv, VerifyFetched, Holds
<1>2. CASE Current({"TORRENT_FETCHING"})
  <2>1. /\ item[job.of].version = job.ver /\ RowInv(item[job.of])
        /\ item[job.of] \in Item /\ item[job.of].resumable = FALSE
    BY <1>1, <1>2, VerifyingFacts DEF Verifying
  <2>2. x \in Status \ (Beyond \cup Early)
    BY StatusFacts DEF Beyond, Early
  <2>3. RowStep(item[job.of], s)
    BY <2>1, <2>2, StatusStep
  <2>4. /\ item' = Saved(job.of, s) /\ execution' = RefreshVerification(Saved(job.of, s))
        /\ Hold("hash", job.of, Bumped(s))
    BY <1>2 DEF VerifyFetched, Commit
  <2>5. s.status = x
    BY <2>1 DEF Item
  <2>6. "hash" \in Steps /\ <<"hash", x>> \in HeldAs
    BY DEF Steps, HeldAs
  <2>7. TickInv'
    BY <1>1, <2>4, RefreshTypes, KeepsTick DEF VerifyFetched, StayInPhase, TickInv
  <2> QED BY <1>1, <2>1, <2>3, <2>4, <2>5, <2>6, <2>7, GoesOnSound
<1>3. CASE ~Current({"TORRENT_FETCHING"})
  <2>1. job' = NoJob /\ UNCHANGED <<item, execution>>
    BY <1>3 DEF VerifyFetched
  <2>2. TickInv'
    BY <1>1, <2>1, KeepsTick DEF VerifyFetched, StayInPhase, TickInv
  <2> QED BY <2>1, <2>2, GivesUpSound
<1> QED BY <1>2, <1>3

LEMMA VerifyFailsSound == ASSUME PipelineInv, VerifyFails PROVE Sound
<1> DEFINE r == item[job.of]
           x == IF r.status = "CONTENT_VERIFYING" THEN "REVIEW_REQUIRED" ELSE "MATCH_ERROR"
           s == [r EXCEPT !.status = x, !.checks = Checked(r, "UNAVAILABLE")]
<1>1. TickInv /\ job.step # "none"
  BY DEF PipelineInv, VerifyFails, Holds
<1>2. Current(Verifying) => RowStep(r, s) /\ r.version = job.ver
  <2>1. x \in Status \ (Beyond \cup Early) /\ "UNAVAILABLE" \in Verification
    BY StatusFacts DEF Beyond, Early, Verification
  <2> QED BY <1>1, <2>1, VerifyingFacts, CheckedStep
<1>3. /\ item' = IF Current(Verifying) THEN Saved(job.of, s) ELSE item
      /\ execution' \in {execution, RefreshVerification(Saved(job.of, s))}
      /\ job' = NoJob
  BY DEF VerifyFails, Conclude, Commit
<1>4. TickInv'
  BY <1>1, <1>3, RefreshTypes, KeepsTick DEF VerifyFails, StayInPhase, TickInv
<1> QED BY <1>1, <1>2, <1>3, <1>4, ConcludeSound

LEMMA MismatchedStep ==
  ASSUME NEW r, RowInv(r), r.resumable = FALSE, NEW v \in Verification
  PROVE  RowStep(r, Mismatched(r, v))
<1>1. r \in Item /\ Checked(r, v) \in [Candidates -> Verification]
  BY CheckedType DEF RowInv
<1>2. Mismatched(r, v) \in Item
  BY <1>1, StatusFacts DEF Mismatched, Item
<1>3. /\ Mismatched(r, v).status = "CONTENT_MISMATCH" /\ Mismatched(r, v).resumable = FALSE
      /\ Mismatched(r, v).cand = r.cand /\ Mismatched(r, v).gen = r.gen
  BY <1>1 DEF Mismatched, Item
<1> QED BY <1>2, <1>3, EditStep DEF Beyond, Early

\* The auxiliary state of a row is free to change.
LEMMA AuxStep ==
  ASSUME NEW r, NEW s, RowStep(r, s),
         NEW a \in {"NONE", "PENDING_FETCH", "PREPARING", "DOWNLOADING", "READY"}
  PROVE  RowStep(r, [s EXCEPT !.aux = a])
BY DEF RowStep, RowInv, Item, ProvenNow

LEMMA OutcomesStep ==
  ASSUME NEW r, RowInv(r), r.status \in Verifying, NEW s \in Outcomes(r)
  PROVE  RowStep(r, s)
<1>1. r \in Item /\ r.resumable = FALSE /\ r.status \notin Early
  BY DEF RowInv, Verifying, Early, Item
<1>2. {"MISMATCH", "UNAVAILABLE"} \subseteq Verification
  BY DEF Verification
<1>3. ASSUME NEW v \in {"MISMATCH", "UNAVAILABLE"}, s = Mismatched(r, v)
      PROVE  RowStep(r, s)
  BY <1>1, <1>2, <1>3, MismatchedStep
<1>4. ASSUME NEW v \in {"MISMATCH", "UNAVAILABLE"}, s \in Fallbacks(r, v)
      PROVE  RowStep(r, s)
  <2>1. PICK c \in Candidates :
          /\ s = [r EXCEPT !.status = "MATCHED_AUTO", !.cand = c, !.checks = Checked(r, v),
                           !.aux = "NONE"]
          /\ r.effects = {}
    BY <1>4, Zenon DEF Fallbacks
  <2>2. c \in 0..2 /\ Checked(r, v) \in [Candidates -> Verification]
    BY <1>1, <1>2, CheckedType DEF Candidates
  <2>3. s \in Item
    BY <1>1, <2>1, <2>2, StatusFacts DEF Item
  <2>4. s.status = "MATCHED_AUTO" /\ s.resumable = FALSE /\ s.effects = {}
    BY <1>1, <2>1 DEF Item
  <2> QED BY <2>3, <2>4, EditStep DEF Beyond
<1>5. ASSUME NEW x \in {"AUXILIARY_FETCHING", "REVIEW_REQUIRED"},
             NEW a \in {"PENDING_FETCH", "NONE"},
             s = [r EXCEPT !.status = x, !.aux = a, !.checks = Checked(r, "UNAVAILABLE")]
      PROVE  RowStep(r, s)
  <2>1. Checked(r, "UNAVAILABLE") \in [Candidates -> Verification]
    BY <1>1, <1>2, CheckedType
  <2>2. s \in Item
    BY <1>1, <1>5, <2>1, StatusFacts DEF Item
  <2>3. s.status = x /\ s.resumable = FALSE /\ s.cand = r.cand /\ s.gen = r.gen
    BY <1>1, <1>5 DEF Item
  <2> QED BY <2>2, <2>3, EditStep DEF Beyond, Early
<1>6. CASE s = [Verified(r) EXCEPT !.aux = "NONE"]
  BY <1>1, <1>6, VerifiedStep, AuxStep
<1> DEFINE M == UNION {{Mismatched(r, v)} \cup Fallbacks(r, v) :
                         v \in {"MISMATCH", "UNAVAILABLE"}}
           A == {[r EXCEPT !.status = "AUXILIARY_FETCHING", !.aux = "PENDING_FETCH",
                           !.checks = Checked(r, "UNAVAILABLE")]}
           E == {[Verified(r) EXCEPT !.aux = "NONE"],
                 [r EXCEPT !.status = "REVIEW_REQUIRED", !.aux = "NONE",
                           !.checks = Checked(r, "UNAVAILABLE")]}
<1>7. CASE s \in M
  <2>1. PICK v \in {"MISMATCH", "UNAVAILABLE"} : s \in {Mismatched(r, v)} \cup Fallbacks(r, v)
    BY <1>7, Zenon
  <2>2. CASE s = Mismatched(r, v)
    BY <1>3, <2>2
  <2>3. CASE s \in Fallbacks(r, v)
    BY <1>4, <2>3
  <2> QED BY <2>1, <2>2, <2>3
<1>8. CASE s \in A \cup E
  BY <1>5, <1>6, <1>8
<1>9. s \in M \cup (IF r.cand \in NeedsAux THEN A ELSE E)
  BY Zenon DEF Outcomes
<1> HIDE DEF M, A, E
<1> QED BY <1>7, <1>8, <1>9

LEMMA VerifyFinishSound == ASSUME PipelineInv, VerifyFinish PROVE Sound
<1>1. TickInv /\ job.step # "none"
  BY DEF PipelineInv, VerifyFinish, Holds
<1>2. PICK r \in IF Current(Verifying) THEN Outcomes(item[job.of]) ELSE {item[job.of]} :
        Conclude(Current(Verifying), r, RefreshVerification)
  BY DEF VerifyFinish
<1>3. Current(Verifying) => RowStep(item[job.of], r) /\ item[job.of].version = job.ver
  BY <1>1, <1>2, VerifyingFacts, OutcomesStep
<1>4. /\ item' = IF Current(Verifying) THEN Saved(job.of, r) ELSE item
      /\ execution' \in {execution, RefreshVerification(Saved(job.of, r))}
      /\ job' = NoJob
  BY <1>2 DEF Conclude, Commit
<1>5. TickInv'
  BY <1>1, <1>4, RefreshTypes, KeepsTick DEF VerifyFinish, StayInPhase, TickInv
<1> QED BY <1>1, <1>3, <1>4, <1>5, ConcludeSound

-----------------------------------------------------------------------------
(* Auxiliary files. *)

LEMMA TakesFacts ==
  ASSUME PipelineInv, NEW i \in Items, Takes(i)
  PROVE  Free /\ batch' \subseteq Items /\ i \in Eligible(phase)
BY DEF Takes, PipelineInv, TickInv

\* A worker that takes an item as it is.
LEMMA LoadSound ==
  ASSUME PipelineInv, NEW i \in Items, Takes(i), NEW st \in Steps, Hold(st, i, item[i]),
         SameItems, KeepTick, <<st, item[i].status>> \in HeldAs
  PROVE  Sound
<1>1. ItemsInv(item) /\ TickInv /\ item[i] \in Item
  BY DEF PipelineInv, ItemsInv
<1>2. JobInv' /\ ResultIsFenced
  BY <1>1, TakesFacts, BeginsSound DEF SameItems
<1>3. TickInv'
  BY <1>1, TakesFacts, KeepsTick DEF SameItems, KeepTick, TickInv
<1> QED BY <1>1, <1>2, <1>3, SameItemsStep DEF SameItems, Sound

LEMMA AuxiliaryLoadSound ==
  ASSUME PipelineInv, NEW i \in Items, AuxiliaryLoad(i) PROVE Sound
<1>1. ItemsInv(item) /\ TickInv /\ Takes(i) /\ KeepTick
  BY DEF PipelineInv, AuxiliaryLoad
<1>2. /\ item[i].status = "AUXILIARY_FETCHING" /\ RowInv(item[i]) /\ item[i] \in Item
      /\ item[i].resumable = FALSE
  <2>1. item[i].status = "AUXILIARY_FETCHING"
    BY <1>1, TakesFacts DEF AuxiliaryLoad, Working, Eligible
  <2> QED BY <1>1, <2>1 DEF ItemsInv, RowInv, Item
<1>3. CASE item[i].aux = "NONE"
  <2> DEFINE s == [item[i] EXCEPT !.status = "MATCH_ERROR", !.resumable = FALSE]
  <2>1. s \in Item
    BY <1>2, StatusFacts DEF Item
  <2>2. /\ s.status = "MATCH_ERROR" /\ s.resumable = FALSE /\ s.cand = item[i].cand
        /\ s.gen = item[i].gen
    BY <1>2 DEF Item
  <2>3. RowStep(item[i], s)
    BY <1>2, <2>1, <2>2, EditStep DEF Beyond, Early
  <2>4. /\ item' = Saved(i, s) /\ execution' = RefreshAuxiliary(Saved(i, s))
        /\ UNCHANGED job
    BY <1>3 DEF AuxiliaryLoad, Commit
  <2>5. ItemsStep(item, item')
    BY <1>1, <2>3, <2>4, SavedStep
  <2>6. TickInv'
    BY <1>1, <2>4, TakesFacts, RefreshTypes, KeepsTick DEF KeepTick, TickInv
  <2> QED BY <1>1, <2>4, <2>5, <2>6, TakesFacts, FreeSound
<1>4. CASE item[i].aux # "NONE"
  <2> DEFINE st == IF item[i].aux = "DOWNLOADING" THEN "poll" ELSE "prepare"
  <2>1. Hold(st, i, item[i]) /\ SameItems
    BY <1>4 DEF AuxiliaryLoad
  <2>2. st \in Steps /\ <<st, item[i].status>> \in HeldAs
    BY <1>2 DEF Steps, HeldAs
  <2> QED BY <1>1, <2>1, <2>2, LoadSound
<1> QED BY <1>3, <1>4

\* What the stricter fence shows of the row.
LEMMA UnchangedFacts ==
  ASSUME PipelineInv, job.step # "none", NEW S, Unchanged(S),
         S \subseteq {"AUXILIARY_FETCHING", "CONTENT_VERIFIED", "EXECUTING",
                      "CLIENT_VERIFYING"}
  PROVE  /\ job.of \in Items /\ item[job.of].version = job.ver
         /\ RowInv(item[job.of]) /\ item[job.of] \in Item
         /\ item[job.of].resumable = FALSE /\ item[job.of].status \in S
         /\ item[job.of].status \notin Early
         /\ <<job.step, item[job.of].status>> \in HeldAs
<1>1. job.of \in Items /\ ItemsInv(item)
  BY DEF PipelineInv, JobInv, Job
<1>2. item[job.of].status \in S /\ item[job.of].version = job.ver
  BY DEF Unchanged, Current
<1>3. <<job.step, item[job.of].status>> \in HeldAs
  BY <1>2 DEF PipelineInv, JobInv, Held, TakenAway
<1>4. RowInv(item[job.of])
  BY <1>1 DEF ItemsInv
<1> QED BY <1>1, <1>2, <1>3, <1>4 DEF RowInv, Early, Item

LEMMA FetchingFacts ==
  ASSUME PipelineInv, job.step # "none", Unchanged({"AUXILIARY_FETCHING"})
  PROVE  /\ item[job.of].version = job.ver
         /\ RowInv(item[job.of]) /\ item[job.of] \in Item
         /\ item[job.of].resumable = FALSE /\ item[job.of].status = "AUXILIARY_FETCHING"
         /\ item[job.of].status \notin Early
<1> DEFINE S == {"AUXILIARY_FETCHING"}
<1>1. Unchanged(S)
  OBVIOUS
<1> HIDE DEF S
<1>2. S \subseteq {"AUXILIARY_FETCHING", "CONTENT_VERIFIED", "EXECUTING", "CLIENT_VERIFYING"}
  BY DEF S
<1>3. item[job.of].status \in S
  BY <1>1, <1>2, UnchangedFacts
<1> QED BY <1>1, <1>2, <1>3, UnchangedFacts DEF S

LEMMA AuxiliaryPrepareSound == ASSUME PipelineInv, AuxiliaryPrepare PROVE Sound
<1>1. TickInv /\ job.step # "none" /\ UNCHANGED <<execution, batch>> /\ KeepTick
  BY DEF PipelineInv, AuxiliaryPrepare, Holds
<1>2. TickInv'
  BY <1>1, KeepsTick DEF KeepTick, TickInv
<1>3. CASE Unchanged({"AUXILIARY_FETCHING"})
  <2> DEFINE r == item[job.of]  s == [r EXCEPT !.aux = "PREPARING"]
  <2>1. r.version = job.ver /\ RowInv(r) /\ r \in Item /\ r.status = "AUXILIARY_FETCHING"
    BY <1>1, <1>3, FetchingFacts
  <2>2. RowStep(r, s)
    BY <2>1, SameRow, AuxStep
  <2>3. s.status = "AUXILIARY_FETCHING"
    BY <2>1 DEF Item
  <2>4. item' = Saved(job.of, s) /\ Hold("stage", job.of, Bumped(s))
    BY <1>3 DEF AuxiliaryPrepare
  <2>5. "stage" \in Steps /\ <<"stage", "AUXILIARY_FETCHING">> \in HeldAs
    BY DEF Steps, HeldAs
  <2> QED BY <1>1, <1>2, <2>1, <2>2, <2>3, <2>4, <2>5, GoesOnSound
<1>4. CASE ~Unchanged({"AUXILIARY_FETCHING"})
  BY <1>2, <1>4, GivesUpSound DEF AuxiliaryPrepare
<1> QED BY <1>3, <1>4

\* Journal rows that are written without a new version of the item.
LEMMA EffectsSound ==
  ASSUME PipelineInv, job.step # "none", NEW e \in {"auxiliary", "execution"},
         item' = [item EXCEPT ![job.of].effects = @ \cup {e}],
         job' = [job EXCEPT !.step = "settle"],
         Held(job, item[job.of]), item[job.of].status \notin Early,
         <<"settle", item[job.of].status>> \in HeldAs, TickInv'
  PROVE  Sound
<1> DEFINE r == item[job.of]  s == [r EXCEPT !.effects = @ \cup {e}]
<1>1. ItemsInv(item) /\ job \in Job /\ job.of \in Items
  BY DEF PipelineInv, JobInv, Job
<1>2. RowInv(r) /\ r \in Item
  BY <1>1 DEF ItemsInv, RowInv
<1>3. r.effects \cup {e} \in SUBSET {"auxiliary", "execution"}
  BY <1>2 DEF Item
<1>4. /\ s \in Item /\ s.status = r.status /\ s.gen = r.gen /\ s.cand = r.cand
      /\ s.proven = r.proven /\ s.resumable = r.resumable /\ s.version = r.version
  BY <1>2, <1>3 DEF Item
<1>5. RowStep(r, s)
  BY <1>2, <1>4 DEF RowStep, RowInv, ProvenNow
<1>6. item' = [item EXCEPT ![job.of] = s]
  BY <1>1 DEF ItemsInv
<1>7. ItemsStep(item, item')
  <2>1. ItemsStep(item, item)
    BY <1>1, SameRow DEF ItemsStep, ItemsInv
  <2> HIDE DEF s
  <2>2. ItemsStep(item, [item EXCEPT ![job.of] = s])
    BY <1>1, <1>5, <2>1, ChangeOne
  <2> QED BY <1>6, <2>2
<1>8. /\ job' \in Job /\ job'.step = "settle" /\ job'.of = job.of
      /\ job'.ver = job.ver /\ job'.gen = job.gen /\ job'.cand = job.cand
  BY <1>1 DEF Job, Steps
<1>9. item'[job'.of] = s
  BY <1>1, <1>6, <1>8 DEF ItemsInv
<1>10. Held(job', item'[job'.of])
  BY <1>4, <1>8, <1>9 DEF Held
<1>11. (Held(job, item[job.of]))' = Held(job', item'[job'.of])
  BY DEF Held
<1>12. JobInv'
  BY <1>8, <1>10, <1>11 DEF JobInv
<1> QED BY <1>7, <1>12 DEF Sound, ResultIsFenced, Held

LEMMA AuxiliaryStageSound == ASSUME PipelineInv, AuxiliaryStage PROVE Sound
<1>1. TickInv /\ job.step = "stage" /\ UNCHANGED <<execution, batch>> /\ KeepTick
  BY DEF PipelineInv, AuxiliaryStage, Holds
<1>2. TickInv'
  BY <1>1, KeepsTick DEF KeepTick, TickInv
<1>3. CASE Unchanged({"AUXILIARY_FETCHING"})
  <2>1. Held(job, item[job.of])
    BY <1>1, <1>3, FenceShows DEF Unchanged, TakenAway
  <2>2. item[job.of].status = "AUXILIARY_FETCHING"
    BY <1>3 DEF Unchanged, Current
  <2> QED BY <1>1, <1>2, <1>3, <2>1, <2>2, EffectsSound DEF AuxiliaryStage, Early, HeldAs
<1>4. CASE ~Unchanged({"AUXILIARY_FETCHING"})
  BY <1>2, <1>4, GivesUpSound DEF AuxiliaryStage
<1> QED BY <1>3, <1>4

LEMMA AuxiliaryStagedSound == ASSUME PipelineInv, AuxiliaryStaged PROVE Sound
<1> DEFINE s == [item[job.of] EXCEPT !.aux = "DOWNLOADING"]
<1>1. /\ TickInv /\ job.step # "none" /\ UNCHANGED <<execution, batch>> /\ KeepTick
      /\ job' = NoJob
      /\ item' = IF Unchanged({"AUXILIARY_FETCHING"}) THEN Saved(job.of, s) ELSE item
  BY DEF PipelineInv, AuxiliaryStaged, Holds
<1>2. TickInv'
  BY <1>1, KeepsTick DEF KeepTick, TickInv
<1>3. Unchanged({"AUXILIARY_FETCHING"}) =>
        RowStep(item[job.of], s) /\ item[job.of].version = job.ver
  BY <1>1, FetchingFacts, SameRow, AuxStep
<1> QED BY <1>1, <1>2, <1>3, ConcludeSound

LEMMA AuxiliaryFinishSound == ASSUME PipelineInv, AuxiliaryFinish PROVE Sound
<1> DEFINE fence == Unchanged({"AUXILIARY_FETCHING"})
<1>1. TickInv /\ job.step # "none" /\ UNCHANGED batch /\ KeepTick
  BY DEF PipelineInv, AuxiliaryFinish, Holds
<1>2. PICK r \in {[Verified(item[job.of]) EXCEPT !.aux = "READY"],
                  [Mismatched(item[job.of], "MISMATCH") EXCEPT !.aux = "DOWNLOADING"]} :
        Conclude(fence, r, RefreshAuxiliary)
  BY DEF AuxiliaryFinish
<1>3. fence => RowStep(item[job.of], r) /\ item[job.of].version = job.ver
  <2> SUFFICES ASSUME fence PROVE RowStep(item[job.of], r) /\ item[job.of].version = job.ver
    OBVIOUS
  <2>1. /\ item[job.of].version = job.ver /\ RowInv(item[job.of])
        /\ item[job.of].resumable = FALSE /\ item[job.of].status \notin Early
    BY <1>1, FetchingFacts
  <2>2. CASE r = [Verified(item[job.of]) EXCEPT !.aux = "READY"]
    BY <2>1, <2>2, VerifiedStep, AuxStep
  <2>3. CASE r = [Mismatched(item[job.of], "MISMATCH") EXCEPT !.aux = "DOWNLOADING"]
    <3>1. "MISMATCH" \in Verification
      BY DEF Verification
    <3>2. RowStep(item[job.of], Mismatched(item[job.of], "MISMATCH"))
      BY <2>1, <3>1, MismatchedStep
    <3> QED BY <2>1, <2>3, <3>2, AuxStep
  <2> QED BY <1>2, <2>2, <2>3
<1>4. /\ item' = IF fence THEN Saved(job.of, r) ELSE item
      /\ execution' \in {execution, RefreshAuxiliary(Saved(job.of, r))}
      /\ job' = NoJob
  BY <1>2 DEF Conclude, Commit
<1>5. TickInv'
  BY <1>1, <1>4, RefreshTypes, KeepsTick DEF KeepTick, TickInv
<1> QED BY <1>1, <1>3, <1>4, <1>5, ConcludeSound

\* A failure, which records whether the work may be resumed.
LEMMA FailedStep ==
  ASSUME NEW r, RowInv(r), NEW b \in BOOLEAN,
         NEW x \in {"MATCH_ERROR", "EXECUTION_ERROR"},
         x = "EXECUTION_ERROR" /\ b => ProvenNow(r)
  PROVE  RowStep(r, [r EXCEPT !.status = x, !.resumable = b])
<1> DEFINE s == [r EXCEPT !.status = x, !.resumable = b]
<1>1. r \in Item
  BY DEF RowInv
<1>2. s \in Item
  BY <1>1, StatusFacts DEF Item
<1>3. /\ s.status = x /\ s.resumable = b /\ s.cand = r.cand /\ s.gen = r.gen
      /\ s.proven = r.proven
  BY <1>1 DEF Item
<1> QED BY <1>2, <1>3 DEF RowStep, RowInv, ProvenNow, Beyond, Early

LEMMA AuxiliaryEndsSound ==
  ASSUME PipelineInv, AuxiliaryWaits \/ AuxiliaryUnavailable \/ AuxiliaryFails PROVE Sound
<1>1. TickInv
  BY DEF PipelineInv
<1>2. CASE AuxiliaryWaits
  <2>1. TickInv'
    BY <1>1, <1>2, KeepsTick DEF AuxiliaryWaits, SameItems, KeepTick, TickInv
  <2> QED BY <1>2, <2>1, GivesUpSound DEF AuxiliaryWaits, SameItems
<1>3. CASE AuxiliaryUnavailable
  <2>1. TickInv'
    BY <1>1, <1>3, SpendType, KeepsTick DEF AuxiliaryUnavailable, SameItems, TickInv
  <2> QED BY <1>3, <2>1, GivesUpSound DEF AuxiliaryUnavailable, SameItems
<1>4. CASE AuxiliaryFails
  <2> DEFINE r == item[job.of]  fence == Unchanged({"AUXILIARY_FETCHING"})
  <2>1. job.step # "none" /\ UNCHANGED batch /\ KeepTick
    BY <1>4 DEF AuxiliaryFails, Holds
  <2>2. PICK b \in BOOLEAN :
          Conclude(fence, [r EXCEPT !.status = "MATCH_ERROR", !.resumable = b],
                   RefreshAuxiliary)
    BY <1>4 DEF AuxiliaryFails
  <2> DEFINE s == [r EXCEPT !.status = "MATCH_ERROR", !.resumable = b]
  <2>3. fence => RowStep(r, s) /\ r.version = job.ver
    BY <2>1, FetchingFacts, FailedStep
  <2>4. /\ item' = IF fence THEN Saved(job.of, s) ELSE item
        /\ execution' \in {execution, RefreshAuxiliary(Saved(job.of, s))}
        /\ job' = NoJob
    BY <2>2 DEF Conclude, Commit
  <2>5. TickInv'
    BY <1>1, <2>1, <2>4, RefreshTypes, KeepsTick DEF KeepTick, TickInv
  <2> QED BY <2>1, <2>3, <2>4, <2>5, ConcludeSound
<1> QED BY <1>2, <1>3, <1>4

-----------------------------------------------------------------------------
(* Planning, file placement, seeding. *)

\* A row goes on with the candidate that was verified.
LEMMA OnwardStep ==
  ASSUME NEW r, RowInv(r), ProvenNow(r), r.resumable = FALSE, NEW x \in Status \ Early,
         NEW t \in {"NONE", "MATERIALIZING", "FILES_MATERIALIZED", "SEEDING"}
  PROVE  /\ RowStep(r, [r EXCEPT !.status = x])
         /\ RowStep(r, [r EXCEPT !.status = x, !.stage = t])
<1>1. r \in Item
  BY DEF RowInv
<1>2. [r EXCEPT !.status = x] \in Item /\ [r EXCEPT !.status = x, !.stage = t] \in Item
  BY <1>1 DEF Item
<1>3. ASSUME NEW s \in {[r EXCEPT !.status = x], [r EXCEPT !.status = x, !.stage = t]}
      PROVE  /\ s.status = x /\ s.resumable = FALSE /\ s.cand = r.cand /\ s.gen = r.gen
             /\ s.proven = r.proven
  BY <1>1 DEF Item
<1> QED BY <1>2, <1>3, StayStep

LEMMA BeyondFacts ==
  ASSUME NEW r, RowInv(r), r.status \in Beyond
  PROVE  r \in Item /\ ProvenNow(r) /\ r.resumable = FALSE
BY DEF RowInv, Beyond, Item

\* Every phase that works on a list takes an item and holds it as it is.
LEMMA PlanSound ==
  ASSUME PipelineInv, PlanBuilt \/ PlanFails \/ \E i \in Items : PlanLoad(i) PROVE Sound
<1> DEFINE r == item[job.of]  fence == Unchanged({"CONTENT_VERIFIED"})
<1>1. TickInv
  BY DEF PipelineInv
<1>2. ASSUME fence, job.step # "none"
      PROVE  /\ RowInv(r) /\ r \in Item /\ ProvenNow(r) /\ r.resumable = FALSE
             /\ r.version = job.ver
  <2>1. RowInv(r) /\ r.version = job.ver
    BY <1>2 DEF PipelineInv, JobInv, Job, ItemsInv, Unchanged, Current
  <2>2. r.status \in Beyond
    BY <1>2 DEF Unchanged, Current, Beyond
  <2> QED BY <2>1, <2>2, BeyondFacts
<1>3. CASE PlanBuilt
  <2> DEFINE ok == fence /\ r.checks[r.cand] = "VERIFIED"
  <2>1. job.step # "none" /\ UNCHANGED batch /\ KeepTick
    BY <1>3 DEF PlanBuilt, Holds
  <2>2. PICK ready \in BOOLEAN :
          Conclude(ok, [r EXCEPT !.status = "PLAN_PENDING", !.ready = ready,
                                 !.planned = r.version], Executes)
    BY <1>3 DEF PlanBuilt
  <2> DEFINE s == [r EXCEPT !.status = "PLAN_PENDING", !.ready = ready,
                            !.planned = r.version]
  <2>3. ASSUME ok PROVE RowStep(r, s) /\ r.version = job.ver
    <3>1. RowInv(r) /\ r \in Item /\ ProvenNow(r) /\ r.resumable = FALSE /\ r.version = job.ver
      BY <1>2, <2>1, <2>3
    <3>2. r.version \in Nat
      BY <3>1 DEF Item
    <3>3. s \in Item
      BY <3>1, <3>2, StatusFacts DEF Item
    <3>4. /\ s.status = "PLAN_PENDING" /\ s.resumable = FALSE /\ s.cand = r.cand
          /\ s.gen = r.gen /\ s.proven = r.proven
      BY <3>1 DEF Item
    <3> QED BY <3>1, <3>3, <3>4, StayStep DEF Early
  <2>4. /\ item' = IF ok THEN Saved(job.of, s) ELSE item
        /\ execution' \in {execution, Executes(Saved(job.of, s))}
        /\ job' = NoJob
    BY <2>2 DEF Conclude, Commit
  <2>5. TickInv'
    BY <1>1, <2>1, <2>4, RefreshTypes, KeepsTick DEF KeepTick, TickInv
  <2> QED BY <2>1, <2>3, <2>4, <2>5, ConcludeSound
<1>4. CASE PlanFails
  <2> DEFINE s == [r EXCEPT !.status = "EXECUTION_ERROR"]
  <2>1. job.step # "none" /\ UNCHANGED batch /\ KeepTick
    BY <1>4 DEF PlanFails, Holds
  <2>2. "EXECUTION_ERROR" \in Status \ Early
    BY StatusFacts DEF Early
  <2>3. fence => RowStep(r, s) /\ r.version = job.ver
    BY <1>2, <2>1, <2>2, OnwardStep
  <2>4. /\ item' = IF fence THEN Saved(job.of, s) ELSE item
        /\ execution' \in {execution, RefreshExecuting(Saved(job.of, s))}
        /\ job' = NoJob
    BY <1>4 DEF PlanFails, Conclude, Commit
  <2>5. TickInv'
    BY <1>1, <2>1, <2>4, RefreshTypes, KeepsTick DEF KeepTick, TickInv
  <2> QED BY <2>1, <2>3, <2>4, <2>5, ConcludeSound
<1>5. ASSUME NEW i \in Items, PlanLoad(i) PROVE Sound
  <2>1. item[i].status = "CONTENT_VERIFIED"
    BY <1>5, TakesFacts DEF PlanLoad, Working, Eligible
  <2>2. "build" \in Steps /\ <<"build", "CONTENT_VERIFIED">> \in HeldAs
    BY DEF Steps, HeldAs
  <2> QED BY <1>5, <2>1, <2>2, LoadSound DEF PlanLoad
<1> QED BY <1>3, <1>4, <1>5

LEMMA FilesReserveSound ==
  ASSUME PipelineInv, NEW i \in Items, FilesReserve(i) PROVE Sound
<1> DEFINE r == item[i]
<1>1. ItemsInv(item) /\ TickInv /\ Takes(i) /\ KeepTick
  BY DEF PipelineInv, FilesReserve
<1>2. r.status \in {"EXECUTING", "PLAN_PENDING"}
  BY <1>1, TakesFacts DEF FilesReserve, Working, Eligible
<1>3. RowInv(r) /\ r \in Item /\ ProvenNow(r) /\ r.resumable = FALSE
  BY <1>1, <1>2, BeyondFacts DEF ItemsInv, Beyond
<1>4. {"EXECUTING", "EXECUTION_ERROR"} \subseteq Status \ Early
  BY StatusFacts DEF Early
<1>5. "write" \in Steps /\ <<"write", "EXECUTING">> \in HeldAs
  BY DEF Steps, HeldAs
<1>6. CASE r.status = "EXECUTING"
  <2>1. Hold("write", i, r) /\ SameItems
    BY <1>6 DEF FilesReserve
  <2> QED BY <1>1, <1>5, <1>6, <2>1, LoadSound
<1>7. CASE r.status # "EXECUTING" /\ r.version = r.planned + 1
  <2> DEFINE s == [r EXCEPT !.status = "EXECUTING", !.stage = "MATERIALIZING"]
  <2>1. item' = Saved(i, s) /\ Hold("write", i, Bumped(s)) /\ UNCHANGED execution
    BY <1>7 DEF FilesReserve
  <2>2. RowStep(r, s)
    BY <1>3, <1>4, OnwardStep
  <2>3. s.status = "EXECUTING"
    BY <1>3 DEF Item
  <2>4. TickInv'
    BY <1>1, <2>1, TakesFacts, KeepsTick DEF KeepTick, TickInv
  <2> QED BY <1>1, <1>5, <2>1, <2>2, <2>3, <2>4, TakesFacts, ClaimSound
<1>8. CASE r.status # "EXECUTING" /\ r.version # r.planned + 1
  <2> DEFINE s == [r EXCEPT !.status = "EXECUTION_ERROR"]
  <2>1. item' = Saved(i, s) /\ execution' = RefreshExecuting(Saved(i, s)) /\ UNCHANGED job
    BY <1>8 DEF FilesReserve, Commit
  <2>2. RowStep(r, s)
    BY <1>3, <1>4, OnwardStep
  <2>3. ItemsStep(item, item')
    BY <1>1, <2>1, <2>2, SavedStep
  <2>4. TickInv'
    BY <1>1, <2>1, TakesFacts, RefreshTypes, KeepsTick DEF KeepTick, TickInv
  <2> QED BY <1>1, <2>1, <2>3, <2>4, TakesFacts, FreeSound
<1> QED BY <1>6, <1>7, <1>8

\* What the fences of placement and seeding show.
LEMMA ExecutingFacts ==
  ASSUME PipelineInv, job.step # "none", Placing \/ Seeding
  PROVE  /\ RowInv(item[job.of]) /\ item[job.of] \in Item /\ ProvenNow(item[job.of])
         /\ item[job.of].resumable = FALSE /\ item[job.of].version = job.ver
<1>1. /\ RowInv(item[job.of]) /\ item[job.of].version = job.ver
      /\ item[job.of].status \in Beyond
  BY DEF PipelineInv, JobInv, Job, ItemsInv, Placing, Seeding, Unchanged, Current, Beyond
<1> QED BY <1>1, BeyondFacts

LEMMA FilesSound ==
  ASSUME PipelineInv, FilesWrite \/ FilesMaterialized \/ FilesFail PROVE Sound
<1> DEFINE r == item[job.of]
<1>1. TickInv /\ job.step # "none" /\ UNCHANGED batch /\ KeepTick
  BY DEF PipelineInv, FilesWrite, FilesMaterialized, FilesFail, Holds
<1>2. CASE FilesWrite
  <2>1. TickInv'
    BY <1>1, <1>2, KeepsTick DEF FilesWrite, KeepTick, TickInv
  <2>2. CASE Placing
    <3>1. Held(job, r) /\ r.status = "EXECUTING"
      BY <1>1, <2>2, FenceShows DEF Placing, Unchanged, Current, TakenAway
    <3> QED BY <1>1, <1>2, <2>1, <2>2, <3>1, EffectsSound DEF FilesWrite, Early, HeldAs
  <2>3. CASE ~Placing
    BY <1>2, <2>1, <2>3, GivesUpSound DEF FilesWrite
  <2> QED BY <2>2, <2>3
<1>3. CASE FilesMaterialized
  <2> DEFINE s == [r EXCEPT !.stage = "FILES_MATERIALIZED"]
  <2>1. /\ item' = IF Placing THEN Saved(job.of, s) ELSE item
        /\ job' = NoJob /\ UNCHANGED execution
    BY <1>3 DEF FilesMaterialized
  <2>2. ASSUME Placing PROVE RowStep(r, s) /\ r.version = job.ver
    <3>1. /\ RowInv(r) /\ r \in Item /\ ProvenNow(r) /\ r.resumable = FALSE
          /\ r.version = job.ver /\ r.status = "EXECUTING"
      BY <1>1, <2>2, ExecutingFacts DEF Placing, Unchanged, Current
    <3>2. s = [r EXCEPT !.status = "EXECUTING", !.stage = "FILES_MATERIALIZED"]
      BY <3>1 DEF Item
    <3>3. "EXECUTING" \in Status \ Early
      BY StatusFacts DEF Early
    <3> QED BY <3>1, <3>2, <3>3, OnwardStep
  <2>3. TickInv'
    BY <1>1, <2>1, KeepsTick DEF KeepTick, TickInv
  <2> QED BY <1>1, <2>1, <2>2, <2>3, ConcludeSound
<1>4. CASE FilesFail
  <2> DEFINE s == [r EXCEPT !.status = "EXECUTION_ERROR", !.resumable = FALSE]
  <2>1. Placing => RowStep(r, s) /\ r.version = job.ver
    BY <1>1, ExecutingFacts, FailedStep
  <2>2. /\ item' = IF Placing THEN Saved(job.of, s) ELSE item
        /\ execution' \in {execution, RefreshExecuting(Saved(job.of, s))}
        /\ job' = NoJob
    BY <1>4 DEF FilesFail, Conclude, Commit
  <2>3. TickInv'
    BY <1>1, <2>2, RefreshTypes, KeepsTick DEF KeepTick, TickInv
  <2> QED BY <1>1, <2>1, <2>2, <2>3, ConcludeSound
<1> QED BY <1>2, <1>3, <1>4

LEMMA SeedLoadSound ==
  ASSUME PipelineInv, NEW i \in Items, SeedLoad(i) PROVE Sound
<1>1. item[i].status \in {"EXECUTING", "CLIENT_VERIFYING"}
  BY TakesFacts DEF SeedLoad, Working, Eligible
<1>2. "seed" \in Steps /\ <<"seed", item[i].status>> \in HeldAs
  BY <1>1 DEF Steps, HeldAs
<1> QED BY <1>2, LoadSound DEF SeedLoad

LEMMA SeedSound ==
  ASSUME PipelineInv, SeedAdvance \/ SeedWaits \/ SeedFinish \/ SeedFails PROVE Sound
<1> DEFINE r == item[job.of]
<1>1. TickInv /\ job.step # "none" /\ UNCHANGED batch /\ KeepTick /\ job' = NoJob
  BY DEF PipelineInv, SeedAdvance, SeedWaits, SeedFinish, SeedFails, SameItems, Holds, Conclude
<1>2. CASE SeedWaits
  <2>1. TickInv'
    BY <1>1, <1>2, KeepsTick DEF SeedWaits, SameItems, KeepTick, TickInv
  <2> QED BY <1>2, <2>1, GivesUpSound DEF SeedWaits, SameItems
<1>3. ASSUME NEW x \in Status \ Early,
             NEW s \in {[r EXCEPT !.status = x], [r EXCEPT !.status = x, !.stage = "SEEDING"]},
             item' = IF Seeding THEN Saved(job.of, s) ELSE item,
             execution' \in {execution, RefreshExecuting(Saved(job.of, s))}
      PROVE  Sound
  <2>1. ASSUME Seeding PROVE RowStep(r, s) /\ r.version = job.ver
    <3>1. RowInv(r) /\ ProvenNow(r) /\ r.resumable = FALSE /\ r.version = job.ver
      BY <1>1, <2>1, ExecutingFacts
    <3>2. /\ RowStep(r, [r EXCEPT !.status = x])
          /\ RowStep(r, [r EXCEPT !.status = x, !.stage = "SEEDING"])
      BY <3>1, OnwardStep
    <3> QED BY <1>3, <3>1, <3>2
  <2>2. TickInv'
    BY <1>1, <1>3, RefreshTypes, KeepsTick DEF KeepTick, TickInv
  <2> QED BY <1>1, <1>3, <2>1, <2>2, ConcludeSound
<1>4. {"EXECUTING", "CLIENT_VERIFYING", "COMPLETED"} \subseteq Status \ Early
  BY StatusFacts DEF Early
<1>5. CASE SeedAdvance
  <2>1. PICK x \in {"EXECUTING", "CLIENT_VERIFYING"} :
          item' = IF Seeding THEN Saved(job.of, [r EXCEPT !.status = x, !.stage = "SEEDING"])
                  ELSE item
    BY <1>5 DEF SeedAdvance
  <2> QED BY <1>3, <1>4, <1>5, <2>1 DEF SeedAdvance
<1>6. CASE SeedFinish
  <2>1. /\ item' = IF Seeding THEN Saved(job.of, [r EXCEPT !.status = "COMPLETED"]) ELSE item
        /\ execution' \in {execution,
                           RefreshExecuting(Saved(job.of, [r EXCEPT !.status = "COMPLETED"]))}
    BY <1>6 DEF SeedFinish, Conclude, Commit
  <2> QED BY <1>3, <1>4, <2>1
<1>7. CASE SeedFails
  <2>1. PICK b \in BOOLEAN :
          Conclude(Seeding, [r EXCEPT !.status = "EXECUTION_ERROR", !.resumable = b],
                   RefreshExecuting)
    BY <1>7 DEF SeedFails
  <2> DEFINE s == [r EXCEPT !.status = "EXECUTION_ERROR", !.resumable = b]
  <2>2. Seeding => RowStep(r, s) /\ r.version = job.ver
    BY <1>1, ExecutingFacts, FailedStep
  <2>3. /\ item' = IF Seeding THEN Saved(job.of, s) ELSE item
        /\ execution' \in {execution, RefreshExecuting(Saved(job.of, s))}
    BY <2>1 DEF Conclude, Commit
  <2>4. TickInv'
    BY <1>1, <2>3, RefreshTypes, KeepsTick DEF KeepTick, TickInv
  <2> QED BY <1>1, <2>2, <2>3, <2>4, ConcludeSound
<1> QED BY <1>2, <1>5, <1>6, <1>7

-----------------------------------------------------------------------------
(* Time and the management API. *)

LEMMA TimePassesSound ==
  ASSUME PipelineInv, NEW i \in Items, TimePasses(i) PROVE Sound
<1> DEFINE r == item[i]  s == [r EXCEPT !.due = TRUE]
<1>1. ItemsInv(item) /\ JobInv /\ TickInv /\ UNCHANGED job
  BY DEF PipelineInv, TimePasses, driverVars
<1>2. RowInv(r) /\ r \in Item /\ r.status = "MATCH_PENDING" /\ r.resumable = FALSE
  BY <1>1 DEF ItemsInv, RowInv, TimePasses, Item
<1>3. s \in Item
  BY <1>2 DEF Item
<1>4. /\ s.status = "MATCH_PENDING" /\ s.resumable = FALSE /\ s.cand = r.cand
      /\ s.gen = r.gen /\ s.effects = r.effects
  BY <1>2 DEF Item
<1>5. RowStep(r, s)
  BY <1>2, <1>3, <1>4 DEF RowStep, RowInv, Beyond, Early
<1>6. item' = [item EXCEPT ![i] = s]
  BY <1>1 DEF TimePasses, ItemsInv
<1> HIDE DEF s
<1>7. ItemsStep(item, item')
  <2>1. ItemsStep(item, item)
    BY <1>1, SameRow DEF ItemsStep, ItemsInv
  <2> QED BY <1>5, <1>6, <2>1, ChangeOne
<1>8. item'[job.of] = item[job.of] \/ item'[job.of].status \in TakenAway
  BY <1>1, <1>4, <1>6 DEF ItemsInv, TakenAway, JobInv, Job
<1>9. TickInv'
  BY <1>1 DEF TimePasses, driverVars, TickInv
<1> QED BY <1>1, <1>7, <1>8, <1>9, CallSound

\* What a call leaves of the tick.
LEMMA CallTick ==
  ASSUME TickInv, Call, execution' \in ExecutionStatus
  PROVE  TickInv' /\ UNCHANGED job
<1>1. budget' \in [{"fault", "call"} -> Nat]
  BY SpendType DEF Call
<1> QED BY <1>1 DEF TickInv, Call, driverVars

\* A call that writes one row, which no worker holds or which it takes away.
LEMMA OneCallSound ==
  ASSUME PipelineInv, NEW i \in Items, NEW s, RowStep(item[i], s),
         item' = Saved(i, s), Call, execution' \in ExecutionStatus,
         \/ s.status \in TakenAway
         \/ /\ item[i].status \notin TakenAway
            /\ \A st : <<st, item[i].status>> \notin HeldAs
  PROVE  Sound
<1>1. ItemsInv(item) /\ JobInv /\ TickInv
  BY DEF PipelineInv
<1>2. ItemsStep(item, item')
  BY <1>1, SavedStep
<1>3. TickInv' /\ UNCHANGED job
  BY <1>1, CallTick
<1>4. /\ \A j \in Items : j # i => item'[j] = item[j]
      /\ item'[i] = Bumped(s) /\ Bumped(s).status = s.status
  <2>1. s \in Item
    BY DEF RowStep, RowInv
  <2> QED BY <1>1, <2>1 DEF Saved, ItemsInv, Bumped, Item
<1>5. job.step # "none" => \/ item'[job.of] = item[job.of]
                           \/ item'[job.of].status \in TakenAway
  BY <1>1, <1>4 DEF JobInv, Job, Held
<1> QED BY <1>2, <1>3, <1>5, CallSound

LEMMA DecidedStep ==
  ASSUME NEW r, RowInv(r), r.effects = {}, NEW x \in {"MATCHED_MANUAL", "NO_MATCH"},
         NEW c \in 0..2
  PROVE  RowStep(r, Decided(r, x, c)) /\ Decided(r, x, c).status \in TakenAway
<1>1. r \in Item
  BY DEF RowInv
<1>2. Decided(r, x, c) \in Item
  BY <1>1, StatusFacts, NumberFacts DEF Decided, Item
<1>3. /\ Decided(r, x, c).status = x /\ Decided(r, x, c).resumable = FALSE
      /\ Decided(r, x, c).effects = {}
  BY <1>1 DEF Decided, Item
<1> QED BY <1>2, <1>3, EditStep DEF Beyond, TakenAway

LEMMA ReviewSound ==
  ASSUME PipelineInv, NEW i \in Items, Approve(i) \/ Reject(i) PROVE Sound
<1>1. RowInv(item[i]) /\ item[i].effects = {} /\ TickInv /\ Call
  BY DEF PipelineInv, ItemsInv, Approve, Reject, MayReview
<1>2. PICK x \in {"MATCHED_MANUAL", "NO_MATCH"}, c \in 0..2 :
        Commit(i, Decided(item[i], x, c), RefreshActions)
  <2>1. CASE Approve(i)
    BY <2>1 DEF Approve, Candidates
  <2>2. CASE Reject(i)
    BY <2>2, NumberFacts DEF Reject
  <2> QED BY <2>1, <2>2
<1> DEFINE s == Decided(item[i], x, c)
<1>3. item' = Saved(i, s) /\ execution' = RefreshActions(Saved(i, s))
  BY <1>2 DEF Commit
<1>4. RowStep(item[i], s) /\ s.status \in TakenAway
  BY <1>1, DecidedStep
<1> HIDE DEF s
<1> QED BY <1>1, <1>3, <1>4, RefreshTypes, OneCallSound

LEMMA AddCandidateSound ==
  ASSUME PipelineInv, NEW i \in Items, AddCandidate(i) PROVE Sound
<1>1. /\ RowInv(item[i]) /\ item[i] \in Item /\ item[i].status = "REVIEW_REQUIRED"
      /\ item[i].resumable = FALSE /\ TickInv /\ Call
  BY DEF PipelineInv, ItemsInv, RowInv, AddCandidate, Item
<1>2. PICK c \in Candidates :
        item' = Saved(i, [item[i] EXCEPT !.checks = [@ EXCEPT ![c] = "NOT_CHECKED"]])
  BY DEF AddCandidate
<1> DEFINE u == [item[i].checks EXCEPT ![c] = "NOT_CHECKED"]
           s == [item[i] EXCEPT !.checks = u]
<1>3. u \in [Candidates -> Verification]
  BY <1>1 DEF Item, Verification
<1>4. s \in Item
  BY <1>1, <1>3 DEF Item
<1>5. /\ s.status = "REVIEW_REQUIRED" /\ s.resumable = FALSE /\ s.cand = item[i].cand
      /\ s.gen = item[i].gen
  BY <1>1 DEF Item
<1>6. RowStep(item[i], s)
  BY <1>1, <1>4, <1>5, EditStep DEF Beyond, Early
<1>7. item' = Saved(i, s)
  BY <1>1, <1>2 DEF Item
<1>8. execution' \in ExecutionStatus
  BY <1>1 DEF AddCandidate, TickInv
<1>9. item[i].status \notin TakenAway /\ \A st : <<st, item[i].status>> \notin HeldAs
  BY <1>1 DEF TakenAway, HeldAs
<1> HIDE DEF s
<1> QED BY <1>1, <1>6, <1>7, <1>8, <1>9, OneCallSound

LEMMA RetryMatchSound ==
  ASSUME PipelineInv, NEW i \in Items, RetryMatch(i) PROVE Sound
<1> DEFINE r == item[i]
<1>1. RowInv(r) /\ r \in Item /\ TickInv /\ Call
  BY DEF PipelineInv, ItemsInv, RowInv, RetryMatch
<1>2. CASE r.effects = {} /\ Commit(i, Reset(r, FALSE), RefreshActions)
  <2>1. RowStep(r, Reset(r, FALSE))
    BY <1>1, <1>2, ResetStep
  <2>2. Reset(r, FALSE).status \in TakenAway
    BY <1>1 DEF Reset, Item, TakenAway
  <2>3. /\ item' = Saved(i, Reset(r, FALSE))
        /\ execution' = RefreshActions(Saved(i, Reset(r, FALSE)))
    BY <1>2 DEF Commit
  <2> QED BY <1>1, <2>1, <2>2, <2>3, RefreshTypes, OneCallSound
<1>3. CASE /\ r.effects # {} /\ r.resumable
           /\ Commit(i, [r EXCEPT !.resumable = FALSE, !.status =
                           IF @ = "MATCH_ERROR" THEN "AUXILIARY_FETCHING" ELSE "EXECUTING"],
                     RefreshActions)
  <2> DEFINE x == IF r.status = "MATCH_ERROR" THEN "AUXILIARY_FETCHING" ELSE "EXECUTING"
             s == [r EXCEPT !.resumable = FALSE, !.status = x]
  <2>1. item' = Saved(i, s) /\ execution' = RefreshActions(Saved(i, s))
    BY <1>1, <1>3 DEF Commit, Item
  <2>2. \/ r.status = "MATCH_ERROR"
        \/ r.status = "EXECUTION_ERROR" /\ ProvenNow(r)
    BY <1>1, <1>3 DEF RowInv
  <2>3. s \in Item
    <3>1. \A y \in Status : [r EXCEPT !.resumable = FALSE, !.status = y] \in Item
      BY <1>1 DEF Item
    <3> QED BY <3>1, StatusFacts
  <2>4. /\ s.status = x /\ s.resumable = FALSE /\ s.cand = r.cand /\ s.gen = r.gen
        /\ s.proven = r.proven
    BY <1>1 DEF Item
  <2>5. RowStep(r, s)
    BY <2>2, <2>3, <2>4 DEF RowStep, RowInv, ProvenNow, Beyond, Early
  <2>6. r.status \notin TakenAway /\ \A st : <<st, r.status>> \notin HeldAs
    BY <2>2 DEF TakenAway, HeldAs
  <2> HIDE DEF s
  <2> QED BY <1>1, <2>1, <2>5, <2>6, RefreshTypes, OneCallSound
<1> QED BY <1>2, <1>3, Zenon DEF RetryMatch

LEMMA RetryAllSound == ASSUME PipelineInv, RetryAll PROVE Sound
<1>1. ItemsInv(item) /\ JobInv /\ TickInv /\ Call
  BY DEF PipelineInv, RetryAll
<1>2. PICK again \in SUBSET Items :
        LET new == [i \in Items |-> IF i \in again THEN Bumped(Reset(item[i], FALSE))
                                    ELSE item[i]]
        IN /\ \A i \in again : item[i].effects = {}
           /\ item' = new /\ execution' = RefreshActions(new)
  <2>1. PICK S \in SUBSET (Rematchable \cap {item[i].status : i \in Items}) :
          LET again == {i \in Items : item[i].status \in S /\ BulkSafe(item[i])}
              new == [i \in Items |-> IF i \in again THEN Bumped(Reset(item[i], FALSE))
                                      ELSE item[i]]
          IN again # {} /\ item' = new /\ execution' = RefreshActions(new)
    BY DEF RetryAll
  <2> DEFINE again == {i \in Items : item[i].status \in S /\ BulkSafe(item[i])}
  <2>2. again \in SUBSET Items /\ \A i \in again : item[i].effects = {}
    BY DEF BulkSafe
  <2> WITNESS again \in SUBSET Items
  <2> QED BY <2>1, <2>2
<1>3. execution' \in ExecutionStatus
  BY <1>1, <1>2, RefreshTypes
<1>4. TickInv' /\ UNCHANGED job
  BY <1>1, <1>3, CallTick
<1>5. ASSUME NEW i \in again
      PROVE  /\ RowStep(item[i], item'[i])
             /\ item'[i].status = "MATCH_PENDING"
  <2>1. item'[i] = Bumped(Reset(item[i], FALSE)) /\ RowInv(item[i]) /\ item[i].effects = {}
    BY <1>1, <1>2, <1>5 DEF ItemsInv
  <2>2. RowStep(item[i], Reset(item[i], FALSE)) /\ Reset(item[i], FALSE) \in Item
    BY <2>1, ResetStep DEF RowStep, RowInv
  <2>3. Reset(item[i], FALSE).status = "MATCH_PENDING"
    BY <2>1 DEF Reset, RowInv, Item
  <2>4. RowStep(item[i], Bumped(Reset(item[i], FALSE)))
    BY <2>2, BumpedStep
  <2>5. Bumped(Reset(item[i], FALSE)).status = "MATCH_PENDING"
    BY <2>2, <2>3 DEF Bumped, Item
  <2> QED BY <2>1, <2>4, <2>5
<1>6. \A i \in Items \ again : item'[i] = item[i]
  BY <1>2
<1>7. ItemsStep(item, item')
  <2>1. \A i \in Items : RowStep(item[i], item'[i])
    BY <1>1, <1>5, <1>6, SameRow DEF ItemsInv
  <2> QED BY <1>2, <2>1 DEF ItemsStep, RowStep, RowInv
<1>8. job.step # "none" => \/ item'[job.of] = item[job.of]
                           \/ item'[job.of].status \in TakenAway
  BY <1>1, <1>5, <1>6 DEF JobInv, Job, TakenAway
<1> QED BY <1>4, <1>7, <1>8, CallSound

LEMMA NewItemType ==
  ASSUME NEW b \in BOOLEAN
  PROVE  [NewItem EXCEPT !.named = b] \in Item /\ [NewItem EXCEPT !.status = "GONE"] \in Item
<1>1. <<0, 0>> \in Nat \X (0..2)
  BY NumberFacts
<1>2. NewItem \in Item
  BY <1>1, UncheckedType, NumberFacts, StatusFacts DEF NewItem, Item
<1> QED BY <1>2, StatusFacts DEF Item

LEMMA DeleteSound ==
  ASSUME PipelineInv, NEW i \in Items, Delete(i) PROVE Sound
<1> DEFINE s == [NewItem EXCEPT !.status = "GONE"]
<1>1. ItemsInv(item) /\ JobInv /\ TickInv /\ Call
  BY DEF PipelineInv, Delete
<1>2. item' = [item EXCEPT ![i] = s]
  BY DEF Delete
<1>3. s.status = "GONE" /\ s.effects = {} /\ s.resumable = FALSE
  BY DEF NewItem
<1>4. s \in Item
  BY NewItemType
<1>5. RowStep(item[i], s)
  BY <1>1, <1>3, <1>4, EditStep DEF ItemsInv, Beyond
<1> HIDE DEF s
<1>6. ItemsStep(item, item')
  <2>1. ItemsStep(item, item)
    BY <1>1, SameRow DEF ItemsStep, ItemsInv
  <2> QED BY <1>2, <1>5, <2>1, ChangeOne
<1>7. execution' \in ExecutionStatus
  BY <1>1, RefreshTypes DEF Delete, ExecutionStatus
<1>8. TickInv' /\ UNCHANGED job
  BY <1>1, <1>7, CallTick
<1>9. item'[job.of] = item[job.of] \/ item'[job.of].status \in TakenAway
  BY <1>1, <1>2, <1>3 DEF ItemsInv, JobInv, Job, TakenAway
<1> QED BY <1>6, <1>8, <1>9, CallSound

-----------------------------------------------------------------------------
(* The invariant, and what it shows. *)

LEMMA InitInv == ASSUME Init PROVE PipelineInv
<1>1. \A i \in Items : item[i] \in Item /\ item \in [Items -> Item] /\ RowInv(item[i])
  <2>1. PICK X \in SUBSET Excluded :
          item = [i \in Items |-> [NewItem EXCEPT !.named = i \in X]]
    BY DEF Init
  <2>2. ASSUME NEW i \in Items
        PROVE  [NewItem EXCEPT !.named = i \in X] \in Item
    <3>1. (i \in X) \in BOOLEAN
      OBVIOUS
    <3> QED BY <3>1, NewItemType
  <2>3. \A i \in Items : item[i] \in Item
    BY <2>1, <2>2
  <2>4. \A i \in Items : /\ item[i].status = "UNSEEN" /\ item[i].resumable = FALSE
                         /\ item[i].effects = {}
    BY <2>1 DEF NewItem
  <2>5. item \in [Items -> Item]
    BY <2>1, <2>2
  <2> QED BY <2>3, <2>4, <2>5 DEF RowInv, Beyond
<1>2. ItemsInv(item)
  BY <1>1, ItemsAssumption DEF ItemsInv
<1>3. JobInv
  BY NoJobType DEF Init, JobInv
<1>4. TickInv
  <2>1. 0 \in 0..Batch
    BY BoundAssumption
  <2>2. [fault |-> MaxFaults, call |-> MaxCalls] \in [{"fault", "call"} -> Nat]
    BY BoundAssumption
  <2> QED BY <2>1, <2>2 DEF Init, TickInv, ExecutionStatus, Phases
<1> QED BY <1>2, <1>3, <1>4 DEF PipelineInv

\* Every step keeps the invariant, pins what has effects, and is fenced.
LEMMA StepSound == ASSUME PipelineInv, Next PROVE Sound
<1>1. CASE Match
  BY <1>1, MatchClaimSound, MatchExhaustedSound, MatchDeferredSound, MatchRefusedSound,
     MatchFinishSound DEF Match
<1>2. CASE Verify
  BY <1>2, VerifyClaimSound, VerifyExhaustedSound, VerifyRefusedSound, VerifyFetchedSound,
     VerifyFailsSound, VerifyFinishSound DEF Verify
<1>3. CASE Auxiliary
  BY <1>3, AuxiliaryLoadSound, AuxiliaryPrepareSound, AuxiliaryStageSound,
     AuxiliaryStagedSound, AuxiliaryFinishSound, AuxiliaryEndsSound DEF Auxiliary
<1>4. CASE Plan
  BY <1>4, PlanSound DEF Plan
<1>5. CASE Files
  BY <1>5, FilesReserveSound, FilesSound DEF Files
<1>6. CASE Seed
  BY <1>6, SeedLoadSound, SeedSound DEF Seed
<1>7. CASE Driver
  BY <1>1, <1>2, <1>3, <1>4, <1>5, <1>6, <1>7, TickSound, DiscoverSound DEF Driver
<1>8. CASE Api
  BY <1>8, RetryAllSound, ReviewSound, AddCandidateSound, RetryMatchSound, DeleteSound
     DEF Api
<1>9. CASE Crash \/ BatchFails
  BY <1>9, TickSound
<1>10. ASSUME NEW i \in Items, TimePasses(i) PROVE Sound
  BY <1>10, TimePassesSound
<1> QED BY <1>7, <1>8, <1>9, <1>10 DEF Next

LEMMA StutterSound == ASSUME PipelineInv, UNCHANGED vars PROVE Sound
<1>1. TickInv'
  BY DEF PipelineInv, TickInv, vars
<1> QED BY <1>1, IdleSound DEF vars

LEMMA SoundKeeps == ASSUME PipelineInv, Sound PROVE PipelineInv'
<1>1. \A i \in Items : RowInv(item'[i])
  BY DEF Sound, ItemsStep, RowStep
<1>2. ItemsInv(item')
  BY <1>1 DEF Sound, ItemsStep, ItemsInv
<1>3. ItemsInv(item') = (ItemsInv(item))'
  BY DEF ItemsInv, RowInv
<1> QED BY <1>2, <1>3 DEF Sound, PipelineInv

THEOREM PipelineInvariant == Spec => []PipelineInv
<1>1. Init => PipelineInv
  BY InitInv
<1>2. PipelineInv /\ [Next]_vars => PipelineInv'
  BY StepSound, StutterSound, SoundKeeps
<1> QED BY <1>1, <1>2, PTL DEF Spec

\* No item gets into a plan, a file or a torrent unless the candidate it selects
\* now was verified in its present generation (and the state has its type).
THEOREM PlansStayProven == Spec => []PlansAreProven
<1>1. PipelineInv => PlansAreProven
  BY DEF PipelineInv, ItemsInv, RowInv, ProvenNow, JobInv, TickInv, PlansAreProven, TypeOK,
         VerifiedBeforePlan
<1> QED BY <1>1, PipelineInvariant, PTL

\* Nothing moves an item with journal rows to another candidate or generation.
THEOREM EffectsPin == Spec => EffectPinsCandidate
<1> DEFINE Pins == \A i \in Items : item[i].effects # {} /\ item'[i].effects # {} =>
                     item'[i].cand = item[i].cand /\ item'[i].gen = item[i].gen
<1>1. PipelineInv /\ [Next]_vars => [Pins]_vars
  BY StepSound DEF Sound, ItemsStep, RowStep
<1> QED BY <1>1, PipelineInvariant, PTL DEF Spec, EffectPinsCandidate

\* A worker's result is written only over the version of its own last transaction.
THEOREM DecisionsAreKept == Spec => DecisionKept
<1> DEFINE Kept == \A i \in Items :
                     job # NoJob /\ job' # job /\ job.of = i /\ item'[i] # item[i] =>
                       item[i].version = job.ver
<1>1. PipelineInv /\ [Next]_vars => [Kept]_vars
  BY StepSound DEF Sound, ResultIsFenced
<1> QED BY <1>1, PipelineInvariant, PTL DEF Spec, DecisionKept
=============================================================================
