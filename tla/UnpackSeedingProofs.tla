------------------------ MODULE UnpackSeedingProofs ------------------------
(***************************************************************************)
(* Proofs about UnpackSeeding for any number of items, workers and faults: *)
(* the types first, and then the safety invariants.                        *)
(***************************************************************************)
EXTENDS UnpackSeeding, TLAPS

WorkerTypes == pc \in [Workers -> Labels] /\ local \in [Workers -> Local]

-----------------------------------------------------------------------------
(* The helpers keep the types. *)

LEMMA FreshType == ASSUME NEW i \in Items PROVE Fresh(i) \in Local
BY DEF Fresh, Local, NoTodo, Todo, Ops, RowStatus, View, ClientState, Marks, Fates

LEMMA AnyItemType == AnyItem \in Items
BY ItemsAssumption DEF AnyItem

LEMMA KeepType ==
  ASSUME WorkerTypes, NEW w \in Workers, NEW l \in Labels, Keep(w, l)
  PROVE  WorkerTypes'
BY DEF WorkerTypes, Keep, Goto

LEMMA AbandonType ==
  ASSUME WorkerTypes, NEW w \in Workers, Abandon(w)
  PROVE  WorkerTypes'
BY FreshType, AnyItemType DEF WorkerTypes, Abandon, Goto, Labels

LEMMA SeeType ==
  ASSUME WorkerTypes, NEW w \in Workers, NEW v \in View, NEW l \in Labels,
         See(w, v, l)
  PROVE  WorkerTypes'
BY DEF WorkerTypes, See, Goto, Local

LEMMA DecideType ==
  ASSUME WorkerTypes, NEW w \in Workers, NEW v \in View, NEW mark \in Marks,
         NEW whole \in BOOLEAN, NEW chk \in BOOLEAN, NEW then \in Fates,
         Decide(w, v, mark, whole, chk, then)
  PROVE  WorkerTypes'
<1>1. [mark |-> mark, whole |-> whole, chk |-> chk, then |-> then] \in Todo
  BY DEF Todo
<1>2. "commit" \in Labels
  BY DEF Labels
<1> QED BY <1>1, <1>2 DEF WorkerTypes, Decide, Goto, Local

LEMMA ObserveType ==
  ASSUME TypeOK, NEW i \in Items PROVE Observe(i) \in View
BY DEF TypeOK, Observe, View, ClientState

LEMMA VisibleType ==
  ASSUME TypeOK, NEW i \in Items, NEW o \in Ops PROVE Visible(i, o) \in Row
BY DEF TypeOK, Visible, NoRow, Row, RowStatus, View

LEMMA FatesAreLabels == Fates \subseteq Labels
BY DEF Fates, Labels

LEMMA RefreshTypes ==
  ASSUME NEW s PROVE RefreshBySeeding(s) \in ExecutionStatus /\ RefreshByAction(s) \in ExecutionStatus
BY DEF RefreshBySeeding, RefreshByAction, ExecutionStatus

LEMMA SpendType ==
  ASSUME TypeOK, NEW b \in {"fault", "meddle", "call"}, Spend(b)
  PROVE  budget' \in [{"fault", "meddle", "call"} -> Nat]
BY DEF TypeOK, Spend

LEMMA OnlyWorkerType ==
  ASSUME TypeOK, OnlyWorker, WorkerTypes',
         budget' \in [{"fault", "meddle", "call"} -> Nat]
  PROVE  TypeOK'
BY DEF TypeOK, OnlyWorker, WorkerTypes, itemVars, clientVars

LEMMA SetStageType ==
  ASSUME TypeOK, NEW w \in Workers, NEW from \in Stage, NEW to \in Stage,
         NEW st \in ActiveStatus, SetStage(w, from, to, st)
  PROVE  /\ status' \in [Items -> Status] /\ stage' \in [Items -> Stage]
         /\ version' \in [Items -> Nat] /\ UNCHANGED <<errorSafe, execution>>
BY DEF TypeOK, SetStage, Local, Status

-----------------------------------------------------------------------------
(* Type correctness, one lemma per group of actions. *)

LEMMA PickType ==
  ASSUME TypeOK, NEW w \in Workers, NEW i \in Items, Pick(w, i) PROVE TypeOK'
<1>1. WorkerTypes
  BY DEF TypeOK, WorkerTypes
<1>2. [Fresh(i) EXCEPT !.ver = version[i]] \in Local
  <2>1. Fresh(i) \in Local /\ version[i] \in Nat
    BY FreshType DEF TypeOK
  <2> QED BY <2>1 DEF Local
<1>3. WorkerTypes'
  BY <1>1, <1>2 DEF Pick, WorkerTypes, Goto, Labels
<1> QED BY <1>3, OnlyWorkerType DEF Pick, TypeOK

LEMMA AdvanceType ==
  ASSUME TypeOK, NEW w \in Workers, Advance(w) PROVE TypeOK'
<1>1. WorkerTypes
  BY DEF TypeOK, WorkerTypes
<1>2. ASSUME NEW o \in Ops, NEW l \in Labels, Goto(w, l),
             local' = [local EXCEPT ![w].op = o]
      PROVE  WorkerTypes'
  BY <1>1, <1>2 DEF WorkerTypes, Goto, Local
<1>3. WorkerTypes'
  BY <1>1, <1>2, KeepType, AbandonType DEF Advance, Labels, Ops
<1> QED BY <1>3, OnlyWorkerType DEF Advance, TypeOK

LEMMA RecordIntentType ==
  ASSUME TypeOK, NEW w \in Workers, RecordIntent(w) PROVE TypeOK'
<1> DEFINE i == local[w].item  o == local[w].op
<1>1. WorkerTypes /\ i \in Items /\ o \in Ops /\ local[w].seen \in View
  BY DEF TypeOK, WorkerTypes, Local
<1>2. WorkerTypes'
  BY <1>1, KeepType, AbandonType DEF RecordIntent, Labels
<1>3. [NoRow EXCEPT !.st = "INTENT_RECORDED", !.before = local[w].seen] \in Row
  BY <1>1 DEF NoRow, Row, RowStatus
<1>4. ASSUME NEW row \in Row, journal' = [journal EXCEPT ![i][o] = row]
      PROVE  journal' \in [Items -> [Ops -> Row]]
  BY <1>1, <1>4 DEF TypeOK
<1>5. journal' \in [Items -> [Ops -> Row]]
  BY <1>3, <1>4 DEF RecordIntent, TypeOK
<1> QED BY <1>2, <1>5 DEF RecordIntent, TypeOK, WorkerTypes, itemVars, clientVars

\* The row a mark leaves: it stays a row, and its status is the one asked for.
LEMMA MarkedRow ==
  ASSUME NEW r \in Row, NEW t, t.whole \in BOOLEAN, t.chk \in BOOLEAN
  PROVE  /\ Marked(r, t) \in Row
         /\ t.mark = "applied" => Marked(r, t).st = "APPLIED"
         /\ t.mark = "snapshot" => Marked(r, t).st = r.st
         /\ t.mark \notin {"applied", "snapshot"}
              => Marked(r, t).st = "RECONCILE_REQUIRED"
BY DEF Marked, Row, RowStatus

LEMMA CommitType ==
  ASSUME TypeOK, NEW w \in Workers, Commit(w) PROVE TypeOK'
<1> DEFINE i == local[w].item  o == local[w].op  t == local[w].todo
           r == Visible(i, o)
<1>1. /\ WorkerTypes /\ i \in Items /\ o \in Ops
      /\ t.whole \in BOOLEAN /\ t.chk \in BOOLEAN /\ t.then \in Fates
  BY DEF TypeOK, WorkerTypes, Local, Todo
<1>2. r \in Row
  BY <1>1, VisibleType
<1>3. NoTodo \in Todo
  BY DEF NoTodo, Todo, Marks, Fates
<1>4. t.then \in Labels /\ "failUnsafe" \in Labels
  BY <1>1, FatesAreLabels DEF Labels
<1>5. pc' \in [Workers -> Labels]
  BY <1>1, <1>4 DEF Commit, Goto, WorkerTypes
<1>6. local' \in [Workers -> Local]
  BY <1>1, <1>3 DEF Commit, WorkerTypes, Local
<1>7. Marked(r, t) \in Row
  BY <1>1, <1>2, MarkedRow
<1>8. journal' \in [Items -> [Ops -> Row]]
  <2>1. ASSUME NEW row \in Row, journal' = [journal EXCEPT ![i][o] = row]
        PROVE  journal' \in [Items -> [Ops -> Row]]
    BY <1>1, <2>1 DEF TypeOK
  <2>2. UNCHANGED journal \/ journal' = [journal EXCEPT ![i][o] = Marked(r, t)]
    BY DEF Commit
  <2>3. journal \in [Items -> [Ops -> Row]]
    BY DEF TypeOK
  <2> HIDE DEF i, o, r, t
  <2> QED BY <1>7, <2>1, <2>2, <2>3
<1> QED BY <1>5, <1>6, <1>8 DEF Commit, TypeOK, itemVars, clientVars

LEMMA SendType ==
  ASSUME TypeOK, NEW w \in Workers, Send(w) PROVE TypeOK'
<1>1. WorkerTypes /\ local[w].item \in Items /\ local[w].op \in Ops
  BY DEF TypeOK, WorkerTypes, Local
<1>2. WorkerTypes'
  BY <1>1 DEF Send, Goto, WorkerTypes, Labels, Local
<1>3. sent' \in [Items -> [Ops -> Nat]]
  BY <1>1 DEF Send, TypeOK
<1>4. wire' \subseteq [op : Ops, item : Items, by : Workers]
  BY <1>1 DEF Send, TypeOK
<1> QED BY <1>2, <1>3, <1>4 DEF Send, TypeOK, WorkerTypes, itemVars

LEMMA FaultTypes ==
  ASSUME TypeOK, NEW w \in Workers, WorkerFault(w) PROVE TypeOK'
<1>1. WorkerTypes /\ local[w].seen \in View
  BY DEF TypeOK, WorkerTypes, Local
<1>2. WorkerTypes'
  BY <1>1, KeepType, AbandonType, DecideType
     DEF WorkerFault, PrepareFails, ReplyLost, ReadFails, Crash, Escalate,
         Labels, Marks, Fates
<1>3. OnlyWorker /\ budget' \in [{"fault", "meddle", "call"} -> Nat]
  BY SpendType DEF WorkerFault, PrepareFails, ReplyLost, ReadFails, Crash
<1> QED BY <1>2, <1>3, OnlyWorkerType

LEMMA MarkErrorType ==
  ASSUME TypeOK, NEW w \in Workers, MarkError(w) PROVE TypeOK'
<1>1. WorkerTypes /\ local[w].item \in Items
  BY DEF TypeOK, WorkerTypes, Local
<1>2. WorkerTypes'
  BY <1>1, AbandonType DEF MarkError
<1>3. status' \in [Items -> Status] /\ version' \in [Items -> Nat]
  <2>1. CASE Fenced(w)
    <3>1. /\ status' = [status EXCEPT ![local[w].item] = "EXECUTION_ERROR"]
          /\ version' = [version EXCEPT ![local[w].item] = @ + 1]
      BY <2>1 DEF MarkError
    <3> QED BY <1>1, <3>1 DEF TypeOK, Status
  <2>2. CASE ~Fenced(w)
    <3>1. UNCHANGED <<status, version>>
      BY <2>2 DEF MarkError
    <3> QED BY <3>1 DEF TypeOK
  <2> QED BY <2>1, <2>2
<1>4. errorSafe' \in [Items -> BOOLEAN]
  <2> DEFINE safe == (pc[w] = "failSafe")
  <2>1. safe \in BOOLEAN
    OBVIOUS
  <2>2. errorSafe' = errorSafe \/ errorSafe' = [errorSafe EXCEPT ![local[w].item] = safe]
    BY DEF MarkError
  <2> HIDE DEF safe
  <2> QED BY <1>1, <2>1, <2>2 DEF TypeOK
<1>5. execution' \in ExecutionStatus
  BY RefreshTypes DEF MarkError, TypeOK
<1> QED BY <1>2, <1>3, <1>4, <1>5 DEF MarkError, TypeOK, WorkerTypes, clientVars

LEMMA EnsureAddedType ==
  ASSUME TypeOK, NEW w \in Workers,
         AddLoad(w) \/ AddProbe(w) \/ AddConfirm(w) \/ AddRecover(w)
  PROVE  TypeOK'
<1> DEFINE i == local[w].item
<1>1. WorkerTypes /\ i \in Items /\ Visible(i, "ADD") \in Row /\ Observe(i) \in View
  BY VisibleType, ObserveType DEF TypeOK, WorkerTypes, Local, Ops
<1>2. WorkerTypes' /\ OnlyWorker /\ UNCHANGED budget
  <2>1. CASE AddLoad(w)
    <3>1. Visible(i, "ADD").st \in RowStatus
      BY <1>1 DEF Row
    <3>2. ASSUME local' = [local EXCEPT ![w].was = Visible(i, "ADD").st],
                 Goto(w, "addProbe")
          PROVE  WorkerTypes'
      BY <1>1, <3>1, <3>2 DEF WorkerTypes, Goto, Local, Labels
    <3> QED BY <1>1, <2>1, <3>2, KeepType DEF AddLoad, Labels
  <2>2. CASE AddProbe(w)
    BY <1>1, <2>2, KeepType, SeeType, DecideType
       DEF AddProbe, Applied, Escalate, Drifted, Labels, Marks, Fates
  <2>3. CASE AddConfirm(w)
    BY <1>1, <2>3, DecideType DEF AddConfirm, Applied, Escalate, Marks, Fates
  <2>4. CASE AddRecover(w)
    BY <1>1, <2>4, DecideType DEF AddRecover, Applied, Escalate, Marks, Fates
  <2> QED BY <2>1, <2>2, <2>3, <2>4
<1> QED BY <1>2, OnlyWorkerType DEF TypeOK

LEMMA EnsureVerifiedType ==
  ASSUME TypeOK, NEW w \in Workers,
         \/ VerifyProbe(w) \/ VerifyLoad(w) \/ VerifyConfirm(w) \/ VerifyPoll(w)
         \/ VerifyConclude(w) \/ VerifyRecover(w)
  PROVE  TypeOK'
<1> DEFINE i == local[w].item  r == Visible(i, "VERIFY")
<1>1. WorkerTypes /\ i \in Items /\ Observe(i) \in View /\ local[w].seen \in View
  BY ObserveType DEF TypeOK, WorkerTypes, Local
<1>2. WorkerTypes' /\ OnlyWorker /\ UNCHANGED budget
  <2>1. CASE VerifyProbe(w)
    BY <1>1, <2>1, KeepType, SeeType DEF VerifyProbe, Labels
  <2>2. CASE VerifyLoad(w)
    <3>1. ASSUME AwaitRecheck(w, r, local[w].seen) PROVE WorkerTypes'
      BY <1>1, <3>1, KeepType, DecideType
         DEF AwaitRecheck, Applied, Escalate, Labels, Marks, Fates
    <3> QED BY <1>1, <2>2, <3>1, KeepType, DecideType
            DEF VerifyLoad, Drifted, Escalate, Labels, Marks, Fates
  <2>3. CASE VerifyConfirm(w) \/ VerifyPoll(w)
    BY <1>1, <2>3, KeepType, SeeType, DecideType
       DEF VerifyConfirm, VerifyPoll, Escalate, Labels, Marks, Fates
  <2>4. CASE VerifyConclude(w)
    BY <1>1, <2>4, KeepType, DecideType
       DEF VerifyConclude, Applied, Labels, Marks, Fates
  <2>5. CASE VerifyRecover(w)
    BY <1>1, <2>5, DecideType DEF VerifyRecover, Escalate, Marks, Fates
  <2> QED BY <2>1, <2>2, <2>3, <2>4, <2>5
<1> QED BY <1>2, OnlyWorkerType DEF TypeOK

LEMMA EnsureStartedType ==
  ASSUME TypeOK, NEW w \in Workers,
         \/ StartProbe(w) \/ StartLoad(w) \/ StartConfirm(w) \/ StartRecover(w)
         \/ Reply(w)
  PROVE  TypeOK'
<1> DEFINE i == local[w].item
<1>1. WorkerTypes /\ i \in Items /\ Observe(i) \in View /\ local[w].seen \in View
  BY ObserveType DEF TypeOK, WorkerTypes, Local
<1>2. WorkerTypes' /\ OnlyWorker /\ UNCHANGED budget
  <2>1. CASE StartProbe(w)
    BY <1>1, <2>1, KeepType, SeeType DEF StartProbe, Labels
  <2>2. CASE StartLoad(w)
    BY <1>1, <2>2, KeepType, DecideType
       DEF StartLoad, Applied, Escalate, Drifted, Labels, Marks, Fates
  <2>3. CASE StartConfirm(w)
    BY <1>1, <2>3, DecideType DEF StartConfirm, Applied, Escalate, Marks, Fates
  <2>4. CASE StartRecover(w)
    BY <1>1, <2>4, DecideType DEF StartRecover, Applied, Escalate, Marks, Fates
  <2>5. CASE Reply(w)
    BY <1>1, <2>5, KeepType, DecideType DEF Reply, Escalate, Labels, Marks, Fates
  <2> QED BY <2>1, <2>2, <2>3, <2>4, <2>5
<1> QED BY <1>2, OnlyWorkerType DEF TypeOK

\* A worker that moves its item to the next checkpoint.
LEMMA MoveOnType ==
  ASSUME TypeOK, NEW w \in Workers, NEW l \in Labels, NEW o \in Ops, Goto(w, l),
         \/ local' = [local EXCEPT ![w].ver = @ + 1, ![w].op = o]
         \/ local' = [local EXCEPT ![w].ver = @ + 1]
  PROVE  WorkerTypes'
<1>1. local[w] \in Local /\ local[w].ver + 1 \in Nat
  BY DEF TypeOK, Local
<1>2. /\ [local[w] EXCEPT !.ver = local[w].ver + 1, !.op = o] \in Local
      /\ [local[w] EXCEPT !.ver = local[w].ver + 1] \in Local
  BY <1>1 DEF Local
<1>3. \E x \in Local : local' = [local EXCEPT ![w] = x]
  BY <1>2
<1> QED BY <1>3 DEF TypeOK, WorkerTypes, Goto

LEMMA CheckpointType ==
  ASSUME TypeOK, NEW w \in Workers, Added(w) \/ Verified(w) \/ SetStarting(w)
  PROVE  TypeOK'
<1>1. WorkerTypes /\ local[w].item \in Items
  BY DEF TypeOK, WorkerTypes, Local
<1>2. /\ WorkerTypes'
      /\ \/ UNCHANGED itemVars
         \/ \E from, to \in Stage, st \in ActiveStatus : SetStage(w, from, to, st)
      /\ UNCHANGED <<journal, materialized, clientVars, sent, budget>>
  <2>1. CASE Added(w)
    BY <1>1, <2>1, KeepType, AbandonType, MoveOnType
       DEF Added, Labels, Ops, Stage, ActiveStatus
  <2>2. CASE Verified(w)
    BY <1>1, <2>2, KeepType, AbandonType, MoveOnType
       DEF Verified, Labels, Ops, Stage, ActiveStatus
  <2>3. CASE SetStarting(w)
    BY <1>1, <2>3, AbandonType, MoveOnType
       DEF SetStarting, Labels, Ops, Stage, ActiveStatus
  <2> QED BY <2>1, <2>2, <2>3
<1>3. /\ status' \in [Items -> Status] /\ stage' \in [Items -> Stage]
      /\ version' \in [Items -> Nat] /\ UNCHANGED <<errorSafe, execution>>
  BY <1>2, SetStageType DEF TypeOK, itemVars
<1> QED BY <1>2, <1>3 DEF TypeOK, WorkerTypes, clientVars

LEMMA CompleteType ==
  ASSUME TypeOK, NEW w \in Workers, Complete(w) PROVE TypeOK'
<1>1. WorkerTypes /\ local[w].item \in Items
  BY DEF TypeOK, WorkerTypes, Local
<1>2. WorkerTypes'
  BY <1>1, KeepType, AbandonType DEF Complete, Labels
<1>3. /\ status' \in [Items -> Status] /\ stage' \in [Items -> Stage]
      /\ version' \in [Items -> Nat] /\ errorSafe' = errorSafe
      /\ execution' \in ExecutionStatus
  <2>1. CASE UNCHANGED itemVars
    BY <2>1 DEF itemVars, TypeOK
  <2>2. CASE ~UNCHANGED itemVars
    <3>1. /\ status' = [status EXCEPT ![local[w].item] = "COMPLETED"]
          /\ stage' = [stage EXCEPT ![local[w].item] = "COMPLETED"]
          /\ version' = [version EXCEPT ![local[w].item] = @ + 1]
          /\ execution' = RefreshBySeeding(status') /\ errorSafe' = errorSafe
      BY <2>2 DEF Complete
    <3> QED BY <1>1, <3>1, RefreshTypes DEF TypeOK, Status, Stage
  <2> QED BY <2>1, <2>2
<1> QED BY <1>2, <1>3 DEF Complete, TypeOK, WorkerTypes, clientVars

LEMMA ExecuteType ==
  ASSUME TypeOK, NEW m \in wire, Execute(m) PROVE TypeOK'
<1>1. m \in [op : Ops, item : Items, by : Workers]
  BY DEF TypeOK
<1>2. ASSUME NEW r \in {"ok", "refused", "error"}, Answer(m, r)
      PROVE  local' \in [Workers -> Local]
  <2>0. local[m.by] \in Local
    BY <1>1 DEF TypeOK
  <2>1. [local[m.by] EXCEPT !.reply = r] \in Local
    BY <2>0 DEF Local
  <2>2. \/ local' = [local EXCEPT ![m.by] = [local[m.by] EXCEPT !.reply = r]]
        \/ local' = local
    BY <1>2 DEF Answer
  <2>3. local \in [Workers -> Local]
    BY DEF TypeOK
  <2> QED BY <2>1, <2>2, <2>3
<1>3. local' \in [Workers -> Local]
  BY <1>1, <1>2 DEF Execute
<1>4. torrent' \in [owner : Items \cup {"none", "foreign"}, st : ClientState,
                    queued : BOOLEAN, attested : BOOLEAN]
  <2>1. CASE torrent' = torrent
    BY <2>1 DEF TypeOK
  <2>2. CASE \E st \in ClientState :
               torrent' = [NoTorrent EXCEPT !.owner = m.item, !.st = st]
    BY <1>1, <2>2 DEF NoTorrent
  <2>3. CASE \/ torrent' = [torrent EXCEPT !.queued = TRUE]
             \/ \E st \in ClientState : torrent' = [torrent EXCEPT !.st = st]
    BY <2>3 DEF TypeOK
  <2>4. \/ torrent' = torrent
        \/ \E st \in ClientState :
              torrent' = [NoTorrent EXCEPT !.owner = m.item, !.st = st]
        \/ torrent' = [torrent EXCEPT !.queued = TRUE]
        \/ \E st \in ClientState : torrent' = [torrent EXCEPT !.st = st]
    <3>1. torrent.st \in ClientState
      BY DEF TypeOK
    <3>2. ASSUME m.op = "START",
                 torrent' = [torrent EXCEPT !.st = AfterStart(@)]
          PROVE  \E st \in ClientState : torrent' = [torrent EXCEPT !.st = st]
      BY <3>1, <3>2 DEF AfterStart, ClientState
    <3> QED BY <3>2 DEF Execute, ClientState
  <2> QED BY <2>1, <2>2, <2>3, <2>4
<1>5. budget' \in [{"fault", "meddle", "call"} -> Nat]
  BY SpendType DEF Execute, TypeOK
<1>6. created' \subseteq Items
  BY <1>1 DEF Execute, TypeOK
<1> QED BY <1>3, <1>4, <1>5, <1>6 DEF Execute, TypeOK, itemVars

LEMMA ClientTypes ==
  ASSUME TypeOK, ClientStep \/ UserActs PROVE TypeOK'
<1> DEFINE Torrents == [owner : Items \cup {"none", "foreign"}, st : ClientState,
                        queued : BOOLEAN, attested : BOOLEAN]
           vouched == torrent.attested \/ AfterVerifyIntent
<1>1. torrent' \in Torrents
  <2>1. \/ torrent' = NoTorrent
        \/ \E st \in ClientState :
              torrent' = [NoTorrent EXCEPT !.owner = "foreign", !.st = st]
        \/ torrent' = [torrent EXCEPT !.queued = FALSE, !.st = "checking"]
        \/ \E st \in ClientState :
              \/ torrent' = [torrent EXCEPT !.st = st, !.attested = vouched]
              \/ torrent' = [torrent EXCEPT !.st = st]
    BY DEF ClientStep, RecheckBegins, CheckEnds, Downloaded, UserActs, ClientState
  <2>2. torrent \in Torrents /\ vouched \in BOOLEAN
    BY DEF TypeOK
  <2>3. NoTorrent \in Torrents
    BY DEF NoTorrent, ClientState
  <2>4. "checking" \in ClientState /\ "seeding" \in ClientState
    BY DEF ClientState
  <2> HIDE DEF vouched
  <2>5. ASSUME NEW st \in ClientState, NEW v \in BOOLEAN
        PROVE  /\ [torrent EXCEPT !.st = st] \in Torrents
               /\ [torrent EXCEPT !.st = st, !.attested = v] \in Torrents
               /\ [torrent EXCEPT !.queued = FALSE, !.st = st] \in Torrents
               /\ [NoTorrent EXCEPT !.owner = "foreign", !.st = st] \in Torrents
    BY <2>2, <2>3
  <2> HIDE DEF Torrents
  <2> QED BY <2>1, <2>2, <2>3, <2>4, <2>5
<1>2. budget' \in [{"fault", "meddle", "call"} -> Nat]
  BY SpendType
     DEF ClientStep, RecheckBegins, CheckEnds, Downloaded, UserActs, TypeOK
<1>3. UNCHANGED <<itemVars, journal, materialized, created, wire, sent, workerVars>>
  BY DEF ClientStep, RecheckBegins, CheckEnds, Downloaded, UserActs
<1> QED BY <1>1, <1>2, <1>3 DEF TypeOK, itemVars, workerVars

LEMMA ItemTypes ==
  ASSUME TypeOK, NEW i \in Items,
         FilesChange(i) \/ GraceEnds(i) \/ Retry(i) \/ Delete(i)
  PROVE  TypeOK'
<1>1. budget' \in [{"fault", "meddle", "call"} -> Nat]
  BY SpendType DEF FilesChange, GraceEnds, Retry, Delete, TypeOK
<1>2. CASE FilesChange(i)
  BY <1>1, <1>2 DEF FilesChange, TypeOK, itemVars, clientVars, workerVars
<1>3. CASE GraceEnds(i)
  <2>0. journal[i]["VERIFY"] \in Row
    BY DEF TypeOK, Ops
  <2>1. [journal[i]["VERIFY"] EXCEPT !.grace = "expired"] \in Row
    BY <2>0 DEF Row
  <2>2. \E row \in Row : journal' = [journal EXCEPT ![i]["VERIFY"] = row]
    BY <1>3, <2>1 DEF GraceEnds
  <2>3. journal' \in [Items -> [Ops -> Row]]
    BY <2>2 DEF TypeOK, Ops
  <2> QED BY <1>3, <2>3 DEF GraceEnds, TypeOK, itemVars, clientVars, workerVars
<1>4. CASE Retry(i)
  <2>1. execution' \in ExecutionStatus
    BY <1>4, RefreshTypes DEF Retry
  <2> QED BY <1>1, <1>4, <2>1
          DEF Retry, TypeOK, Status, ActiveStatus, clientVars, workerVars
<1>5. CASE Delete(i)
  <2>1. execution' \in ExecutionStatus
    BY <1>5, RefreshTypes DEF Delete
  <2> QED BY <1>1, <1>5, <2>1 DEF Delete, TypeOK, Status, clientVars, workerVars
<1> QED BY <1>2, <1>3, <1>4, <1>5

LEMMA InitType == Init => TypeOK
<1> SUFFICES ASSUME Init PROVE TypeOK
  OBVIOUS
<1>1. NoRow \in Row
  BY DEF NoRow, Row, RowStatus, View
<1>2. Fresh(AnyItem) \in Local
  BY FreshType, AnyItemType
<1>3. NoTorrent \in [owner : Items \cup {"none", "foreign"}, st : ClientState,
                     queued : BOOLEAN, attested : BOOLEAN]
  BY DEF NoTorrent, ClientState
<1>4. budget \in [{"fault", "meddle", "call"} -> Nat]
  BY BudgetAssumption DEF Init
<1> QED BY <1>1, <1>2, <1>3, <1>4
        DEF Init, TypeOK, Status, ActiveStatus, Stage, ExecutionStatus, Labels

LEMMA WorkerTypes_Step ==
  ASSUME TypeOK, NEW w \in Workers, WorkerStep(w) PROVE TypeOK'
BY PickType, AdvanceType, RecordIntentType, CommitType, SendType, MarkErrorType,
   EnsureAddedType, EnsureVerifiedType, EnsureStartedType, CheckpointType,
   CompleteType
   DEF WorkerStep

LEMMA NextType == TypeOK /\ [Next]_vars => TypeOK'
<1> SUFFICES ASSUME TypeOK, [Next]_vars PROVE TypeOK'
  OBVIOUS
<1>1. ASSUME NEW w \in Workers, WorkerStep(w) \/ WorkerFault(w) PROVE TypeOK'
  BY <1>1, WorkerTypes_Step, FaultTypes
<1>2. ASSUME NEW m \in wire, Execute(m) PROVE TypeOK'
  BY <1>2, ExecuteType
<1>3. CASE ClientStep \/ UserActs
  BY <1>3, ClientTypes
<1>4. ASSUME NEW i \in Items,
             FilesChange(i) \/ GraceEnds(i) \/ Retry(i) \/ Delete(i)
      PROVE  TypeOK'
  BY <1>4, ItemTypes
<1>5. CASE UNCHANGED vars
  BY <1>5 DEF vars, TypeOK
<1> QED BY <1>1, <1>2, <1>3, <1>4, <1>5 DEF Next

\* Every variable keeps its type: the budgets are never overdrawn, no journal
\* row, checkpoint or worker leaves the values the code can give it.
THEOREM TypeCorrect == Spec => []TypeOK
BY InitType, NextType, PTL DEF Spec

-----------------------------------------------------------------------------
(* Safety: no RPC is sent twice, none without a journal row, and the seeding
   service implements ExternalOperation; an ADD row is APPLIED only for a torrent
   of the item's own RPC, and COMPLETED, of an item and of the execution, can be
   relied on; whatever worker sends START, and however long ago it looked, the
   verification of that item had been confirmed with every piece in place. *)

\* The worker that recorded the intent and has not sent the RPC yet: the right
\* to send belongs to it alone, and is lost with it in a crash.
Holder(w, i, o) ==
  pc[w] \in {"starting", "rpc"} /\ local[w].item = i /\ local[w].op = o

\* The inductive invariant behind AtMostOnce and WriteAhead.
HolderInv ==
  /\ \A i \in Items, o \in Ops : sent[i][o] \in {0, 1}
  /\ \A i \in Items, o \in Ops : sent[i][o] > 0 => journal[i][o].st # "NONE"
  /\ \A w \in Workers, i \in Items, o \in Ops :
        Holder(w, i, o) => journal[i][o].st # "NONE" /\ sent[i][o] = 0
  /\ \A v, w \in Workers, i \in Items, o \in Ops :
        Holder(v, i, o) /\ Holder(w, i, o) => v = w

\* A step in which only worker w moves, and not to a place where it may send.
Leaves(w) ==
  /\ \E l \in Labels \ {"starting", "rpc"} : Goto(w, l)
  /\ \A v \in Workers \ {w} : local'[v] = local[v]

RowsStay == \A i \in Items, o \in Ops :
               journal[i][o].st # "NONE" => journal'[i][o].st # "NONE"

-----------------------------------------------------------------------------
(* Steps that create no holder. *)

LEMMA QuietStep ==
  ASSUME HolderInv, UNCHANGED sent, RowsStay,
         \A w \in Workers, i \in Items, o \in Ops :
            Holder(w, i, o)' => Holder(w, i, o)
  PROVE  HolderInv'
BY DEF HolderInv, RowsStay

LEMMA LeavesIsQuiet ==
  ASSUME TypeOK, HolderInv, NEW w \in Workers, Leaves(w), UNCHANGED sent, RowsStay
  PROVE  HolderInv'
<1>1. ASSUME NEW v \in Workers, NEW i \in Items, NEW o \in Ops, Holder(v, i, o)'
      PROVE  Holder(v, i, o)
  <2>1. pc \in [Workers -> Labels]
    BY DEF TypeOK
  <2>2. v # w
    BY <1>1, <2>1 DEF Holder, Leaves, Goto
  <2>3. pc'[v] = pc[v] /\ local'[v] = local[v]
    BY <2>1, <2>2 DEF Leaves, Goto
  <2> QED BY <1>1, <2>3 DEF Holder
<1> QED BY <1>1, QuietStep

LEMMA WorkerLeaves ==
  ASSUME TypeOK, NEW w \in Workers,
         \/ Advance(w) \/ Reply(w) \/ MarkError(w) \/ AddLoad(w) \/ AddProbe(w)
         \/ AddConfirm(w) \/ AddRecover(w) \/ Added(w) \/ VerifyProbe(w)
         \/ VerifyLoad(w) \/ VerifyConfirm(w) \/ VerifyPoll(w) \/ VerifyConclude(w)
         \/ VerifyRecover(w) \/ Verified(w) \/ StartProbe(w) \/ StartLoad(w)
         \/ StartConfirm(w) \/ StartRecover(w) \/ Complete(w)
         \/ WorkerFault(w) \/ \E i \in Items : Pick(w, i)
  PROVE  Leaves(w) /\ UNCHANGED <<journal, sent>>
<1> DEFINE Calm == Labels \ {"starting", "rpc"}
<1>0. local \in [Workers -> Local]
  BY DEF TypeOK
<1>1. ASSUME NEW l \in Calm, Keep(w, l) PROVE Leaves(w)
  BY <1>1 DEF Keep, Leaves
<1>2. ASSUME Abandon(w) PROVE Leaves(w)
  BY <1>0, <1>2 DEF Abandon, Leaves, Labels
<1>3. ASSUME NEW v, NEW l \in Calm, See(w, v, l) PROVE Leaves(w)
  BY <1>0, <1>3 DEF See, Leaves
<1>4. ASSUME NEW v, NEW m, NEW a, NEW c, NEW t, Decide(w, v, m, a, c, t)
      PROVE  Leaves(w)
  BY <1>0, <1>4 DEF Decide, Leaves, Labels
<1>5. ASSUME NEW l \in Calm, Goto(w, l), NEW e, local' = [local EXCEPT ![w] = e]
      PROVE  Leaves(w)
  BY <1>0, <1>5 DEF Leaves
<1>6. CASE Advance(w)
  BY <1>1, <1>2, <1>5, <1>6 DEF Advance, OnlyWorker, Labels
<1>7. CASE Reply(w) \/ MarkError(w) \/ Complete(w)
  BY <1>1, <1>2, <1>4, <1>7
     DEF Reply, MarkError, Complete, Escalate, OnlyWorker, Labels
<1>8. CASE AddLoad(w) \/ AddProbe(w) \/ AddConfirm(w) \/ AddRecover(w)
  <2>1. ASSUME AddLoad(w) PROVE Leaves(w)
    BY <1>1, <1>5, <2>1 DEF AddLoad, Labels
  <2>2. ASSUME AddProbe(w) PROVE Leaves(w)
    BY <1>1, <1>3, <1>4, <2>2 DEF AddProbe, Applied, Escalate, Drifted, Labels
  <2>3. ASSUME AddConfirm(w) \/ AddRecover(w) PROVE Leaves(w)
    BY <1>4, <2>3 DEF AddConfirm, AddRecover, Applied, Escalate
  <2> QED BY <1>8, <2>1, <2>2, <2>3
          DEF AddLoad, AddProbe, AddConfirm, AddRecover, OnlyWorker
<1>9. CASE Added(w) \/ Verified(w)
  BY <1>1, <1>2, <1>5, <1>9 DEF Added, Verified, Labels
<1>10. CASE \/ VerifyProbe(w) \/ VerifyConfirm(w) \/ VerifyPoll(w)
            \/ VerifyConclude(w) \/ VerifyRecover(w)
  BY <1>1, <1>3, <1>4, <1>10
     DEF VerifyProbe, VerifyConfirm, VerifyPoll, VerifyConclude, VerifyRecover, Applied,
         Escalate, OnlyWorker, Labels
<1>11. CASE VerifyLoad(w)
  BY <1>1, <1>4, <1>11
     DEF VerifyLoad, AwaitRecheck, Applied, Escalate, Drifted, OnlyWorker, Labels
<1>12. CASE StartProbe(w) \/ StartConfirm(w) \/ StartRecover(w)
  BY <1>1, <1>3, <1>4, <1>12
     DEF StartProbe, StartConfirm, StartRecover, Applied, Escalate, OnlyWorker, Labels
<1>13. CASE StartLoad(w)
  BY <1>1, <1>4, <1>13
     DEF StartLoad, Applied, Escalate, Drifted, OnlyWorker, Labels
<1>14. CASE WorkerFault(w)
  BY <1>1, <1>2, <1>4, <1>14
     DEF WorkerFault, PrepareFails, ReplyLost, ReadFails, Crash, Escalate,
         OnlyWorker, Labels
<1>15. ASSUME NEW i \in Items, Pick(w, i) PROVE Leaves(w) /\ UNCHANGED <<journal, sent>>
  BY <1>5, <1>15 DEF Pick, OnlyWorker, Labels
<1> QED BY <1>6, <1>7, <1>8, <1>9, <1>10, <1>11, <1>12, <1>13, <1>14, <1>15

-----------------------------------------------------------------------------
(* The steps that write the journal or send. *)

LEMMA RecordIntentHolder ==
  ASSUME TypeOK, HolderInv, NEW w \in Workers, RecordIntent(w) PROVE HolderInv'
<1> DEFINE i == local[w].item  o == local[w].op
<1>1. i \in Items /\ o \in Ops
  BY DEF TypeOK, Local
<1>2. CASE Fenced(w) /\ materialized[i] /\ Unclaimed(i, o)
  <2>1. /\ pc' = [pc EXCEPT ![w] = IF o = "START" THEN "starting" ELSE "rpc"]
        /\ UNCHANGED <<local, sent>>
    BY <1>2 DEF RecordIntent, Keep, Goto
  <2>2. ASSUME NEW j \in Items, NEW q \in Ops
        PROVE  journal'[j][q].st = IF j = i /\ q = o THEN "INTENT_RECORDED"
                                   ELSE journal[j][q].st
    <3>1. journal' = [journal EXCEPT ![i][o] =
               [NoRow EXCEPT !.st = "INTENT_RECORDED", !.before = local[w].seen]]
      BY <1>2 DEF RecordIntent
    <3> QED BY <1>1, <3>1 DEF TypeOK, NoRow
  <2>3. sent[i][o] = 0 /\ \A v \in Workers : ~Holder(v, i, o)
    BY <1>1, <1>2 DEF HolderInv, Unclaimed
  <2>4. ASSUME NEW v \in Workers, NEW j \in Items, NEW q \in Ops, Holder(v, j, q)'
        PROVE  Holder(v, j, q) \/ (v = w /\ j = i /\ q = o)
    BY <2>1, <2>4 DEF Holder, TypeOK
  <2> HIDE DEF i, o
  <2>5. /\ \A j \in Items, q \in Ops : sent'[j][q] \in {0, 1}
        /\ \A j \in Items, q \in Ops : sent'[j][q] > 0 => journal'[j][q].st # "NONE"
    BY <2>1, <2>2 DEF HolderInv
  <2>6. ASSUME NEW v \in Workers, NEW j \in Items, NEW q \in Ops, Holder(v, j, q)'
        PROVE  journal'[j][q].st # "NONE" /\ sent'[j][q] = 0
    BY <2>1, <2>2, <2>3, <2>4, <2>6 DEF HolderInv
  <2>7. ASSUME NEW u \in Workers, NEW v \in Workers, NEW j \in Items, NEW q \in Ops,
               Holder(u, j, q)', Holder(v, j, q)'
        PROVE  u = v
    BY <2>3, <2>4, <2>7 DEF HolderInv
  <2> QED BY <2>5, <2>6, <2>7 DEF HolderInv
<1>3. CASE ~(Fenced(w) /\ materialized[i] /\ Unclaimed(i, o))
  <2>1. UNCHANGED <<journal, sent>>
    BY <1>3 DEF RecordIntent
  <2>2. Keep(w, "failUnsafe") \/ Abandon(w)
    BY <1>3 DEF RecordIntent
  <2>3. Leaves(w)
    BY <2>2 DEF Keep, Abandon, Leaves, Labels, TypeOK
  <2> QED BY <2>1, <2>3, LeavesIsQuiet DEF RowsStay
<1> QED BY <1>2, <1>3

LEMMA CommitHolder ==
  ASSUME TypeOK, HolderInv, NEW w \in Workers, Commit(w) PROVE HolderInv'
<1> DEFINE i == local[w].item  o == local[w].op  t == local[w].todo
           r == Visible(i, o)
<1>1. i \in Items /\ o \in Ops /\ t.then \in Fates
  BY DEF TypeOK, Local, Todo
<1>2. Leaves(w)
  <2>1. t.then \in Labels \ {"starting", "rpc"}
    BY <1>1 DEF Fates, Labels
  <2>2. "failUnsafe" \in Labels \ {"starting", "rpc"}
    BY DEF Labels
  <2>3. Goto(w, t.then) \/ Goto(w, "failUnsafe")
    BY DEF Commit, Goto
  <2>4. \A v \in Workers \ {w} : local'[v] = local[v]
    BY DEF Commit, TypeOK
  <2> QED BY <2>1, <2>2, <2>3, <2>4 DEF Leaves
<1>3. r \in Row
  BY <1>1, VisibleType
<1>4. RowsStay
  <2>1. ASSUME NEW row, row.st # "NONE", journal' = [journal EXCEPT ![i][o] = row]
        PROVE  RowsStay
    BY <1>1, <2>1 DEF RowsStay, TypeOK
  <2>2. \/ UNCHANGED journal
        \/ r.st # "NONE" /\ journal' = [journal EXCEPT ![i][o] = Marked(r, t)]
    BY DEF Commit, Writes
  <2>3. r.st # "NONE" => Marked(r, t).st # "NONE"
    <3>1. t.whole \in BOOLEAN /\ t.chk \in BOOLEAN
      BY DEF TypeOK, Local, Todo
    <3> QED BY <1>3, <3>1, MarkedRow
  <2>4. ASSUME UNCHANGED journal PROVE RowsStay
    BY <2>4 DEF RowsStay
  <2> HIDE DEF i, o, r, t
  <2> QED BY <2>1, <2>2, <2>3, <2>4
<1> QED BY <1>2, <1>4, LeavesIsQuiet DEF Commit

LEMMA SendHolder ==
  ASSUME TypeOK, HolderInv, NEW w \in Workers, Send(w) PROVE HolderInv'
<1> DEFINE i == local[w].item  o == local[w].op
<1>1. i \in Items /\ o \in Ops /\ Holder(w, i, o)
  BY DEF TypeOK, Local, Send, Holder
<1>2. /\ UNCHANGED journal /\ pc' = [pc EXCEPT ![w] = "reply"]
      /\ \A v \in Workers \ {w} : local'[v] = local[v]
  BY DEF Send, Goto, TypeOK
<1>3. ASSUME NEW j \in Items, NEW q \in Ops
      PROVE  sent'[j][q] = IF j = i /\ q = o THEN 1 ELSE sent[j][q]
  BY <1>1 DEF Send, HolderInv, TypeOK
<1>4. ASSUME NEW v \in Workers, NEW j \in Items, NEW q \in Ops, Holder(v, j, q)'
      PROVE  Holder(v, j, q) /\ v # w
  BY <1>2, <1>4 DEF Holder, TypeOK
<1> HIDE DEF i, o
<1>5. /\ \A j \in Items, q \in Ops : sent'[j][q] \in {0, 1}
      /\ \A j \in Items, q \in Ops : sent'[j][q] > 0 => journal'[j][q].st # "NONE"
  BY <1>1, <1>2, <1>3 DEF HolderInv
<1>6. ASSUME NEW v \in Workers, NEW j \in Items, NEW q \in Ops, Holder(v, j, q)'
      PROVE  journal'[j][q].st # "NONE" /\ sent'[j][q] = 0
  BY <1>1, <1>2, <1>3, <1>4, <1>6 DEF HolderInv
<1>7. \A u, v \in Workers, j \in Items, q \in Ops :
         Holder(u, j, q)' /\ Holder(v, j, q)' => u = v
  BY <1>4 DEF HolderInv
<1> QED BY <1>5, <1>6, <1>7 DEF HolderInv

LEMMA SetStartingHolder ==
  ASSUME TypeOK, HolderInv, NEW w \in Workers, SetStarting(w) PROVE HolderInv'
<1>1. UNCHANGED <<journal, sent>>
  BY DEF SetStarting
<1>2. CASE Goto(w, "rpc") /\ local' = [local EXCEPT ![w].ver = @ + 1]
  <2>1. \A v \in Workers : local'[v].item = local[v].item /\ local'[v].op = local[v].op
    BY <1>2 DEF TypeOK, Local
  <2>2. \A v \in Workers, i \in Items, o \in Ops : Holder(v, i, o)' => Holder(v, i, o)
    BY <1>2, <2>1 DEF Holder, Goto, SetStarting, TypeOK
  <2> QED BY <1>1, <2>2, QuietStep DEF RowsStay
<1>3. CASE Abandon(w)
  <2>1. Leaves(w)
    BY <1>3 DEF Abandon, Leaves, Labels, TypeOK
  <2> QED BY <1>1, <2>1, LeavesIsQuiet DEF RowsStay
<1> QED BY <1>2, <1>3 DEF SetStarting

LEMMA OthersHolder ==
  ASSUME TypeOK, HolderInv,
         \/ \E m \in wire : Execute(m)
         \/ ClientStep \/ UserActs
         \/ \E i \in Items : FilesChange(i) \/ GraceEnds(i) \/ Retry(i) \/ Delete(i)
         \/ UNCHANGED vars
  PROVE  HolderInv'
<1>1. UNCHANGED sent /\ UNCHANGED pc
  BY DEF Execute, ClientStep, RecheckBegins, CheckEnds, Downloaded, UserActs,
         FilesChange, GraceEnds, Retry, Delete, workerVars, vars
<1>2. RowsStay
  <2>1. ASSUME NEW i \in Items, GraceEnds(i) PROVE RowsStay
    BY <2>1 DEF GraceEnds, RowsStay, TypeOK, Ops
  <2>2. CASE UNCHANGED journal
    BY <2>2 DEF RowsStay
  <2> QED BY <2>1, <2>2
          DEF Execute, ClientStep, RecheckBegins, CheckEnds, Downloaded, UserActs,
              FilesChange, Retry, Delete, vars
<1>3. \A v \in Workers : local'[v].item = local[v].item /\ local'[v].op = local[v].op
  <2>1. ASSUME NEW m \in wire, NEW r, Answer(m, r)
        PROVE  \A v \in Workers :
                  local'[v].item = local[v].item /\ local'[v].op = local[v].op
    BY <2>1 DEF Answer, TypeOK, Local
  <2>2. ASSUME NEW m \in wire, Execute(m) PROVE \E r : Answer(m, r)
    BY <2>2 DEF Execute
  <2>3. (\E m \in wire : Execute(m)) \/ UNCHANGED local
    BY DEF ClientStep, RecheckBegins, CheckEnds, Downloaded, UserActs,
           FilesChange, GraceEnds, Retry, Delete, workerVars, vars
  <2> QED BY <2>1, <2>2, <2>3
<1>4. \A v \in Workers, i \in Items, o \in Ops : Holder(v, i, o)' => Holder(v, i, o)
  BY <1>1, <1>3 DEF Holder
<1> QED BY <1>1, <1>2, <1>4, QuietStep

LEMMA HolderInit == Init => HolderInv
BY DEF Init, HolderInv, Holder, NoRow

LEMMA HolderNext == TypeOK /\ HolderInv /\ [Next]_vars => HolderInv'
<1> SUFFICES ASSUME TypeOK, HolderInv, [Next]_vars PROVE HolderInv'
  OBVIOUS
<1>1. ASSUME NEW w \in Workers, WorkerStep(w) \/ WorkerFault(w) PROVE HolderInv'
  <2>1. CASE RecordIntent(w) \/ Commit(w) \/ Send(w) \/ SetStarting(w)
    BY <2>1, RecordIntentHolder, CommitHolder, SendHolder, SetStartingHolder
  <2>2. CASE ~(RecordIntent(w) \/ Commit(w) \/ Send(w) \/ SetStarting(w))
    <3>1. Leaves(w) /\ UNCHANGED <<journal, sent>>
      BY <1>1, <2>2, WorkerLeaves DEF WorkerStep
    <3> QED BY <3>1, LeavesIsQuiet DEF RowsStay
  <2> QED BY <2>1, <2>2
<1> QED BY <1>1, OthersHolder DEF Next

THEOREM HolderSafe == Spec => [](TypeOK /\ HolderInv)
BY InitType, NextType, HolderInit, HolderNext, PTL DEF Spec

\* No RPC is ever sent twice for an item: recording the intent makes one worker
\* its only holder, and a row never becomes free again.
THEOREM RpcAtMostOnce == Spec => []AtMostOnce
<1>1. HolderInv => AtMostOnce
  BY DEF HolderInv, AtMostOnce
<1> QED BY <1>1, HolderSafe, PTL

\* No RPC leaves the process without a row that outlives a crash.
THEOREM IntentBeforeRpc == Spec => []WriteAhead
<1>1. HolderInv => WriteAhead
  BY DEF HolderInv, WriteAhead
<1> QED BY <1>1, HolderSafe, PTL

-----------------------------------------------------------------------------
(* The refinement of ExternalOperation. *)

Keys == Items \X Ops
Record == [k \in Keys |-> journal[k[1]][k[2]].st]
Dispatched == [k \in Keys |-> sent[k[1]][k[2]]]

LEMMA NoRowWritten ==
  ASSUME UNCHANGED sent,
         \A i \in Items, o \in Ops : journal'[i][o].st = journal[i][o].st
  PROVE  UNCHANGED <<Record, Dispatched>>
BY DEF Record, Dispatched, Keys

\* Writing one row, with one of the changes the promise allows.
LEMMA RowWritten ==
  ASSUME TypeOK, UNCHANGED sent, NEW i \in Items, NEW o \in Ops, NEW row,
         journal' = [journal EXCEPT ![i][o] = row],
         \/ journal[i][o].st = "NONE" /\ row.st = "INTENT_RECORDED"
         \/ journal[i][o].st = "INTENT_RECORDED" /\ row.st = "APPLIED"
         \/ /\ journal[i][o].st \in {"INTENT_RECORDED", "APPLIED"}
            /\ row.st = "RECONCILE_REQUIRED"
         \/ journal[i][o].st = row.st
  PROVE  [Promise!Next]_(Promise!vars)
<1>1. \A j \in Items, q \in Ops :
         journal'[j][q].st = IF j = i /\ q = o THEN row.st ELSE journal[j][q].st
  BY DEF TypeOK
<1>2. ASSUME NEW k \in Keys
      PROVE  journal'[k[1]][k[2]].st = IF k = <<i, o>> THEN row.st
                                       ELSE journal[k[1]][k[2]].st
  BY <1>1 DEF Keys
<1>3. <<i, o>> \in Keys
  BY DEF Keys
<1>4. /\ Record' = [Record EXCEPT ![<<i, o>>] = row.st] /\ UNCHANGED Dispatched
      /\ Record[<<i, o>>] = journal[i][o].st
  BY <1>2, <1>3 DEF Record, Dispatched
<1>5. CASE journal[i][o].st = "NONE" /\ row.st = "INTENT_RECORDED"
  <2>1. Record' = [Record EXCEPT ![<<i, o>>] = "INTENT_RECORDED"]
    BY <1>4, <1>5
  <2> QED BY <1>3, <1>4, <1>5, <2>1
          DEF Promise!Next, Promise!RecordIntent, Record, Dispatched, Keys
<1>6. CASE journal[i][o].st = "INTENT_RECORDED" /\ row.st = "APPLIED"
  <2>1. Record' = [Record EXCEPT ![<<i, o>>] = "APPLIED"]
    BY <1>4, <1>6
  <2> QED BY <1>3, <1>4, <1>6, <2>1
          DEF Promise!Next, Promise!Confirm, Record, Dispatched, Keys
<1>7. CASE /\ journal[i][o].st \in {"INTENT_RECORDED", "APPLIED"}
           /\ row.st = "RECONCILE_REQUIRED"
  <2>1. Record' = [Record EXCEPT ![<<i, o>>] = "RECONCILE_REQUIRED"]
    BY <1>4, <1>7
  <2> QED BY <1>3, <1>4, <1>7, <2>1
          DEF Promise!Next, Promise!Escalate, Record, Dispatched, Keys
<1>8. CASE journal[i][o].st = row.st
  <2>1. UNCHANGED <<Record, Dispatched>>
    BY <1>1, <1>8, NoRowWritten
  <2> QED BY <2>1 DEF Promise!vars, Record, Dispatched, Keys
<1> QED BY <1>5, <1>6, <1>7, <1>8

LEMMA RecordIntentPromise ==
  ASSUME TypeOK, NEW w \in Workers, RecordIntent(w)
  PROVE  [Promise!Next]_(Promise!vars)
<1> DEFINE i == local[w].item  o == local[w].op
           row == [NoRow EXCEPT !.st = "INTENT_RECORDED", !.before = local[w].seen]
<1>1. i \in Items /\ o \in Ops
  BY DEF TypeOK, Local
<1>2. row.st = "INTENT_RECORDED"
  BY DEF NoRow
<1>3. UNCHANGED sent
  BY DEF RecordIntent
<1>4. CASE journal' = [journal EXCEPT ![i][o] = row] /\ Unclaimed(i, o)
  <2>1. journal[i][o].st = "NONE"
    BY <1>4 DEF Unclaimed
  <2> HIDE DEF row, i, o
  <2> QED BY <1>1, <1>2, <1>3, <1>4, <2>1, RowWritten
<1>5. CASE UNCHANGED journal
  <2>1. UNCHANGED <<Record, Dispatched>>
    BY <1>3, <1>5, NoRowWritten
  <2> QED BY <2>1 DEF Promise!vars, Record, Dispatched, Keys
<1> QED BY <1>4, <1>5 DEF RecordIntent

LEMMA CommitPromise ==
  ASSUME TypeOK, NEW w \in Workers, Commit(w)
  PROVE  [Promise!Next]_(Promise!vars)
<1> DEFINE i == local[w].item  o == local[w].op  t == local[w].todo
           r == Visible(i, o)
<1>1. i \in Items /\ o \in Ops /\ t.whole \in BOOLEAN /\ t.chk \in BOOLEAN
  BY DEF TypeOK, Local, Todo
<1>2. r \in Row
  BY <1>1, VisibleType
<1>3. UNCHANGED sent
  BY DEF Commit
<1>4. r.st # "NONE" => r = journal[i][o]
  BY DEF Visible, NoRow
<1>5. CASE UNCHANGED journal
  <2>1. UNCHANGED <<Record, Dispatched>>
    BY <1>3, <1>5, NoRowWritten
  <2> QED BY <2>1 DEF Promise!vars, Record, Dispatched, Keys
<1>6. CASE Writes(t.mark, r.st) /\ journal' = [journal EXCEPT ![i][o] = Marked(r, t)]
  <2>1. \/ r.st = "INTENT_RECORDED" /\ Marked(r, t).st = "APPLIED"
        \/ r.st = "INTENT_RECORDED" /\ Marked(r, t).st = r.st
        \/ /\ r.st \in {"INTENT_RECORDED", "APPLIED"}
           /\ Marked(r, t).st = "RECONCILE_REQUIRED"
    BY <1>1, <1>2, <1>6, MarkedRow DEF Writes
  <2> HIDE DEF i, o, r, t
  <2> QED BY <1>1, <1>3, <1>4, <1>6, <2>1, RowWritten
<1> QED BY <1>5, <1>6 DEF Commit

\* Only the holder sends: its row exists, and the RPC was never sent before.
LEMMA SendPromise ==
  ASSUME TypeOK, HolderInv, NEW w \in Workers, Send(w)
  PROVE  [Promise!Next]_(Promise!vars)
<1> DEFINE i == local[w].item  o == local[w].op
<1>1. i \in Items /\ o \in Ops /\ Holder(w, i, o)
  BY DEF TypeOK, Local, Send, Holder
<1>2. UNCHANGED journal
  BY DEF Send
<1>3. \A j \in Items, q \in Ops :
         sent'[j][q] = IF j = i /\ q = o THEN 1 ELSE sent[j][q]
  BY <1>1 DEF Send, HolderInv, TypeOK
<1>4. journal[i][o].st # "NONE" /\ sent[i][o] = 0
  BY <1>1 DEF HolderInv
<1> HIDE DEF i, o
<1>5. <<i, o>> \in Keys
  BY <1>1 DEF Keys
<1>6. Record[<<i, o>>] # "NONE" /\ Dispatched[<<i, o>>] = 0
  BY <1>4, <1>5 DEF Record, Dispatched
<1>7. \A k \in Keys : sent'[k[1]][k[2]] = IF k = <<i, o>> THEN 1 ELSE sent[k[1]][k[2]]
  BY <1>3 DEF Keys
<1>8. Dispatched' = [Dispatched EXCEPT ![<<i, o>>] = 1] /\ UNCHANGED Record
  BY <1>2, <1>5, <1>7 DEF Record, Dispatched
<1> QED BY <1>5, <1>6, <1>8 DEF Promise!Next, Promise!Dispatch, Record, Dispatched, Keys

LEMMA OtherPromise ==
  ASSUME TypeOK, UNCHANGED sent,
         UNCHANGED journal \/ \E i \in Items : GraceEnds(i)
  PROVE  [Promise!Next]_(Promise!vars)
<1>1. ASSUME NEW i \in Items, GraceEnds(i)
      PROVE  \A j \in Items, q \in Ops : journal'[j][q].st = journal[j][q].st
  BY <1>1 DEF GraceEnds, TypeOK, Ops, Row
<1>2. \A j \in Items, q \in Ops : journal'[j][q].st = journal[j][q].st
  BY <1>1
<1>3. UNCHANGED <<Record, Dispatched>>
  BY <1>2, NoRowWritten
<1> QED BY <1>3 DEF Promise!vars, Record, Dispatched, Keys

LEMMA StepKeepsPromise ==
  TypeOK /\ HolderInv /\ [Next]_vars => [Promise!Next]_(Promise!vars)
<1> SUFFICES ASSUME TypeOK, HolderInv, [Next]_vars PROVE [Promise!Next]_(Promise!vars)
  OBVIOUS
<1>1. ASSUME NEW w \in Workers, WorkerStep(w) \/ WorkerFault(w)
      PROVE  [Promise!Next]_(Promise!vars)
  <2>1. CASE RecordIntent(w) \/ Commit(w) \/ Send(w)
    BY <2>1, RecordIntentPromise, CommitPromise, SendPromise
  <2>2. CASE SetStarting(w)
    BY <2>2, OtherPromise DEF SetStarting
  <2>3. CASE ~(RecordIntent(w) \/ Commit(w) \/ Send(w) \/ SetStarting(w))
    <3>1. UNCHANGED <<journal, sent>>
      BY <1>1, <2>3, WorkerLeaves DEF WorkerStep
    <3> QED BY <3>1, OtherPromise
  <2> QED BY <2>1, <2>2, <2>3
<1>2. ASSUME NEW m \in wire, Execute(m) PROVE UNCHANGED <<journal, sent>>
  BY <1>2 DEF Execute
<1>3. ASSUME NEW i \in Items,
             FilesChange(i) \/ GraceEnds(i) \/ Retry(i) \/ Delete(i)
      PROVE  UNCHANGED sent /\ (UNCHANGED journal \/ GraceEnds(i))
  BY <1>3 DEF FilesChange, GraceEnds, Retry, Delete
<1>4. CASE ClientStep \/ UserActs \/ UNCHANGED vars
  <2>1. UNCHANGED <<journal, sent>>
    BY <1>4 DEF ClientStep, RecheckBegins, CheckEnds, Downloaded, UserActs, vars
  <2> QED BY <2>1, OtherPromise
<1> QED BY <1>1, <1>2, <1>3, <1>4, OtherPromise DEF Next

LEMMA InitKeepsPromise == Init => Promise!Init
BY DEF Init, Promise!Init, NoRow

\* Each RPC of the seeding service follows the promise of ExternalOperation:
\* announced first, made at most once, then confirmed or escalated for good.
THEOREM SeedingKeepsPromise == Spec => KeepsPromise
BY InitKeepsPromise, StepKeepsPromise, HolderSafe, PTL
   DEF Spec, KeepsPromise, Promise!Spec

-----------------------------------------------------------------------------
(* Whose torrent it is, and what COMPLETED means *)

\* The labels at which only one operation can be under way.
Suits(l, o) ==
  /\ l \in {"verifyProbe", "verifyLoad", "poll", "conclude"} => o = "VERIFY"
  /\ l \in {"startProbe", "startLoad"} => o = "START"

\* What a worker knows by where it is: its operation, and that the torrent of
\* an ADD it is about to confirm was made by that item's RPC.
Knows(w) ==
  /\ Suits(pc[w], local[w].op)
  /\ pc[w] = "commit" => Suits(local[w].todo.then, local[w].op)
  /\ pc[w] = "commit" /\ local[w].op = "ADD" /\ local[w].todo.mark = "applied"
       => local[w].item \in created

OursInv ==
  /\ \A i \in Items : torrent.owner = i => i \in created
  /\ \A i \in Items : journal[i]["ADD"].st = "APPLIED" => i \in created
  /\ \A w \in Workers : Knows(w)

-----------------------------------------------------------------------------
(* How the helpers keep what a worker knows. *)

LEMMA KnowsKept ==
  ASSUME NEW w \in Workers, Knows(w), created \subseteq created',
         pc'[w] = pc[w], local'[w].item = local[w].item,
         local'[w].op = local[w].op, local'[w].todo = local[w].todo
  PROVE  Knows(w)'
BY DEF Knows, Suits

LEMMA GoKnows ==
  ASSUME TypeOK, NEW w \in Workers, NEW l \in Labels \ {"commit"}, Goto(w, l),
         Suits(l, local'[w].op)
  PROVE  Knows(w)'
BY DEF Goto, Knows, Suits, TypeOK

LEMMA DecideKnows ==
  ASSUME TypeOK, NEW w \in Workers, NEW v, NEW mark, NEW whole, NEW chk, NEW then,
         Decide(w, v, mark, whole, chk, then), UNCHANGED created,
         Suits(then, local[w].op),
         local[w].op = "ADD" /\ mark = "applied" => local[w].item \in created
  PROVE  Knows(w)'
<1>1. /\ pc'[w] = "commit" /\ local'[w].item = local[w].item
      /\ local'[w].op = local[w].op
      /\ local'[w].todo = [mark |-> mark, whole |-> whole, chk |-> chk, then |-> then]
  BY DEF Decide, Goto, TypeOK, Local
<1>2. local'[w].todo.mark = mark /\ local'[w].todo.then = then
  BY <1>1
<1> QED BY <1>1, <1>2 DEF Knows, Suits

LEMMA KeepKnows ==
  ASSUME TypeOK, NEW w \in Workers, NEW l \in Labels \ {"commit"}, Keep(w, l),
         Suits(l, local[w].op)
  PROVE  Knows(w)'
BY GoKnows DEF Keep

LEMMA SeeKnows ==
  ASSUME TypeOK, NEW w \in Workers, NEW v, NEW l \in Labels \ {"commit"},
         See(w, v, l), Suits(l, local[w].op)
  PROVE  Knows(w)'
<1>1. local'[w].op = local[w].op
  BY DEF See, TypeOK, Local
<1> QED BY <1>1, GoKnows DEF See

LEMMA AbandonKnows ==
  ASSUME TypeOK, NEW w \in Workers, Abandon(w) PROVE Knows(w)'
BY GoKnows DEF Abandon, Suits, Labels

\* A torrent seen as owned is the item's, and was made by its own RPC.
LEMMA OwnedIsOurs ==
  ASSUME OursInv, NEW i \in Items, Owned(Observe(i)) PROVE i \in created
<1>1. torrent.owner = i
  BY DEF Owned, Observe, ClientState
<1> QED BY <1>1 DEF OursInv

-----------------------------------------------------------------------------
(* One lemma per group of actions. *)

LEMMA PrepareKnows ==
  ASSUME TypeOK, OursInv, NEW w \in Workers,
         \/ Advance(w) \/ Reply(w) \/ MarkError(w) \/ Complete(w) \/ WorkerFault(w)
         \/ \E i \in Items : Pick(w, i)
  PROVE  Knows(w)'
<1>1. CASE Advance(w)
  <2>1. ASSUME NEW o \in Ops, NEW l \in Labels \ {"commit"}, Goto(w, l), Suits(l, o),
               local' = [local EXCEPT ![w].op = o]
        PROVE  Knows(w)'
    <3>1. local'[w].op = o
      BY <2>1 DEF TypeOK, Local
    <3> QED BY <2>1, <3>1, GoKnows
  <2> QED BY <1>1, <2>1, KeepKnows, AbandonKnows DEF Advance, Suits, Labels, Ops
<1>2. CASE Reply(w)
  BY <1>2, KeepKnows, DecideKnows DEF Reply, Escalate, Suits, Labels, OnlyWorker, clientVars
<1>3. CASE MarkError(w)
  BY <1>3, AbandonKnows DEF MarkError
<1>4. CASE Complete(w)
  BY <1>4, KeepKnows, AbandonKnows DEF Complete, Suits, Labels
<1>5. CASE WorkerFault(w)
  BY <1>5, KeepKnows, AbandonKnows, DecideKnows
     DEF WorkerFault, PrepareFails, ReplyLost, ReadFails, Crash, Escalate, Suits,
         Labels, OnlyWorker, clientVars
<1>6. ASSUME NEW i \in Items, Pick(w, i) PROVE Knows(w)'
  BY <1>6, GoKnows DEF Pick, Suits, Labels
<1> QED BY <1>1, <1>2, <1>3, <1>4, <1>5, <1>6

LEMMA AddKnows ==
  ASSUME TypeOK, OursInv, NEW w \in Workers,
         AddLoad(w) \/ AddProbe(w) \/ AddConfirm(w) \/ AddRecover(w) \/ Added(w)
  PROVE  Knows(w)'
<1>0. local[w].item \in Items
  BY DEF TypeOK, Local
<1>1. CASE AddLoad(w)
  BY <1>1, KeepKnows, GoKnows DEF AddLoad, Suits, Labels
<1>2. AddSafe(Observe(local[w].item)) => local[w].item \in created
  BY <1>0, OwnedIsOurs DEF AddSafe, Owned, ClientState
<1>3. CASE AddProbe(w)
  BY <1>2, <1>3, KeepKnows, SeeKnows, DecideKnows
     DEF AddProbe, Applied, Escalate, Drifted, Suits, Labels, OnlyWorker, clientVars
<1>4. CASE AddConfirm(w) \/ AddRecover(w)
  BY <1>2, <1>4, DecideKnows
     DEF AddConfirm, AddRecover, Applied, Escalate, Suits, OnlyWorker, clientVars
<1>5. CASE Added(w)
  <2>1. ASSUME Goto(w, "startProbe"),
               local' = [local EXCEPT ![w].ver = @ + 1, ![w].op = "START"]
        PROVE  Knows(w)'
    <3>1. local'[w].op = "START"
      BY <2>1 DEF TypeOK, Local
    <3> QED BY <2>1, <3>1, GoKnows DEF Suits, Labels
  <2> QED BY <1>5, <2>1, KeepKnows, AbandonKnows DEF Added, Suits, Labels
<1> QED BY <1>1, <1>3, <1>4, <1>5

LEMMA VerifyKnows ==
  ASSUME TypeOK, OursInv, NEW w \in Workers,
         \/ VerifyProbe(w) \/ VerifyLoad(w) \/ VerifyConfirm(w) \/ VerifyPoll(w)
         \/ VerifyConclude(w) \/ VerifyRecover(w) \/ Verified(w)
  PROVE  Knows(w)'
<1>0. Suits(pc[w], local[w].op)
  BY DEF OursInv, Knows
<1>1. CASE VerifyProbe(w)
  BY <1>0, <1>1, KeepKnows, SeeKnows DEF VerifyProbe, Suits, Labels
<1>2. CASE VerifyLoad(w)
  BY <1>0, <1>2, KeepKnows, DecideKnows
     DEF VerifyLoad, AwaitRecheck, Applied, Escalate, Drifted, Suits, Labels,
         OnlyWorker, clientVars
<1>3. CASE VerifyConfirm(w) \/ VerifyPoll(w)
  <2>1. local[w].op = "VERIFY"
    BY <1>0, <1>3 DEF VerifyConfirm, VerifyPoll, Suits
  <2> QED BY <1>3, <2>1, KeepKnows, SeeKnows, DecideKnows
          DEF VerifyConfirm, VerifyPoll, Escalate, Suits, Labels, OnlyWorker, clientVars
<1>4. CASE VerifyConclude(w)
  BY <1>0, <1>4, KeepKnows, DecideKnows
     DEF VerifyConclude, Applied, Suits, Labels, OnlyWorker, clientVars
<1>5. CASE VerifyRecover(w)
  BY <1>5, DecideKnows DEF VerifyRecover, Escalate, Suits, OnlyWorker, clientVars
<1>6. CASE Verified(w)
  <2>1. ASSUME Goto(w, "startProbe"),
               local' = [local EXCEPT ![w].ver = @ + 1, ![w].op = "START"]
        PROVE  Knows(w)'
    <3>1. local'[w].op = "START"
      BY <2>1 DEF TypeOK, Local
    <3> QED BY <2>1, <3>1, GoKnows DEF Suits, Labels
  <2> QED BY <1>6, <2>1, KeepKnows, AbandonKnows DEF Verified, Suits, Labels
<1> QED BY <1>1, <1>2, <1>3, <1>4, <1>5, <1>6

LEMMA StartKnows ==
  ASSUME TypeOK, OursInv, NEW w \in Workers,
         \/ StartProbe(w) \/ StartLoad(w) \/ SetStarting(w) \/ StartConfirm(w)
         \/ StartRecover(w)
  PROVE  Knows(w)'
<1>0. Suits(pc[w], local[w].op)
  BY DEF OursInv, Knows
<1>1. CASE StartProbe(w)
  BY <1>0, <1>1, KeepKnows, SeeKnows DEF StartProbe, Suits, Labels
<1>2. CASE StartLoad(w)
  BY <1>0, <1>2, KeepKnows, DecideKnows
     DEF StartLoad, Applied, Escalate, Drifted, Suits, Labels, OnlyWorker, clientVars
<1>3. CASE SetStarting(w)
  BY <1>3, GoKnows, AbandonKnows DEF SetStarting, Suits, Labels
<1>4. CASE StartConfirm(w) \/ StartRecover(w)
  BY <1>4, DecideKnows
     DEF StartConfirm, StartRecover, Applied, Escalate, Suits, OnlyWorker, clientVars
<1> QED BY <1>1, <1>2, <1>3, <1>4

LEMMA WriterKnows ==
  ASSUME TypeOK, OursInv, NEW w \in Workers, RecordIntent(w) \/ Commit(w) \/ Send(w)
  PROVE  Knows(w)'
<1>1. CASE RecordIntent(w)
  BY <1>1, KeepKnows, AbandonKnows DEF RecordIntent, Suits, Labels
<1>2. CASE Commit(w)
  <2>1. local'[w].op = local[w].op
    BY <1>2 DEF Commit, TypeOK, Local
  <2>2. local[w].todo.then \in Labels \ {"commit"}
    BY DEF TypeOK, Local, Todo, Fates, Labels
  <2>3. Suits(local[w].todo.then, local[w].op)
    BY <1>2 DEF OursInv, Knows, Commit
  <2>4. Goto(w, local[w].todo.then) \/ Goto(w, "failUnsafe")
    BY <1>2 DEF Commit
  <2> QED BY <2>1, <2>2, <2>3, <2>4, GoKnows DEF Suits, Labels
<1>3. CASE Send(w)
  BY <1>3, GoKnows DEF Send, Suits, Labels
<1> QED BY <1>1, <1>2, <1>3

\* A step of worker w leaves alone what the other workers know.
LEMMA OnlyOneMoves ==
  ASSUME TypeOK, OursInv, NEW w \in Workers, WorkerStep(w) \/ WorkerFault(w)
  PROVE  \A v \in Workers \ {w} : pc'[v] = pc[v] /\ local'[v] = local[v]
<1>0. pc \in [Workers -> Labels] /\ local \in [Workers -> Local]
  BY DEF TypeOK
<1>1. ASSUME Leaves(w)
      PROVE  \A v \in Workers \ {w} : pc'[v] = pc[v] /\ local'[v] = local[v]
  BY <1>0, <1>1 DEF Leaves, Goto
<1>2. CASE RecordIntent(w) \/ Commit(w) \/ Send(w) \/ SetStarting(w)
  BY <1>0, <1>2 DEF RecordIntent, Commit, Send, SetStarting, Keep, Abandon, Goto
<1>3. CASE ~(RecordIntent(w) \/ Commit(w) \/ Send(w) \/ SetStarting(w))
  BY <1>1, <1>3, WorkerLeaves DEF WorkerStep
<1> QED BY <1>2, <1>3

LEMMA WorkerMakesNone ==
  ASSUME NEW w \in Workers, WorkerStep(w) \/ WorkerFault(w)
  PROVE  UNCHANGED <<torrent, created>>
BY DEF WorkerStep, WorkerFault, Pick, Advance, RecordIntent, Commit, Send, Reply,
       MarkError, AddLoad, AddProbe, AddConfirm, AddRecover, Added, VerifyProbe,
       VerifyLoad, VerifyConfirm, VerifyPoll, VerifyConclude, VerifyRecover,
       Verified, StartProbe, StartLoad, SetStarting, StartConfirm, StartRecover,
       Complete, PrepareFails, ReplyLost, ReadFails, Crash, OnlyWorker, clientVars

LEMMA WorkerConfirms ==
  ASSUME TypeOK, OursInv, NEW w \in Workers, WorkerStep(w) \/ WorkerFault(w)
  PROVE  \A i \in Items : journal'[i]["ADD"].st = "APPLIED" => i \in created
<1> DEFINE i == local[w].item  o == local[w].op  t == local[w].todo
           r == Visible(i, o)
           stays == \A j \in Items :
                      journal'[j]["ADD"].st = "APPLIED" => journal[j]["ADD"].st = "APPLIED"
<1>0. i \in Items /\ o \in Ops /\ "ADD" \in Ops
  BY DEF TypeOK, Local, Ops
<1>1. CASE UNCHANGED journal
  BY <1>1 DEF OursInv
<1>2. CASE RecordIntent(w) /\ ~UNCHANGED journal
  <2>1. journal' = [journal EXCEPT ![i][o] =
                      [NoRow EXCEPT !.st = "INTENT_RECORDED", !.before = local[w].seen]]
    BY <1>2 DEF RecordIntent
  <2>2. stays
    BY <1>0, <2>1 DEF TypeOK, NoRow
  <2> QED BY <2>2 DEF OursInv
<1>3. CASE Commit(w) /\ ~UNCHANGED journal
  <2>1. r \in Row
    BY <1>0, VisibleType
  <2>2. ASSUME NEW row, journal' = [journal EXCEPT ![i][o] = row], row.st # "APPLIED"
        PROVE  stays
    BY <1>0, <2>2 DEF TypeOK
  <2>3. ASSUME journal' = [journal EXCEPT ![i][o] = Marked(r, t)], t.mark = "applied"
        PROVE  \A j \in Items : journal'[j]["ADD"].st = "APPLIED" => j \in created
    <3>1. o = "ADD" => i \in created
      BY <1>3, <2>3 DEF Commit, OursInv, Knows
    <3>2. ASSUME NEW j \in Items, j # i \/ o # "ADD"
          PROVE  journal'[j]["ADD"] = journal[j]["ADD"]
      BY <1>0, <2>3, <3>2 DEF TypeOK
    <3> QED BY <3>1, <3>2 DEF OursInv
  <2>4. ASSUME journal' = [journal EXCEPT ![i][o] = Marked(r, t)], t.mark # "applied",
               Writes(t.mark, r.st)
        PROVE  stays
    <3>1. t.whole \in BOOLEAN /\ t.chk \in BOOLEAN
      BY DEF TypeOK, Local, Todo
    <3>2. Marked(r, t).st # "APPLIED"
      BY <2>1, <2>4, <3>1, MarkedRow DEF Writes
    <3> HIDE DEF i, o, r, t, stays
    <3> QED BY <2>2, <2>4, <3>2
  <2> QED BY <1>3, <2>3, <2>4 DEF Commit, OursInv
<1>4. UNCHANGED journal \/ RecordIntent(w) \/ Commit(w)
  BY WorkerLeaves DEF WorkerStep, Send, SetStarting
<1> QED BY <1>1, <1>2, <1>3, <1>4

LEMMA WorkerOurs ==
  ASSUME TypeOK, OursInv, NEW w \in Workers, WorkerStep(w) \/ WorkerFault(w)
  PROVE  OursInv'
<1>1. Knows(w)'
  BY PrepareKnows, AddKnows, VerifyKnows, StartKnows, WriterKnows DEF WorkerStep
<1>2. ASSUME NEW v \in Workers \ {w} PROVE Knows(v)'
  BY OnlyOneMoves, WorkerMakesNone, KnowsKept DEF OursInv
<1> QED BY <1>1, <1>2, WorkerMakesNone, WorkerConfirms DEF OursInv

LEMMA OthersOurs ==
  ASSUME TypeOK, OursInv,
         \/ \E m \in wire : Execute(m)
         \/ ClientStep \/ UserActs
         \/ \E i \in Items : FilesChange(i) \/ GraceEnds(i) \/ Retry(i) \/ Delete(i)
         \/ UNCHANGED vars
  PROVE  OursInv'
<1>1. UNCHANGED pc /\ created \subseteq created'
  BY DEF Execute, ClientStep, RecheckBegins, CheckEnds, Downloaded, UserActs,
         FilesChange, GraceEnds, Retry, Delete, workerVars, clientVars, vars
<1>2. ASSUME NEW v \in Workers PROVE Knows(v)'
  <2>1. ASSUME NEW m \in wire, NEW r, Answer(m, r)
        PROVE  /\ local'[v].item = local[v].item /\ local'[v].op = local[v].op
               /\ local'[v].todo = local[v].todo
    BY <2>1 DEF Answer, TypeOK, Local
  <2>2. ASSUME NEW m \in wire, Execute(m) PROVE \E r : Answer(m, r)
    BY <2>2 DEF Execute
  <2>3. (\E m \in wire : Execute(m)) \/ UNCHANGED local
    BY DEF ClientStep, RecheckBegins, CheckEnds, Downloaded, UserActs,
           FilesChange, GraceEnds, Retry, Delete, workerVars, vars
  <2> QED BY <1>1, <2>1, <2>2, <2>3, KnowsKept DEF OursInv
<1>3. \A i \in Items : journal'[i]["ADD"].st = "APPLIED" => i \in created'
  <2>1. ASSUME NEW i \in Items, GraceEnds(i)
        PROVE  \A j \in Items : journal'[j]["ADD"] = journal[j]["ADD"]
    BY <2>1 DEF GraceEnds, TypeOK, Ops
  <2>2. (\E i \in Items : GraceEnds(i)) \/ UNCHANGED journal
    BY DEF Execute, ClientStep, RecheckBegins, CheckEnds, Downloaded, UserActs,
           FilesChange, Retry, Delete, vars
  <2> QED BY <1>1, <2>1, <2>2 DEF OursInv
<1>4. ASSUME NEW i \in Items, torrent'.owner = i PROVE i \in created'
  <2>1. CASE torrent'.owner = torrent.owner
    BY <1>1, <1>4, <2>1 DEF OursInv
  <2>2. ASSUME NEW m \in wire, Execute(m), torrent'.owner # torrent.owner
        PROVE  i \in created'
    <3>2. ASSUME NEW st, torrent' = [torrent EXCEPT !.st = st]
                         \/ torrent' = [torrent EXCEPT !.queued = TRUE]
          PROVE  FALSE
      BY <2>2, <3>2 DEF TypeOK
    <3>3. ASSUME NEW st, torrent' = [NoTorrent EXCEPT !.owner = m.item, !.st = st]
          PROVE  m.item = i
      BY <1>4, <3>3 DEF NoTorrent
    <3> QED BY <2>2, <3>2, <3>3 DEF Execute
  <2>3. ASSUME UserActs PROVE torrent'.owner \in {torrent.owner, "none", "foreign"}
    <3>1. \/ torrent' = NoTorrent
          \/ \E st : torrent' = [NoTorrent EXCEPT !.owner = "foreign", !.st = st]
          \/ \E st : torrent' = [torrent EXCEPT !.st = st]
      BY <2>3 DEF UserActs
    <3>2. NoTorrent.owner = "none"
          /\ \A st : [NoTorrent EXCEPT !.owner = "foreign", !.st = st].owner = "foreign"
      BY DEF NoTorrent
    <3>3. \A st : [torrent EXCEPT !.st = st].owner = torrent.owner
      BY DEF TypeOK
    <3> QED BY <3>1, <3>2, <3>3
  <2>4. ASSUME ClientStep PROVE torrent'.owner = torrent.owner
    BY <2>4 DEF ClientStep, RecheckBegins, CheckEnds, Downloaded, TypeOK
  <2>5. i \notin {"none", "foreign"}
    BY ItemsAssumption
  <2>6. \/ \E m \in wire : Execute(m)
        \/ ClientStep \/ UserActs
        \/ UNCHANGED torrent
    BY DEF FilesChange, GraceEnds, Retry, Delete, clientVars, vars
  <2> QED BY <1>4, <2>1, <2>2, <2>3, <2>4, <2>5, <2>6 DEF OursInv
<1> QED BY <1>1, <1>2, <1>3, <1>4 DEF OursInv

LEMMA OursInit == Init => OursInv
<1> SUFFICES ASSUME Init PROVE OursInv
  OBVIOUS
<1>1. \A w \in Workers : pc[w] = "idle"
  BY DEF Init
<1>2. \A w \in Workers : Knows(w)
  BY <1>1 DEF Knows, Suits
<1>3. torrent.owner = "none" /\ wire = {}
  BY DEF Init, NoTorrent
<1>4. \A i \in Items : i # "none" /\ journal[i]["ADD"].st = "NONE"
  BY ItemsAssumption DEF Init, NoRow, Ops
<1> QED BY <1>2, <1>3, <1>4 DEF OursInv

LEMMA OursNext == TypeOK /\ OursInv /\ [Next]_vars => OursInv'
BY WorkerOurs, OthersOurs DEF Next

\* An ADD row is APPLIED only for a torrent this item's own RPC made: one that
\* was already there, or that a user put there, is never adopted.
THEOREM AddedByUs == Spec => []AddIsOurs
<1>1. OursInv => AddIsOurs
  BY DEF OursInv, AddIsOurs
<1> QED BY <1>1, InitType, NextType, OursInit, OursNext, PTL DEF Spec

-----------------------------------------------------------------------------
(* What COMPLETED means. *)

\* The only ways an item changes its status.
ItemMoves(i, j) ==
  \/ Active(i) /\ j \in {"EXECUTING", "CLIENT_VERIFYING"} /\ UNCHANGED execution
  \/ Active(i) /\ execution' = RefreshBySeeding(status')
     /\ j \in {"EXECUTION_ERROR", "COMPLETED"}
  \/ status[i] = "EXECUTION_ERROR" /\ j = "EXECUTING"
     /\ execution' = RefreshByAction(status')
  \/ j = "DELETED" /\ execution' = RefreshByAction(status')

LEMMA StatusMoves ==
  ASSUME TypeOK, [Next]_vars
  PROVE  \/ UNCHANGED <<status, execution>>
         \/ \E i \in Items, j \in Status :
               status' = [status EXCEPT ![i] = j] /\ ItemMoves(i, j)
<1> DEFINE Moves == \E i \in Items, j \in Status :
                      status' = [status EXCEPT ![i] = j] /\ ItemMoves(i, j)
           Rests == UNCHANGED <<status, execution>>
<1>1. ASSUME NEW w \in Workers, NEW from, NEW to, NEW st \in ActiveStatus,
             SetStage(w, from, to, st)
      PROVE  Moves
  <2>1. local[w].item \in Items
    BY DEF TypeOK, Local
  <2> QED BY <1>1, <2>1 DEF SetStage, Fenced, ItemMoves, ActiveStatus, Status
<1>2. ASSUME NEW w \in Workers, WorkerStep(w) \/ WorkerFault(w) PROVE Moves \/ Rests
  <2>1. local[w].item \in Items
    BY DEF TypeOK, Local
  <2>2. CASE MarkError(w)
    BY <2>1, <2>2 DEF MarkError, Fenced, ItemMoves, Status
  <2>3. CASE Complete(w)
    BY <2>1, <2>3 DEF Complete, Fenced, ItemMoves, Status, itemVars
  <2>4. CASE Added(w) \/ Verified(w) \/ SetStarting(w)
    BY <1>1, <2>4 DEF Added, Verified, SetStarting, ActiveStatus, itemVars
  <2>5. CASE ~(MarkError(w) \/ Complete(w) \/ Added(w) \/ Verified(w) \/ SetStarting(w))
    BY <1>2, <2>5
       DEF WorkerStep, WorkerFault, Pick, Advance, RecordIntent, Commit, Send, Reply,
           AddLoad, AddProbe, AddConfirm, AddRecover, VerifyProbe, VerifyLoad,
           VerifyConfirm, VerifyPoll, VerifyConclude, VerifyRecover, StartProbe, StartLoad,
           StartConfirm, StartRecover, PrepareFails, ReplyLost, ReadFails, Crash,
           OnlyWorker, clientVars, itemVars
  <2> QED BY <2>2, <2>3, <2>4, <2>5
<1>3. ASSUME NEW i \in Items, Retry(i) \/ Delete(i) PROVE Moves
  BY <1>3 DEF Retry, Delete, ItemMoves, Status, ActiveStatus
<1>4. ASSUME \/ \E m \in wire : Execute(m)
             \/ ClientStep \/ UserActs \/ UNCHANGED vars
             \/ \E i \in Items : FilesChange(i) \/ GraceEnds(i)
      PROVE  Rests
  BY <1>4 DEF Execute, ClientStep, RecheckBegins, CheckEnds, Downloaded, UserActs,
              FilesChange, GraceEnds, itemVars, vars
<1> QED BY <1>2, <1>3, <1>4 DEF Next

LEMMA SeedingSaysCompleted ==
  ASSUME NEW s \in [Items -> Status], RefreshBySeeding(s) = "COMPLETED"
  PROVE  \A i \in Items : s[i] \in {"COMPLETED", "DELETED"}
<1>1. ~\E i \in Items : s[i] \in ActiveStatus
  BY DEF RefreshBySeeding
<1>2. ~\E i \in Items : s[i] = "EXECUTION_ERROR"
  BY DEF RefreshBySeeding
<1> QED BY <1>1, <1>2 DEF Status

LEMMA ActionSaysCompleted ==
  ASSUME NEW s \in [Items -> Status], RefreshByAction(s) = "COMPLETED"
  PROVE  \A i \in Items : s[i] \in {"COMPLETED", "DELETED"}
<1> DEFINE live == {i \in Items : s[i] # "DELETED"}
<1>1. \A i \in live : s[i] = "COMPLETED"
  BY DEF RefreshByAction
<1> QED BY <1>1

\* No step takes a COMPLETED item back, however late its worker is.
THEOREM CompletedForGood == Spec => CompletedStays
<1>1. TypeOK /\ [Next]_vars =>
         [\A i \in Items : status[i] = "COMPLETED"
                             => status'[i] \in {"COMPLETED", "DELETED"}]_vars
  <2> SUFFICES ASSUME TypeOK, [Next]_vars, NEW i \in Items, status[i] = "COMPLETED"
               PROVE  status'[i] \in {"COMPLETED", "DELETED"}
    OBVIOUS
  <2>1. ASSUME NEW k \in Items, NEW j \in Status, ItemMoves(k, j),
               status' = [status EXCEPT ![k] = j]
        PROVE  status'[i] \in {"COMPLETED", "DELETED"}
    BY <2>1 DEF TypeOK, ItemMoves, Active, ActiveStatus
  <2> QED BY <2>1, StatusMoves
<1> QED BY <1>1, TypeCorrect, PTL DEF Spec, CompletedStays

\* An execution that reads COMPLETED has no item left to do, although three
\* different writers maintain its status and moving an item on does not.
THEOREM CompletedIsTruthful == Spec => []ExecutionTruthful
<1>1. Init => ExecutionTruthful
  BY DEF Init, ExecutionTruthful
<1>2. TypeOK /\ TypeOK' /\ ExecutionTruthful /\ [Next]_vars => ExecutionTruthful'
  <2> SUFFICES ASSUME TypeOK, TypeOK', ExecutionTruthful, [Next]_vars
               PROVE  ExecutionTruthful'
    OBVIOUS
  <2>1. status' \in [Items -> Status]
    BY DEF TypeOK
  <2>2. CASE UNCHANGED <<status, execution>>
    BY <2>2 DEF ExecutionTruthful
  <2>3. CASE execution' \in {RefreshBySeeding(status'), RefreshByAction(status')}
    BY <2>1, <2>3, SeedingSaysCompleted, ActionSaysCompleted DEF ExecutionTruthful
  <2>4. ASSUME NEW i \in Items, Active(i), UNCHANGED execution
        PROVE  ExecutionTruthful'
    BY <2>4 DEF ExecutionTruthful, Active, ActiveStatus
  <2> QED BY <2>2, <2>3, <2>4, StatusMoves DEF ItemMoves
<1> QED BY <1>1, <1>2, TypeCorrect, PTL DEF Spec

-----------------------------------------------------------------------------
(* The order of the operations *)

\* The row of a verification that found every piece; a later contradiction may
\* ask for reconciliation, but does not take the finding back.
VerifiedWhole(i) ==
  /\ journal[i]["VERIFY"].st \in {"APPLIED", "RECONCILE_REQUIRED"}
  /\ journal[i]["VERIFY"].whole

\* The labels from the check of the VERIFY row to the RPC.
Clearing == {"startLoad", "intent", "starting", "rpc"}

Cleared(w) ==
  /\ pc[w] \in {"addLoad", "addProbe"} => local[w].op = "ADD"
  /\ ClientCheck /\ pc[w] \in Clearing /\ local[w].op = "START"
       => VerifiedWhole(local[w].item)

\* The inductive invariant behind StartAfterVerify: the sender knew it.
StartInv ==
  /\ \A w \in Workers : Cleared(w)
  /\ ClientCheck => \A i \in Items : sent[i]["START"] > 0 => VerifiedWhole(i)

-----------------------------------------------------------------------------
(* The finding of a verification is never taken back. *)

FindingsStay == \A i \in Items : VerifiedWhole(i) => VerifiedWhole(i)'

LEMMA RecordIntentKeepsFindings ==
  ASSUME TypeOK, NEW w \in Workers, RecordIntent(w) PROVE FindingsStay
<1> DEFINE i == local[w].item  o == local[w].op
<1>1. i \in Items /\ o \in Ops /\ "VERIFY" \in Ops
  BY DEF TypeOK, Local, Ops
<1>2. CASE UNCHANGED journal
  BY <1>2 DEF FindingsStay, VerifiedWhole
<1>3. ASSUME NEW row, journal' = [journal EXCEPT ![i][o] = row],
             journal[i][o].st = "NONE", NEW j \in Items, VerifiedWhole(j)
      PROVE  VerifiedWhole(j)'
  <2>1. j # i \/ o # "VERIFY"
    BY <1>3 DEF VerifiedWhole
  <2>2. journal'[j]["VERIFY"] = journal[j]["VERIFY"]
    BY <1>1, <1>3, <2>1 DEF TypeOK
  <2> QED BY <1>3, <2>2 DEF VerifiedWhole
<1> QED BY <1>2, <1>3 DEF RecordIntent, Unclaimed, FindingsStay

LEMMA CommitKeepsFindings ==
  ASSUME TypeOK, NEW w \in Workers, Commit(w) PROVE FindingsStay
<1> DEFINE i == local[w].item  o == local[w].op  t == local[w].todo
           r == Visible(i, o)
<1>1. i \in Items /\ o \in Ops /\ "VERIFY" \in Ops
  BY DEF TypeOK, Local, Ops
<1>2. CASE UNCHANGED journal
  BY <1>2 DEF FindingsStay, VerifiedWhole
<1>3. ASSUME journal' = [journal EXCEPT ![i][o] = Marked(r, t)], Writes(t.mark, r.st),
             NEW j \in Items, VerifiedWhole(j)
      PROVE  VerifiedWhole(j)'
  <2>1. CASE j # i \/ o # "VERIFY"
    <3>1. journal'[j]["VERIFY"] = journal[j]["VERIFY"]
      BY <1>1, <1>3, <2>1 DEF TypeOK
    <3> QED BY <1>3, <3>1 DEF VerifiedWhole
  <2>2. CASE j = i /\ o = "VERIFY"
    <3>1. r = journal[i]["VERIFY"] /\ r.st = "APPLIED" /\ r.whole /\ t.mark = "drift"
      BY <1>3, <2>2 DEF Visible, Writes, NoRow, VerifiedWhole
    <3>2. r \in Row
      BY <1>1, VisibleType
    <3>3. Marked(r, t) = [r EXCEPT !.st = "RECONCILE_REQUIRED"]
      BY <3>1 DEF Marked
    <3>4. Marked(r, t).st = "RECONCILE_REQUIRED" /\ Marked(r, t).whole
      BY <3>1, <3>2, <3>3 DEF Row
    <3>5. journal'[j]["VERIFY"] = Marked(r, t)
      BY <1>1, <1>3, <2>2 DEF TypeOK
    <3> QED BY <3>4, <3>5 DEF VerifiedWhole
  <2> QED BY <2>1, <2>2
<1> QED BY <1>2, <1>3 DEF Commit, FindingsStay

LEMMA StepKeepsFindings ==
  ASSUME TypeOK, [Next]_vars PROVE FindingsStay
<1>1. CASE UNCHANGED journal
  BY <1>1 DEF FindingsStay, VerifiedWhole
<1>2. ASSUME NEW w \in Workers, WorkerStep(w) \/ WorkerFault(w)
      PROVE  UNCHANGED journal \/ RecordIntent(w) \/ Commit(w)
  BY <1>2, WorkerLeaves DEF WorkerStep, Send, SetStarting
<1>3. ASSUME NEW i \in Items, GraceEnds(i) PROVE FindingsStay
  BY <1>3 DEF GraceEnds, FindingsStay, VerifiedWhole, TypeOK, Ops, Row
<1>4. \/ UNCHANGED journal
      \/ \E w \in Workers : WorkerStep(w) \/ WorkerFault(w)
      \/ \E i \in Items : GraceEnds(i)
  BY DEF Next, Execute, ClientStep, RecheckBegins, CheckEnds, Downloaded, UserActs,
         FilesChange, Retry, Delete, vars
<1> QED BY <1>1, <1>2, <1>3, <1>4, RecordIntentKeepsFindings, CommitKeepsFindings

-----------------------------------------------------------------------------
(* How a worker comes to be cleared. *)

LEMMA ClearedKept ==
  ASSUME NEW w \in Workers, Cleared(w), local[w].item \in Items, FindingsStay,
         pc'[w] = pc[w], local'[w].item = local[w].item, local'[w].op = local[w].op
  PROVE  Cleared(w)'
BY DEF Cleared, FindingsStay

\* A worker that moves to a label that needs nothing.
LEMMA GoCleared ==
  ASSUME TypeOK, NEW w \in Workers,
         NEW l \in Labels \ (Clearing \cup {"addLoad", "addProbe"}), Goto(w, l)
  PROVE  Cleared(w)'
BY DEF Goto, Cleared, TypeOK

LEMMA HelpersClear ==
  ASSUME TypeOK, NEW w \in Workers
  PROVE  /\ \A l \in Labels \ (Clearing \cup {"addLoad", "addProbe"}) : \A v :
              Keep(w, l) \/ See(w, v, l) => Cleared(w)'
         /\ Abandon(w) => Cleared(w)'
         /\ \A v, m, a, c, t : Decide(w, v, m, a, c, t) => Cleared(w)'
<1>1. {"idle", "commit"} \subseteq Labels \ (Clearing \cup {"addLoad", "addProbe"})
  BY DEF Labels, Clearing
<1>2. Abandon(w) => Goto(w, "idle")
  BY DEF Abandon
<1>3. \A v, m, a, c, t : Decide(w, v, m, a, c, t) => Goto(w, "commit")
  BY DEF Decide
<1> QED BY <1>1, <1>2, <1>3, GoCleared DEF Keep, See

\* A worker that moves on within one operation other than START.
LEMMA OtherOpCleared ==
  ASSUME TypeOK, NEW w \in Workers, NEW l \in Labels \ {"addLoad", "addProbe"},
         Goto(w, l), local'[w].op # "START"
  PROVE  Cleared(w)'
BY DEF Goto, Cleared, TypeOK

-----------------------------------------------------------------------------
(* One lemma per group of actions. *)

LEMMA PrepareClears ==
  ASSUME TypeOK, NEW w \in Workers,
         \/ Advance(w) \/ Reply(w) \/ MarkError(w) \/ Complete(w) \/ WorkerFault(w)
         \/ \E i \in Items : Pick(w, i)
  PROVE  Cleared(w)'
<1>1. CASE Advance(w)
  <2>1. ASSUME Goto(w, "addLoad"), local' = [local EXCEPT ![w].op = "ADD"]
        PROVE  Cleared(w)'
    <3>1. local'[w].op = "ADD"
      BY <2>1 DEF TypeOK, Local
    <3> QED BY <3>1 DEF Cleared
  <2>2. Goto(w, "verifyProbe") \/ Goto(w, "startProbe") => Cleared(w)'
    BY GoCleared DEF Labels, Clearing
  <2> QED BY <1>1, <2>1, <2>2, HelpersClear DEF Advance, Labels, Clearing
<1>2. CASE Reply(w)
  BY <1>2, HelpersClear DEF Reply, Escalate, Labels, Clearing
<1>3. CASE MarkError(w) \/ Complete(w)
  BY <1>3, HelpersClear DEF MarkError, Complete, Labels, Clearing
<1>4. CASE WorkerFault(w)
  BY <1>4, HelpersClear
     DEF WorkerFault, PrepareFails, ReplyLost, ReadFails, Crash, Escalate, Labels,
         Clearing
<1>5. ASSUME NEW i \in Items, Pick(w, i) PROVE Cleared(w)'
  BY <1>5, GoCleared DEF Pick, Labels, Clearing
<1> QED BY <1>1, <1>2, <1>3, <1>4, <1>5

LEMMA AddClears ==
  ASSUME TypeOK, StartInv, NEW w \in Workers,
         AddLoad(w) \/ AddProbe(w) \/ AddConfirm(w) \/ AddRecover(w) \/ Added(w)
  PROVE  Cleared(w)'
<1>1. CASE AddLoad(w)
  <2>1. local[w].op = "ADD"
    BY <1>1 DEF StartInv, Cleared, AddLoad
  <2>2. local'[w].op = "ADD"
    BY <1>1, <2>1 DEF AddLoad, Keep, TypeOK, Local
  <2> QED BY <2>2 DEF Cleared
<1>2. CASE AddProbe(w)
  <2>1. local[w].op = "ADD"
    BY <1>2 DEF StartInv, Cleared, AddProbe
  <2>2. ASSUME NEW v, See(w, v, "intent") PROVE Cleared(w)'
    <3>1. local'[w].op = "ADD"
      BY <2>1, <2>2 DEF See, TypeOK, Local
    <3> QED BY <3>1 DEF Cleared
  <2> QED BY <1>2, <2>2, HelpersClear
          DEF AddProbe, Applied, Escalate, Drifted, Labels, Clearing
<1>3. CASE AddConfirm(w) \/ AddRecover(w)
  BY <1>3, HelpersClear DEF AddConfirm, AddRecover, Applied, Escalate
<1>4. CASE Added(w)
  BY <1>4, HelpersClear, GoCleared DEF Added, Labels, Clearing
<1> QED BY <1>1, <1>2, <1>3, <1>4

LEMMA VerifyClears ==
  ASSUME TypeOK, OursInv, NEW w \in Workers,
         \/ VerifyProbe(w) \/ VerifyLoad(w) \/ VerifyConfirm(w) \/ VerifyPoll(w)
         \/ VerifyConclude(w) \/ VerifyRecover(w) \/ Verified(w)
  PROVE  Cleared(w)'
<1>0. Suits(pc[w], local[w].op)
  BY DEF OursInv, Knows
<1>1. CASE VerifyProbe(w)
  BY <1>1, HelpersClear DEF VerifyProbe, Labels, Clearing
<1>2. CASE VerifyLoad(w)
  <2>1. local[w].op = "VERIFY"
    BY <1>0, <1>2 DEF VerifyLoad, Suits
  <2>2. ASSUME Keep(w, "intent") PROVE Cleared(w)'
    <3>1. local' = local
      BY <2>2 DEF Keep
    <3> QED BY <2>1, <2>2, <3>1, OtherOpCleared DEF Keep, Labels
  <2> QED BY <1>2, <2>2, HelpersClear
          DEF VerifyLoad, AwaitRecheck, Applied, Escalate, Drifted, Labels, Clearing
<1>3. CASE VerifyConfirm(w) \/ VerifyPoll(w) \/ VerifyConclude(w) \/ VerifyRecover(w)
  BY <1>3, HelpersClear
     DEF VerifyConfirm, VerifyPoll, VerifyConclude, VerifyRecover, Applied, Escalate,
         Labels, Clearing
<1>4. CASE Verified(w)
  BY <1>4, HelpersClear, GoCleared DEF Verified, Labels, Clearing
<1> QED BY <1>1, <1>2, <1>3, <1>4

\* Here the clearance is given: StartProbe reads a proven VERIFY row.
LEMMA StartClears ==
  ASSUME TypeOK, StartInv, FindingsStay, NEW w \in Workers,
         \/ StartProbe(w) \/ StartLoad(w) \/ SetStarting(w) \/ StartConfirm(w)
         \/ StartRecover(w)
  PROVE  Cleared(w)'
<1>0. local[w].item \in Items /\ Cleared(w)
  BY DEF TypeOK, Local, StartInv
<1>1. CASE StartProbe(w)
  <2>1. ASSUME ReadyToStart(local[w].item), See(w, Observe(local[w].item), "startLoad")
        PROVE  Cleared(w)'
    <3>1. ClientCheck => VerifiedWhole(local[w].item)
      BY <2>1 DEF ReadyToStart, VerifyProven, Visible, NoRow, VerifiedWhole
    <3>2. local'[w].item = local[w].item /\ pc'[w] = "startLoad"
      BY <2>1 DEF See, Goto, TypeOK, Local
    <3> QED BY <1>0, <3>1, <3>2 DEF Cleared, FindingsStay
  <2> QED BY <1>1, <2>1, HelpersClear DEF StartProbe, Labels, Clearing
<1>2. CASE StartLoad(w)
  <2>1. ASSUME Keep(w, "intent") PROVE Cleared(w)'
    <3>1. pc[w] = "startLoad" /\ pc'[w] = "intent" /\ local' = local
      BY <1>2, <2>1 DEF StartLoad, Keep, Goto, TypeOK
    <3> QED BY <1>0, <3>1 DEF Cleared, FindingsStay, Clearing
  <2> QED BY <1>2, <2>1, HelpersClear
          DEF StartLoad, Applied, Escalate, Drifted, Labels, Clearing
<1>3. CASE SetStarting(w)
  <2>1. ASSUME Goto(w, "rpc"), local' = [local EXCEPT ![w].ver = @ + 1]
        PROVE  Cleared(w)'
    <3>1. pc[w] = "starting" /\ pc'[w] = "rpc"
      BY <1>3, <2>1 DEF SetStarting, Goto, TypeOK
    <3>2. local'[w].item = local[w].item /\ local'[w].op = local[w].op
      BY <2>1 DEF TypeOK, Local
    <3> QED BY <1>0, <3>1, <3>2 DEF Cleared, FindingsStay, Clearing
  <2> QED BY <1>3, <2>1, HelpersClear DEF SetStarting
<1>4. CASE StartConfirm(w) \/ StartRecover(w)
  BY <1>4, HelpersClear DEF StartConfirm, StartRecover, Applied, Escalate
<1> QED BY <1>1, <1>2, <1>3, <1>4

LEMMA WriterClears ==
  ASSUME TypeOK, StartInv, FindingsStay, NEW w \in Workers,
         RecordIntent(w) \/ Commit(w) \/ Send(w)
  PROVE  Cleared(w)'
<1>0. local[w].item \in Items /\ Cleared(w)
  BY DEF TypeOK, Local, StartInv
<1>1. CASE RecordIntent(w)
  <2>1. ASSUME NEW l \in {"starting", "rpc"}, Keep(w, l) PROVE Cleared(w)'
    <3>1. pc[w] = "intent" /\ pc'[w] = l /\ local' = local
      BY <1>1, <2>1 DEF RecordIntent, Keep, Goto, TypeOK
    <3> QED BY <1>0, <3>1 DEF Cleared, FindingsStay, Clearing
  <2> QED BY <1>1, <2>1, HelpersClear DEF RecordIntent, Labels, Clearing
<1>2. CASE Commit(w)
  <2>1. local[w].todo.then \in Fates
    BY DEF TypeOK, Local, Todo
  <2>2. Fates \subseteq Labels \ (Clearing \cup {"addLoad", "addProbe"})
    BY DEF Fates, Labels, Clearing
  <2>3. "failUnsafe" \in Fates
    BY DEF Fates
  <2>4. Goto(w, local[w].todo.then) \/ Goto(w, "failUnsafe")
    BY <1>2 DEF Commit
  <2> QED BY <2>1, <2>2, <2>3, <2>4, GoCleared
<1>3. CASE Send(w)
  BY <1>3, GoCleared DEF Send, Labels, Clearing
<1> QED BY <1>1, <1>2, <1>3

-----------------------------------------------------------------------------
(* Every step keeps the invariant. *)

\* The only step that counts a START is that of a cleared worker.
LEMMA SentKnows ==
  ASSUME TypeOK, StartInv, FindingsStay, [Next]_vars, ClientCheck
  PROVE  \A i \in Items : sent'[i]["START"] > 0 => VerifiedWhole(i)'
<1>1. CASE UNCHANGED sent
  BY <1>1 DEF StartInv, FindingsStay
<1>2. ASSUME NEW w \in Workers, Send(w), NEW i \in Items, sent'[i]["START"] > 0
      PROVE  VerifiedWhole(i)
  <2>1. CASE local[w].item = i /\ local[w].op = "START"
    BY <1>2, <2>1 DEF Send, StartInv, Cleared, Clearing
  <2>2. CASE ~(local[w].item = i /\ local[w].op = "START")
    <3>1. sent'[i]["START"] = sent[i]["START"]
      BY <1>2, <2>2 DEF Send, TypeOK, Ops
    <3> QED BY <1>2, <3>1 DEF StartInv
  <2> QED BY <2>1, <2>2
<1>3. ASSUME NEW w \in Workers, WorkerStep(w) \/ WorkerFault(w)
      PROVE  UNCHANGED sent \/ Send(w)
  BY <1>3, WorkerLeaves DEF WorkerStep, RecordIntent, Commit, SetStarting
<1>4. \/ UNCHANGED sent
      \/ \E w \in Workers : WorkerStep(w) \/ WorkerFault(w)
  BY DEF Next, Execute, ClientStep, RecheckBegins, CheckEnds, Downloaded, UserActs,
         FilesChange, GraceEnds, Retry, Delete, vars
<1> QED BY <1>1, <1>2, <1>3, <1>4 DEF FindingsStay

LEMMA WorkerClears ==
  ASSUME TypeOK, OursInv, StartInv, FindingsStay, NEW w \in Workers,
         WorkerStep(w) \/ WorkerFault(w)
  PROVE  \A v \in Workers : Cleared(v)'
<1>1. Cleared(w)'
  BY PrepareClears, AddClears, VerifyClears, StartClears, WriterClears DEF WorkerStep
<1>2. ASSUME NEW v \in Workers \ {w} PROVE Cleared(v)'
  <2>1. local[v].item \in Items
    BY DEF TypeOK, Local
  <2> QED BY <2>1, OnlyOneMoves, ClearedKept DEF StartInv
<1> QED BY <1>1, <1>2

LEMMA OthersClear ==
  ASSUME TypeOK, StartInv, FindingsStay,
         \/ \E m \in wire : Execute(m)
         \/ ClientStep \/ UserActs
         \/ \E i \in Items : FilesChange(i) \/ GraceEnds(i) \/ Retry(i) \/ Delete(i)
         \/ UNCHANGED vars
  PROVE  \A v \in Workers : Cleared(v)'
<1>1. UNCHANGED pc
  BY DEF Execute, ClientStep, RecheckBegins, CheckEnds, Downloaded, UserActs,
         FilesChange, GraceEnds, Retry, Delete, workerVars, vars
<1>2. ASSUME NEW v \in Workers
      PROVE  local'[v].item = local[v].item /\ local'[v].op = local[v].op
  <2>1. ASSUME NEW m \in wire, NEW r, Answer(m, r)
        PROVE  local'[v].item = local[v].item /\ local'[v].op = local[v].op
    BY <2>1 DEF Answer, TypeOK, Local
  <2>2. ASSUME NEW m \in wire, Execute(m) PROVE \E r : Answer(m, r)
    BY <2>2 DEF Execute
  <2>3. (\E m \in wire : Execute(m)) \/ UNCHANGED local
    BY DEF ClientStep, RecheckBegins, CheckEnds, Downloaded, UserActs,
           FilesChange, GraceEnds, Retry, Delete, workerVars, vars
  <2> QED BY <2>1, <2>2, <2>3
<1>3. \A v \in Workers : local[v].item \in Items
  BY DEF TypeOK, Local
<1> QED BY <1>1, <1>2, <1>3, ClearedKept DEF StartInv

LEMMA StartInit == Init => StartInv
<1> SUFFICES ASSUME Init PROVE StartInv
  OBVIOUS
<1>1. \A w \in Workers : Cleared(w)
  BY DEF Init, Cleared, Clearing
<1>2. \A i \in Items : sent[i]["START"] = 0
  BY DEF Init, Ops
<1> QED BY <1>1, <1>2 DEF StartInv

LEMMA StartNext == TypeOK /\ OursInv /\ StartInv /\ [Next]_vars => StartInv'
<1> SUFFICES ASSUME TypeOK, OursInv, StartInv, [Next]_vars PROVE StartInv'
  OBVIOUS
<1>1. FindingsStay
  BY StepKeepsFindings
<1>2. \A v \in Workers : Cleared(v)'
  BY <1>1, WorkerClears, OthersClear DEF Next
<1>3. UNCHANGED ClientCheck
  OBVIOUS
<1> QED BY <1>1, <1>2, <1>3, SentKnows DEF StartInv

\* No START leaves the process before the verification of that item has been
\* confirmed whole: not by a late worker, after a retry, nor behind a deletion.
THEOREM VerifyBeforeStart == Spec => []StartAfterVerify
<1>1. StartInv => StartAfterVerify
  BY DEF StartInv, StartAfterVerify, VerifiedWhole
<1> QED BY <1>1, InitType, NextType, OursInit, OursNext, StartInit, StartNext, PTL
        DEF Spec
-----------------------------------------------------------------------------
(* With one worker, a recheck that is believed has run *)

OneWorker == \A v, w \in Workers : v = w

\* What a worker is at belongs to an item whose own torrent was made.
Comes(w) ==
  /\ local[w].op = "VERIFY" => local[w].item \in created
  /\ pc[w] = "added" \/ (pc[w] = "commit" /\ local[w].todo.then = "added") => local[w].item \in created

\* The item's row of the VERIFY operation exists.
Asked(i) == journal[i]["VERIFY"].st # "NONE"

\* A torrent is added once, and verified after that.
AddedInv ==
  /\ \A i \in Items : stage[i] # "FILES_MATERIALIZED" \/ Asked(i) => i \in created
  /\ \A w \in Workers : Comes(w)
  /\ \A i \in created : sent[i]["ADD"] > 0
  /\ \A m \in wire : m.op = "ADD" => sent[m.item]["ADD"] > 0 /\ m.item \notin created

-----------------------------------------------------------------------------

LEMMA AtItem ==
  ASSUME TypeOK, NEW w \in Workers
  PROVE  /\ local[w].item \in Items /\ local[w].op \in Ops /\ local[w].seen \in View /\ local[w].todo \in Todo
         /\ pc[w] \in Labels /\ pc \in [Workers -> Labels] /\ local \in [Workers -> Local]
BY DEF TypeOK, Local

LEMMA GoComes ==
  ASSUME TypeOK, NEW w \in Workers, UNCHANGED created, NEW l \in Labels \ {"commit", "added"}, Goto(w, l),
         local'[w].op = "VERIFY" => local'[w].item \in created
  PROVE  Comes(w)'
BY DEF Goto, Comes, TypeOK

LEMMA DecideComes ==
  ASSUME TypeOK, NEW w \in Workers, Comes(w), UNCHANGED created,
         NEW v, NEW m, NEW a, NEW c, NEW t, Decide(w, v, m, a, c, t), t # "added"
  PROVE  Comes(w)'
<1>0. pc \in [Workers -> Labels] /\ local \in [Workers -> Local]
  BY AtItem
<1>1. local'[w].op = local[w].op /\ local'[w].item = local[w].item /\ local'[w].todo.then = t /\ pc'[w] = "commit"
  BY <1>0 DEF Decide, Goto, Local
<1> QED BY <1>1 DEF Comes

LEMMA HelpersCome ==
  ASSUME TypeOK, NEW w \in Workers, Comes(w), UNCHANGED created
  PROVE  /\ \A l \in Labels \ {"commit", "added"} : \A v : Keep(w, l) \/ See(w, v, l) => Comes(w)'
         /\ local[w].item \in created => \A v : Keep(w, "added") \/ See(w, v, "added") => Comes(w)'
         /\ Abandon(w) => Comes(w)'
         /\ \A v, m, a, c, t : Decide(w, v, m, a, c, t) /\ (t = "added" => local[w].item \in created) => Comes(w)'
         /\ \A v, t : Escalate(w, v, t) /\ t # "added" => Comes(w)'
         /\ \A v : Drifted(w, v) => Comes(w)'
         /\ \A v, t : Applied(w, v, t) /\ (t = "added" => local[w].item \in created) => Comes(w)'
<1>0. pc \in [Workers -> Labels] /\ local \in [Workers -> Local]
  BY AtItem
<1>1. \A l, v : Keep(w, l) \/ See(w, v, l) => local'[w].op = local[w].op /\ local'[w].item = local[w].item /\ pc'[w] = l
  BY <1>0 DEF Keep, See, Goto, Local
<1>2. ASSUME Abandon(w) PROVE Comes(w)'
  <2>1. local'[w].op = "ADD" /\ pc'[w] = "idle"
    BY <1>0, <1>2 DEF Abandon, Goto, Fresh
  <2> QED BY <2>1 DEF Comes
<1>3. ASSUME NEW v, NEW m, NEW a, NEW c, NEW t, Decide(w, v, m, a, c, t), t = "added" => local[w].item \in created
      PROVE  Comes(w)'
  <2>1. local'[w].op = local[w].op /\ local'[w].item = local[w].item /\ local'[w].todo.then = t /\ pc'[w] = "commit"
    BY <1>0, <1>3 DEF Decide, Goto, Local
  <2> QED BY <1>3, <2>1 DEF Comes
<1>4. ASSUME NEW l \in Labels \ {"commit", "added"}, NEW v, Keep(w, l) \/ See(w, v, l) PROVE Comes(w)'
  BY <1>1, <1>4 DEF Comes
<1>5. ASSUME local[w].item \in created, NEW v, Keep(w, "added") \/ See(w, v, "added") PROVE Comes(w)'
  BY <1>1, <1>5 DEF Comes
<1>6. \A v, t : Escalate(w, v, t) /\ t # "added" => Comes(w)'
  BY <1>3 DEF Escalate
<1>7. \A v : Drifted(w, v) => Comes(w)'
  BY <1>3 DEF Drifted
<1>8. \A v, t : Applied(w, v, t) /\ (t = "added" => local[w].item \in created) => Comes(w)'
  BY <1>3 DEF Applied
<1> QED BY <1>2, <1>3, <1>4, <1>5, <1>6, <1>7, <1>8

LEMMA PrepareComes ==
  ASSUME TypeOK, OursInv, AddedInv, UNCHANGED created, NEW w \in Workers,
         \/ Advance(w) \/ Reply(w) \/ MarkError(w) \/ Complete(w) \/ WorkerFault(w)
         \/ \E i \in Items : Pick(w, i)
  PROVE  Comes(w)'
<1>0. Comes(w) /\ local \in [Workers -> Local] /\ local[w].item \in Items
  BY AtItem DEF AddedInv
<1>1. CASE Advance(w)
  <2>1. ASSUME NEW o \in Ops, NEW l \in Labels \ {"commit", "added"}, Goto(w, l),
               local' = [local EXCEPT ![w].op = o], o = "VERIFY" => local[w].item \in created
        PROVE  Comes(w)'
    <3>1. local'[w].op = o /\ local'[w].item = local[w].item
      BY <1>0, <2>1 DEF Local
    <3> QED BY <2>1, <3>1, GoComes
  <2>2. stage[local[w].item] = "CLIENT_VERIFYING" => local[w].item \in created
    BY <1>0 DEF AddedInv
  <2> QED BY <1>0, <1>1, <2>1, <2>2, HelpersCome DEF Advance, Labels, Ops
<1>2. CASE Reply(w)
  BY <1>0, <1>2, HelpersCome DEF Reply, Labels
<1>3. CASE MarkError(w) \/ Complete(w)
  BY <1>0, <1>3, HelpersCome DEF MarkError, Complete, Labels
<1>4. CASE WorkerFault(w)
  BY <1>0, <1>4, HelpersCome DEF WorkerFault, PrepareFails, ReplyLost, ReadFails, Crash, Labels
<1>5. ASSUME NEW i \in Items, Pick(w, i) PROVE Comes(w)'
  <2>1. local'[w].op = "ADD"
    BY <1>0, <1>5 DEF Pick, Fresh
  <2> QED BY <1>5, <2>1, GoComes DEF Pick, Labels
<1> QED BY <1>1, <1>2, <1>3, <1>4, <1>5

LEMMA AddComes ==
  ASSUME TypeOK, OursInv, AddedInv, UNCHANGED created, NEW w \in Workers,
         AddLoad(w) \/ AddProbe(w) \/ AddConfirm(w) \/ AddRecover(w) \/ Added(w)
  PROVE  Comes(w)'
<1>0. Comes(w) /\ local \in [Workers -> Local] /\ local[w].item \in Items
  BY AtItem DEF AddedInv
<1>1. AddSafe(Observe(local[w].item)) => local[w].item \in created
  BY <1>0, OwnedIsOurs DEF AddSafe, Owned, ClientState
<1>2. CASE AddLoad(w)
  <2>1. ASSUME NEW st, Goto(w, "addProbe"), local' = [local EXCEPT ![w].was = st] PROVE Comes(w)'
    <3>1. local'[w].op = local[w].op /\ local'[w].item = local[w].item
      BY <1>0, <2>1 DEF Local
    <3> QED BY <1>0, <2>1, <3>1, GoComes DEF Labels, Comes
  <2> QED BY <1>0, <1>2, <2>1, HelpersCome DEF AddLoad, Labels
<1>3. CASE AddProbe(w)
  BY <1>0, <1>1, <1>3, HelpersCome DEF AddProbe, Labels
<1>4. CASE AddConfirm(w) \/ AddRecover(w)
  BY <1>0, <1>1, <1>4, HelpersCome DEF AddConfirm, AddRecover
<1>5. CASE Added(w)
  <2>1. ASSUME Goto(w, "startProbe"), local' = [local EXCEPT ![w].ver = @ + 1, ![w].op = "START"]
        PROVE  Comes(w)'
    <3>1. local'[w].op = "START"
      BY <1>0, <2>1 DEF Local
    <3> QED BY <2>1, <3>1, GoComes DEF Labels
  <2> QED BY <1>0, <1>5, <2>1, HelpersCome DEF Added, Labels
<1> QED BY <1>2, <1>3, <1>4, <1>5

LEMMA VerifyComes ==
  ASSUME TypeOK, OursInv, AddedInv, UNCHANGED created, NEW w \in Workers,
         \/ VerifyProbe(w) \/ VerifyLoad(w) \/ VerifyConfirm(w) \/ VerifyPoll(w)
         \/ VerifyConclude(w) \/ VerifyRecover(w) \/ Verified(w)
  PROVE  Comes(w)'
<1>0. Comes(w) /\ local \in [Workers -> Local]
  BY AtItem DEF AddedInv
<1>1. CASE VerifyProbe(w) \/ VerifyConfirm(w) \/ VerifyPoll(w)
  <2>1. CASE VerifyProbe(w)
    BY <1>0, <2>1, HelpersCome DEF VerifyProbe, Labels
  <2>2. CASE VerifyConfirm(w)
    <3> DEFINE v == Observe(local[w].item)
    <3>1. ASSUME Decide(w, v, "snapshot", FALSE, v = "checking", "conclude") PROVE Comes(w)'
      BY <1>0, <3>1, DecideComes
    <3> QED BY <1>0, <2>2, <3>1, HelpersCome DEF VerifyConfirm, Labels
  <2>3. CASE VerifyPoll(w)
    <3> DEFINE v == Observe(local[w].item)
    <3>1. ASSUME Decide(w, v, "snapshot", FALSE, v = "checking", "conclude") PROVE Comes(w)'
      BY <1>0, <3>1, DecideComes
    <3> QED BY <1>0, <2>3, <3>1, HelpersCome DEF VerifyPoll, Labels
  <2> QED BY <1>1, <2>1, <2>2, <2>3
<1>2. CASE VerifyLoad(w)
  BY <1>0, <1>2, HelpersCome DEF VerifyLoad, AwaitRecheck, Labels
<1>3. CASE VerifyConclude(w) \/ VerifyRecover(w)
  BY <1>0, <1>3, HelpersCome DEF VerifyConclude, VerifyRecover, Labels
<1>4. CASE Verified(w)
  <2>1. ASSUME Goto(w, "startProbe"), local' = [local EXCEPT ![w].ver = @ + 1, ![w].op = "START"]
        PROVE  Comes(w)'
    <3>1. local'[w].op = "START"
      BY <1>0, <2>1 DEF Local
    <3> QED BY <2>1, <3>1, GoComes DEF Labels
  <2> QED BY <1>0, <1>4, <2>1, HelpersCome DEF Verified, Labels
<1> QED BY <1>1, <1>2, <1>3, <1>4

LEMMA StartComes ==
  ASSUME TypeOK, OursInv, AddedInv, UNCHANGED created, NEW w \in Workers,
         \/ StartProbe(w) \/ StartLoad(w) \/ SetStarting(w) \/ StartConfirm(w) \/ StartRecover(w)
         \/ RecordIntent(w) \/ Commit(w) \/ Send(w)
  PROVE  Comes(w)'
<1>0. Comes(w) /\ local \in [Workers -> Local]
  BY AtItem DEF AddedInv
<1>1. CASE StartProbe(w) \/ StartConfirm(w) \/ StartRecover(w)
  BY <1>0, <1>1, HelpersCome DEF StartProbe, StartConfirm, StartRecover, Labels
<1>2. CASE StartLoad(w)
  BY <1>0, <1>2, HelpersCome DEF StartLoad, Labels
<1>3. CASE SetStarting(w)
  <2>1. ASSUME Goto(w, "rpc"), local' = [local EXCEPT ![w].ver = @ + 1] PROVE Comes(w)'
    <3>1. local'[w].op = local[w].op /\ local'[w].item = local[w].item
      BY <1>0, <2>1 DEF Local
    <3> QED BY <1>0, <2>1, <3>1, GoComes DEF Labels, Comes
  <2> QED BY <1>0, <1>3, <2>1, HelpersCome DEF SetStarting
<1>4. CASE RecordIntent(w)
  BY <1>0, <1>4, HelpersCome DEF RecordIntent, Labels
<1>5. CASE Commit(w)
  <2>1. local'[w].op = local[w].op /\ local'[w].item = local[w].item
    BY <1>0, <1>5 DEF Commit, Local
  <2>2. local[w].todo.then \in Labels \ {"commit"} /\ "failUnsafe" \in Labels
    BY DEF TypeOK, Local, Todo, Fates, Labels
  <2>3. CASE Goto(w, "failUnsafe")
    BY <1>0, <1>5, <2>1, <2>2, <2>3, GoComes DEF Comes
  <2>4. CASE Goto(w, local[w].todo.then)
    <3>1. pc'[w] = local[w].todo.then /\ pc[w] = "commit"
      BY <1>5, <2>4, AtItem DEF Goto, Commit
    <3> QED BY <1>0, <2>1, <2>2, <3>1 DEF Comes
  <2> QED BY <1>5, <2>3, <2>4 DEF Commit
<1>6. CASE Send(w)
  <2>1. local'[w].op = local[w].op /\ local'[w].item = local[w].item
    BY <1>0, <1>6 DEF Send, Local
  <2> QED BY <1>0, <1>6, <2>1, GoComes DEF Send, Labels, Comes
<1> QED BY <1>1, <1>2, <1>3, <1>4, <1>5, <1>6

\* The stage moves on only for a torrent that was made.
LEMMA StageComes ==
  ASSUME TypeOK, AddedInv, NEW w \in Workers, WorkerStep(w) \/ WorkerFault(w),
         NEW i \in Items, stage'[i] # "FILES_MATERIALIZED"
  PROVE  i \in created
<1>0. Comes(w) /\ local[w].item \in Items
  BY AtItem DEF AddedInv
<1>1. ASSUME NEW from, NEW to, NEW st, SetStage(w, from, to, st),
             from # "FILES_MATERIALIZED" \/ local[w].item \in created
      PROVE  i \in created
  BY <1>0, <1>1 DEF SetStage, AddedInv, TypeOK
<1>2. CASE UNCHANGED stage
  BY <1>2 DEF AddedInv
<1>3. CASE Added(w)
  BY <1>0, <1>1, <1>2, <1>3 DEF Added, Comes, itemVars
<1>4. CASE Verified(w) \/ SetStarting(w)
  BY <1>1, <1>2, <1>4 DEF Verified, SetStarting, itemVars
<1>5. CASE Complete(w)
  BY <1>0, <1>2, <1>5 DEF Complete, itemVars, AddedInv, TypeOK
<1>6. Added(w) \/ Verified(w) \/ SetStarting(w) \/ Complete(w) \/ UNCHANGED stage
  BY DEF WorkerStep, WorkerFault, Pick, Advance, RecordIntent, Commit, Send, Reply, MarkError, AddLoad, AddProbe,
         AddConfirm, AddRecover, VerifyProbe, VerifyLoad, VerifyConfirm, VerifyPoll, VerifyConclude, VerifyRecover,
         StartProbe, StartLoad, StartConfirm, StartRecover, PrepareFails, ReplyLost, ReadFails, Crash, OnlyWorker,
         itemVars
<1> QED BY <1>2, <1>3, <1>4, <1>5, <1>6

\* A verification is asked for only by the worker that is at it; a row stays.
LEMMA AskedBy ==
  ASSUME TypeOK, NEW w \in Workers, WorkerStep(w) \/ WorkerFault(w), NEW i \in Items
  PROVE  /\ Asked(i) => Asked(i)'
         /\ Asked(i)' => Asked(i) \/ (i = local[w].item /\ local[w].op = "VERIFY")
<1>0. local[w].item \in Items /\ local[w].op \in Ops /\ "VERIFY" \in Ops
  BY AtItem DEF Ops
<1>1. CASE UNCHANGED journal
  BY <1>1 DEF Asked
<1>2. ASSUME NEW row, row.st # "NONE", journal' = [journal EXCEPT ![local[w].item][local[w].op] = row],
             journal[local[w].item][local[w].op].st # "NONE" \/ (local[w].op # "VERIFY") \/ RecordIntent(w)
      PROVE  /\ Asked(i) => Asked(i)'
             /\ Asked(i)' => Asked(i) \/ (i = local[w].item /\ local[w].op = "VERIFY")
  BY <1>0, <1>2 DEF Asked, TypeOK
<1>3. CASE RecordIntent(w)
  <2>1. [NoRow EXCEPT !.st = "INTENT_RECORDED", !.before = local[w].seen].st # "NONE"
    BY DEF NoRow
  <2> QED BY <1>1, <1>2, <1>3, <2>1 DEF RecordIntent
<1>4. CASE Commit(w)
  <2>1. ASSUME Writes(local[w].todo.mark, Visible(local[w].item, local[w].op).st)
        PROVE  /\ journal[local[w].item][local[w].op].st # "NONE"
               /\ Marked(Visible(local[w].item, local[w].op), local[w].todo).st # "NONE"
    <3>1. Visible(local[w].item, local[w].op) \in Row /\ local[w].todo.whole \in BOOLEAN
          /\ local[w].todo.chk \in BOOLEAN
      BY <1>0, VisibleType, AtItem DEF Todo
    <3>2. Visible(local[w].item, local[w].op).st \in {"INTENT_RECORDED", "APPLIED"}
      BY <2>1 DEF Writes
    <3>3. Visible(local[w].item, local[w].op) = journal[local[w].item][local[w].op]
      BY <3>2 DEF Visible, NoRow
    <3> QED BY <3>1, <3>2, <3>3, MarkedRow
  <2> QED BY <1>1, <1>2, <1>4, <2>1 DEF Commit
<1>5. UNCHANGED journal \/ RecordIntent(w) \/ Commit(w)
  BY WorkerLeaves DEF WorkerStep, Send, SetStarting
<1> QED BY <1>1, <1>3, <1>4, <1>5

\* A request on its way is counted, and an ADD that made a torrent is not on its way.
LEMMA WireComes ==
  ASSUME TypeOK, HolderInv, AddedInv, NEW w \in Workers, WorkerStep(w) \/ WorkerFault(w)
  PROVE  /\ \A i \in created' : sent'[i]["ADD"] > 0
         /\ \A m \in wire' : m.op = "ADD" => sent'[m.item]["ADD"] > 0 /\ m.item \notin created'
<1>0. created' = created /\ created \subseteq Items /\ wire \subseteq [op : Ops, item : Items, by : Workers]
  BY WorkerMakesNone DEF TypeOK
<1>1. CASE Send(w)
  <2> DEFINE i == local[w].item  o == local[w].op
  <2>0. i \in Items /\ o \in Ops /\ Holder(w, i, o)
    BY <1>1, AtItem DEF Send, Holder
  <2>1. sent[i][o] = 0
    BY <2>0 DEF HolderInv
  <2>2. \A j \in Items : \A p \in Ops : sent'[j][p] = IF j = i /\ p = o THEN sent[j][p] + 1 ELSE sent[j][p]
    BY <1>1, <2>0 DEF Send, TypeOK
  <2>3. \A j \in Items : \A p \in Ops : sent[j][p] > 0 => sent'[j][p] > 0
    BY <2>2 DEF TypeOK
  <2>4. o = "ADD" => i \notin created /\ sent'[i]["ADD"] > 0
    BY <2>0, <2>1, <2>2 DEF AddedInv
  <2>5. wire' = wire \cup {[op |-> o, item |-> i, by |-> w]}
    BY <1>1 DEF Send
  <2>6. "ADD" \in Ops
    BY DEF Ops
  <2> HIDE DEF i, o
  <2>7. ASSUME NEW m \in wire', m.op = "ADD" PROVE sent'[m.item]["ADD"] > 0 /\ m.item \notin created'
    <3>1. CASE m \in wire
      BY <1>0, <2>3, <2>6, <2>7, <3>1 DEF AddedInv
    <3>2. CASE m = [op |-> o, item |-> i, by |-> w]
      BY <1>0, <2>4, <2>7, <3>2
    <3> QED BY <2>5, <3>1, <3>2
  <2> QED BY <1>0, <2>3, <2>6, <2>7 DEF AddedInv
<1>2. CASE ~Send(w)
  <2>1. UNCHANGED <<sent, wire>>
    BY <1>2 DEF WorkerStep, WorkerFault, Pick, Advance, RecordIntent, Commit, Reply, MarkError, AddLoad, AddProbe,
         AddConfirm, AddRecover, Added, VerifyProbe, VerifyLoad, VerifyConfirm, VerifyPoll, VerifyConclude,
         VerifyRecover,
         Verified, StartProbe, StartLoad, SetStarting, StartConfirm, StartRecover, Complete, PrepareFails, ReplyLost,
         ReadFails, Crash, OnlyWorker, clientVars
  <2> QED BY <1>0, <2>1 DEF AddedInv
<1> QED BY <1>1, <1>2

LEMMA WorkerComes ==
  ASSUME TypeOK, HolderInv, OursInv, AddedInv, NEW w \in Workers, WorkerStep(w) \/ WorkerFault(w)
  PROVE  AddedInv'
<1>0. created' = created
  BY WorkerMakesNone
<1>1. Comes(w)'
  BY <1>0, PrepareComes, AddComes, VerifyComes, StartComes DEF WorkerStep
<1>2. ASSUME NEW v \in Workers \ {w} PROVE Comes(v)'
  BY <1>0, OnlyOneMoves DEF AddedInv, Comes
<1>3. ASSUME NEW i \in Items, stage'[i] # "FILES_MATERIALIZED" \/ Asked(i)' PROVE i \in created
  BY <1>3, StageComes, AskedBy DEF AddedInv, Comes
<1> QED BY <1>0, <1>1, <1>2, <1>3, WireComes DEF AddedInv

\* What happens outside changes no worker's place and no finding of a row.
OthersStep ==
  \/ \E m \in wire : Execute(m)
  \/ ClientStep \/ UserActs
  \/ \E i \in Items : FilesChange(i) \/ GraceEnds(i) \/ Retry(i) \/ Delete(i)
  \/ UNCHANGED vars

LEMMA OthersKeep ==
  ASSUME TypeOK, OthersStep
  PROVE  /\ UNCHANGED <<pc, sent, stage>>
         /\ \A v \in Workers : /\ local'[v].item = local[v].item /\ local'[v].op = local[v].op
                               /\ local'[v].seen = local[v].seen /\ local'[v].todo = local[v].todo
         /\ (\E m \in wire : Execute(m)) \/ UNCHANGED <<local, wire, created>>
         /\ \A i \in Items : LET r == journal[i]["VERIFY"]  s == journal'[i]["VERIFY"]
                             IN  s.st = r.st /\ s.ack = r.ack /\ s.chk = r.chk /\ s.whole = r.whole
                             /\ s.before = r.before
<1>1. UNCHANGED <<pc, sent, stage>>
  BY DEF OthersStep, Execute, ClientStep, RecheckBegins, CheckEnds, Downloaded, UserActs,
         FilesChange, GraceEnds, Retry, Delete, workerVars, itemVars, vars
<1>2. (\E m \in wire : Execute(m)) \/ UNCHANGED <<local, wire, created>>
  BY DEF OthersStep, ClientStep, RecheckBegins, CheckEnds, Downloaded, UserActs,
         FilesChange, GraceEnds, Retry, Delete, workerVars, clientVars, vars
<1>3. ASSUME NEW m \in wire, NEW r, Answer(m, r), NEW v \in Workers
      PROVE  /\ local'[v].item = local[v].item /\ local'[v].op = local[v].op
             /\ local'[v].seen = local[v].seen /\ local'[v].todo = local[v].todo
  BY <1>3 DEF Answer, TypeOK, Local
<1>4. ASSUME NEW m \in wire, Execute(m) PROVE \E r : Answer(m, r)
  BY <1>4 DEF Execute
<1>5. ASSUME NEW i \in Items, GraceEnds(i), NEW j \in Items
      PROVE  LET r == journal[j]["VERIFY"]  s == journal'[j]["VERIFY"]
             IN  s.st = r.st /\ s.ack = r.ack /\ s.chk = r.chk /\ s.whole = r.whole /\ s.before = r.before
  BY <1>5 DEF GraceEnds, TypeOK, Ops, Row
<1>6. (\E i \in Items : GraceEnds(i)) \/ UNCHANGED journal
  BY DEF OthersStep, Execute, ClientStep, RecheckBegins, CheckEnds, Downloaded, UserActs, FilesChange, Retry, Delete,
     vars
<1> QED BY <1>1, <1>2, <1>3, <1>4, <1>5, <1>6

LEMMA OthersCome ==
  ASSUME TypeOK, OneWorker, AddedInv, OthersStep
  PROVE  AddedInv'
<1>1. ASSUME created \subseteq created'
      PROVE  /\ \A i \in Items : stage'[i] # "FILES_MATERIALIZED" \/ Asked(i)' => i \in created'
             /\ \A v \in Workers : Comes(v)'
  BY <1>1, OthersKeep DEF AddedInv, Comes, Asked
<1>2. CASE UNCHANGED <<local, wire, created>>
  BY <1>1, <1>2, OthersKeep DEF AddedInv
<1>3. ASSUME NEW m \in wire, Execute(m) PROVE AddedInv'
  <2>0. m \in [op : Ops, item : Items, by : Workers] /\ wire \subseteq [op : Ops, item : Items, by : Workers]
        /\ wire' = wire \ {m} /\ sent' = sent
    BY <1>3 DEF TypeOK, Execute
  <2>1. CASE created' = created
    BY <1>1, <2>0, <2>1 DEF AddedInv
  <2>2. CASE m.op = "ADD" /\ created' = created \cup {m.item}
    <3>1. ASSUME NEW n \in wire', n.op = "ADD" PROVE n.item \notin created'
      <4>1. n \in [op : Ops, item : Items, by : Workers] /\ n # m /\ n.op = m.op
        BY <2>0, <2>2, <3>1
      <4>2. n.by = m.by
        BY <2>0, <4>1 DEF OneWorker
      <4>3. n.item # m.item
        BY <2>0, <4>1, <4>2
      <4> QED BY <2>0, <2>2, <3>1, <4>3 DEF AddedInv
    <3> QED BY <1>1, <2>0, <2>2, <3>1 DEF AddedInv
  <2>3. \/ created' = created
        \/ m.op = "ADD" /\ created' = created \cup {m.item}
    BY <1>3 DEF Execute
  <2> QED BY <2>1, <2>2, <2>3
<1> QED BY <1>2, <1>3, OthersKeep

LEMMA AddedInit == Init => AddedInv
<1> SUFFICES ASSUME Init PROVE AddedInv
  OBVIOUS
<1>1. \A w \in Workers : pc[w] = "idle" /\ local[w].op = "ADD"
  BY AnyItemType DEF Init, Fresh
<1>2. created = {} /\ wire = {} /\ \A i \in Items : stage[i] = "FILES_MATERIALIZED" /\ ~Asked(i)
  BY DEF Init, Asked, NoRow, Ops
<1> QED BY <1>1, <1>2 DEF AddedInv, Comes

LEMMA AddedNext == OneWorker /\ TypeOK /\ HolderInv /\ OursInv /\ AddedInv /\ [Next]_vars => AddedInv'
BY WorkerComes, OthersCome DEF Next, OthersStep

-----------------------------------------------------------------------------
(* What the client has vouched for *)

\* Since the intent the item's torrent has been checked, or is not complete and will
\* have to be; since the intent the client has vouched for it.
Ran(i) == Asked(i) /\ (torrent.owner = i => torrent.attested \/ torrent.st \in {"checking", "partial", "downloading"})
Vouched(i) == Asked(i) /\ (torrent.owner = i => torrent.attested)

\* What the row of a verification says of the client.
RowSays(i) ==
  LET r == journal[i]["VERIFY"] IN
  /\ r.chk \/ (~QB /\ r.ack) => Ran(i)
  /\ r.whole /\ r.before = "complete" => Vouched(i)

\* What the worker at a verification has seen since the intent.
SeesRun(w) ==
  LET i == local[w].item  r == journal[i]["VERIFY"]  v == local[w].seen  t == local[w].todo IN
  /\ pc[w] = "verifyLoad" /\ Asked(i) =>
       /\ v = "checking" => Ran(i)
       /\ v = "complete" /\ (r.chk \/ (~QB /\ r.ack)) => Vouched(i)
  /\ local[w].op = "VERIFY" =>
       /\ pc[w] \in {"rpc", "reply", "recover", "confirm", "poll", "conclude"} => Asked(i)
       /\ pc[w] = "reply" /\ local[w].reply = "ok" /\ ~QB => Ran(i)
       /\ pc[w] = "poll" => QB
       /\ pc[w] \in {"confirm", "conclude"} /\ ~QB => Ran(i)
       /\ pc[w] = "conclude" /\ ~QB /\ v = "complete" => Vouched(i)
       /\ pc[w] = "commit" /\ t.mark \in {"applied", "snapshot"} => Asked(i) /\ (~QB => Ran(i))
       /\ pc[w] = "commit" /\ t.mark = "snapshot" => /\ t.chk => Ran(i)
                                                     /\ t.then = "conclude" /\ ~QB /\ v = "complete" => Vouched(i)
       /\ pc[w] = "commit" /\ t.mark = "applied" /\ t.whole /\ r.before = "complete" => Vouched(i)
       /\ pc[w] = "commit" /\ t.then = "conclude" => t.mark = "snapshot"

RanInv == (\A i \in Items : RowSays(i)) /\ (\A w \in Workers : SeesRun(w))

\* A torrent that has run a check since the intent stays so, as it is never made again.
LEMMA VouchStays ==
  ASSUME TypeOK, AddedInv, [Next]_vars, NEW i \in Items
  PROVE  (Asked(i) => Asked(i)') /\ (Ran(i) => Ran(i)') /\ (Vouched(i) => Vouched(i)')
<1>1. Asked(i) => Asked(i)'
  BY AskedBy, OthersKeep DEF Next, OthersStep, Asked
<1>2. ASSUME Asked(i) PROVE (Ran(i) => Ran(i)') /\ (Vouched(i) => Vouched(i)')
  <2>0. Asked(i)' /\ i \in created
    BY <1>1, <1>2 DEF AddedInv
  <2>1. CASE UNCHANGED torrent
    BY <2>0, <2>1 DEF Ran, Vouched
  <2>2. CASE torrent'.owner # i
    BY <2>0, <2>2 DEF Ran, Vouched
  <2>3. ASSUME NEW st, torrent' = [torrent EXCEPT !.st = st],
               st \in {"checking", "partial", "downloading"} \/ torrent.st \in {"complete", "seeding"}
        PROVE  (Ran(i) => Ran(i)') /\ (Vouched(i) => Vouched(i)')
    BY <2>0, <2>3 DEF Ran, Vouched, TypeOK
  <2>4. ASSUME NEW m \in wire, Execute(m) PROVE (Ran(i) => Ran(i)') /\ (Vouched(i) => Vouched(i)')
    <3>1. ASSUME m.op = "ADD", NEW st, torrent' = [NoTorrent EXCEPT !.owner = m.item, !.st = st]
          PROVE  torrent'.owner # i
      BY <2>0, <3>1 DEF NoTorrent, AddedInv
    <3>2. CASE torrent' = [torrent EXCEPT !.queued = TRUE]
      BY <2>0, <3>2 DEF Ran, Vouched, TypeOK
    <3>3. CASE torrent' = [torrent EXCEPT !.st = AfterStart(@)]
      BY <2>0, <3>3 DEF Ran, Vouched, TypeOK, AfterStart
    <3> QED BY <2>1, <2>2, <2>3, <2>4, <3>1, <3>2, <3>3 DEF Execute
  <2>5. CASE RecheckBegins
    BY <2>0, <2>5 DEF RecheckBegins, Ran, Vouched, TypeOK
  <2>6. CASE CheckEnds \/ Downloaded
    <3>1. torrent.owner = i => AfterVerifyIntent
      BY <1>2 DEF AfterVerifyIntent, Asked
    <3> QED BY <2>0, <2>6, <3>1 DEF CheckEnds, Downloaded, Ran, Vouched, TypeOK
  <2>7. CASE UserActs
    <3>1. NoTorrent.owner # i /\ \A st : [NoTorrent EXCEPT !.owner = "foreign", !.st = st].owner # i
      BY ItemsAssumption DEF NoTorrent
    <3> QED BY <2>2, <2>3, <2>7, <3>1 DEF UserActs
  <2>8. ASSUME NEW w \in Workers, WorkerStep(w) \/ WorkerFault(w) PROVE UNCHANGED torrent
    BY <2>8, WorkerMakesNone
  <2>9. (\E j \in Items : FilesChange(j) \/ GraceEnds(j) \/ Retry(j) \/ Delete(j)) \/ UNCHANGED vars
          => UNCHANGED torrent
    BY DEF FilesChange, GraceEnds, Retry, Delete, clientVars, vars
  <2> QED BY <2>1, <2>4, <2>5, <2>6, <2>7, <2>8, <2>9 DEF Next, ClientStep
<1> QED BY <1>1, <1>2 DEF Ran, Vouched

-----------------------------------------------------------------------------
(* What the worker comes to know *)

Busy == {"verifyLoad", "rpc", "reply", "recover", "confirm", "poll", "conclude", "commit"}

LEMMA QuietRuns == ASSUME NEW w, pc'[w] \notin Busy PROVE SeesRun(w)'
BY DEF SeesRun, Busy

LEMMA OtherRuns == ASSUME NEW w, pc'[w] # "verifyLoad", local'[w].op # "VERIFY" PROVE SeesRun(w)'
BY DEF SeesRun

LEMMA HelpersRun ==
  ASSUME TypeOK, NEW w \in Workers
  PROVE  /\ \A l \in Labels \ Busy : Goto(w, l) => SeesRun(w)'
         /\ \A l \in Labels \ Busy : \A v : Keep(w, l) \/ See(w, v, l) => SeesRun(w)'
         /\ Abandon(w) => SeesRun(w)'
         /\ local[w].op # "VERIFY" => \A v, m, a, c, t : Decide(w, v, m, a, c, t) => SeesRun(w)'
         /\ \A v, t : Escalate(w, v, t) /\ t # "conclude" => SeesRun(w)'
         /\ \A v : Drifted(w, v) => SeesRun(w)'
         /\ local[w].op # "VERIFY" => \A v, t : Applied(w, v, t) => SeesRun(w)'
<1>0. pc \in [Workers -> Labels] /\ local \in [Workers -> Local]
  BY AtItem
<1>1. ASSUME NEW l \in Labels \ Busy, Goto(w, l) PROVE SeesRun(w)'
  BY <1>0, <1>1, QuietRuns DEF Goto
<1>2. Abandon(w) => Goto(w, "idle") /\ "idle" \in Labels \ Busy
  BY DEF Abandon, Labels, Busy
<1>3. ASSUME NEW v, NEW m, NEW a, NEW c, NEW t, Decide(w, v, m, a, c, t)
      PROVE  /\ pc'[w] = "commit" /\ local'[w].op = local[w].op
             /\ local'[w].todo.mark = m /\ local'[w].todo.then = t
  BY <1>0, <1>3 DEF Decide, Goto, Local
<1>4. ASSUME local[w].op # "VERIFY", NEW v, NEW m, NEW a, NEW c, NEW t, Decide(w, v, m, a, c, t) PROVE SeesRun(w)'
  BY <1>3, <1>4, OtherRuns
<1>5. ASSUME pc'[w] = "commit", local'[w].todo.mark \notin {"applied", "snapshot"}, local'[w].todo.then # "conclude"
      PROVE  SeesRun(w)'
  BY <1>5 DEF SeesRun
<1>6. ASSUME NEW v, NEW t, Escalate(w, v, t), t # "conclude" PROVE SeesRun(w)'
  <2>1. pc'[w] = "commit" /\ local'[w].todo.mark = "reconcile" /\ local'[w].todo.then = t
    BY <1>0, <1>6 DEF Escalate, Decide, Goto, Local
  <2> QED BY <1>5, <1>6, <2>1
<1>7. ASSUME NEW v, Drifted(w, v) PROVE SeesRun(w)'
  <2>1. pc'[w] = "commit" /\ local'[w].todo.mark = "drift" /\ local'[w].todo.then = "failUnsafe"
    BY <1>0, <1>7 DEF Drifted, Decide, Goto, Local
  <2> QED BY <1>5, <2>1
<1>8. local[w].op # "VERIFY" => \A v, t : Applied(w, v, t) => SeesRun(w)'
  BY <1>4 DEF Applied
<1> QED BY <1>1, <1>2, <1>4, <1>6, <1>7, <1>8 DEF Keep, See

LEMMA DecideRuns ==
  ASSUME TypeOK, NEW w \in Workers, NEW i \in Items, i = local[w].item, UNCHANGED <<journal, torrent>>,
         NEW v, NEW m, NEW a, NEW c, NEW t, Decide(w, v, m, a, c, t),
         Asked(i), ~QB => Ran(i), m \in {"applied", "snapshot"},
         m = "snapshot" /\ c => Ran(i),
         t = "conclude" => m = "snapshot" /\ (~QB /\ v = "complete" => Vouched(i)),
         m = "applied" /\ a /\ journal[i]["VERIFY"].before = "complete" => Vouched(i)
  PROVE  SeesRun(w)'
<1>0. pc \in [Workers -> Labels] /\ local \in [Workers -> Local]
  BY AtItem
<1>1. /\ pc'[w] = "commit" /\ local'[w].op = local[w].op /\ local'[w].item = i /\ local'[w].seen = v
      /\ local'[w].todo.mark = m /\ local'[w].todo.then = t /\ local'[w].todo.whole = a /\ local'[w].todo.chk = c
  BY <1>0 DEF Decide, Goto, Local
<1>2. Asked(i)' /\ (~QB => Ran(i)') /\ (Ran(i) => Ran(i)') /\ (Vouched(i) => Vouched(i)')
  BY DEF Asked, Ran, Vouched
<1> QED BY <1>1, <1>2 DEF SeesRun, Ran, Vouched, Asked

LEMMA PrepareRuns ==
  ASSUME TypeOK, RanInv, NEW w \in Workers,
         \/ Advance(w) \/ Reply(w) \/ MarkError(w) \/ Complete(w) \/ WorkerFault(w)
         \/ \E i \in Items : Pick(w, i)
  PROVE  SeesRun(w)'
<1>0. pc \in [Workers -> Labels] /\ local \in [Workers -> Local] /\ SeesRun(w)
  BY AtItem DEF RanInv
<1>1. CASE Advance(w)
  BY <1>1, HelpersRun DEF Advance, Labels, Busy
<1>2. CASE Reply(w)
  <2>1. ASSUME Keep(w, "confirm"), local[w].reply = "ok" PROVE SeesRun(w)'
    BY <1>0, <1>2, <2>1 DEF Reply, Keep, Goto, OnlyWorker, clientVars, SeesRun, Ran, Vouched, Asked
  <2>2. ASSUME Keep(w, "recover") PROVE SeesRun(w)'
    BY <1>0, <1>2, <2>2 DEF Reply, Keep, Goto, OnlyWorker, clientVars, SeesRun, Ran, Vouched, Asked
  <2> QED BY <1>2, <2>1, <2>2, HelpersRun DEF Reply
<1>3. CASE MarkError(w) \/ Complete(w)
  BY <1>3, HelpersRun DEF MarkError, Complete, Labels, Busy
<1>4. CASE WorkerFault(w)
  <2>1. ASSUME ReplyLost(w), Keep(w, "recover") PROVE SeesRun(w)'
    BY <1>0, <2>1 DEF ReplyLost, Keep, Goto, OnlyWorker, clientVars, SeesRun, Ran, Vouched, Asked
  <2> QED BY <1>4, <2>1, HelpersRun DEF WorkerFault, PrepareFails, ReplyLost, ReadFails, Crash, Labels, Busy
<1>5. ASSUME NEW i \in Items, Pick(w, i) PROVE SeesRun(w)'
  BY <1>5, HelpersRun DEF Pick, Labels, Busy
<1> QED BY <1>1, <1>2, <1>3, <1>4, <1>5

LEMMA AddRuns ==
  ASSUME TypeOK, OursInv, StartInv, NEW w \in Workers,
         \/ AddLoad(w) \/ AddProbe(w) \/ AddConfirm(w) \/ AddRecover(w) \/ Added(w)
         \/ StartProbe(w) \/ StartLoad(w) \/ StartConfirm(w) \/ StartRecover(w)
  PROVE  SeesRun(w)'
<1>0. Suits(pc[w], local[w].op) /\ Cleared(w)
  BY DEF OursInv, Knows, StartInv
<1>1. CASE AddLoad(w) \/ Added(w)
  BY <1>1, HelpersRun DEF AddLoad, Added, Labels, Busy
<1>2. CASE AddProbe(w)
  <2>1. local[w].op # "VERIFY"
    BY <1>0, <1>2 DEF AddProbe, Cleared
  <2> QED BY <1>2, <2>1, HelpersRun DEF AddProbe, Labels, Busy
<1>3. CASE AddConfirm(w) \/ AddRecover(w)
  BY <1>3, HelpersRun DEF AddConfirm, AddRecover
<1>4. CASE StartProbe(w)
  BY <1>4, HelpersRun DEF StartProbe, Labels, Busy
<1>5. CASE StartLoad(w)
  <2>1. local[w].op # "VERIFY"
    BY <1>0, <1>5 DEF StartLoad, Suits
  <2> QED BY <1>5, <2>1, HelpersRun DEF StartLoad, Labels, Busy
<1>6. CASE StartConfirm(w) \/ StartRecover(w)
  BY <1>6, HelpersRun DEF StartConfirm, StartRecover
<1> QED BY <1>1, <1>2, <1>3, <1>4, <1>5, <1>6

\* A torrent seen complete after its check has been vouched for.
LEMMA SeenVouched ==
  ASSUME NEW i, Asked(i)
  PROVE  /\ Observe(i) = "checking" => Ran(i)
         /\ Observe(i) = "complete" /\ Ran(i) => Vouched(i)
BY DEF Observe, Ran, Vouched

LEMMA VerifyRuns ==
  ASSUME TypeOK, OursInv, RanInv, NEW w \in Workers,
         \/ VerifyProbe(w) \/ VerifyLoad(w) \/ VerifyConfirm(w) \/ VerifyPoll(w)
         \/ VerifyConclude(w) \/ VerifyRecover(w) \/ Verified(w)
  PROVE  SeesRun(w)'
<1>0. /\ pc \in [Workers -> Labels] /\ local \in [Workers -> Local] /\ SeesRun(w) /\ RowSays(local[w].item)
      /\ Suits(pc[w], local[w].op) /\ local[w].item \in Items
  BY AtItem DEF RanInv, OursInv, Knows
<1> SUFFICES ASSUME NEW i \in Items, i = local[w].item PROVE SeesRun(w)'
  BY <1>0
<1> DEFINE r == journal[i]["VERIFY"]  v == Observe(i)
<1>1. CASE VerifyProbe(w)
  <2>1. ASSUME See(w, Observe(i), "verifyLoad") PROVE SeesRun(w)'
    <3>1. pc'[w] = "verifyLoad" /\ local'[w].op = local[w].op /\ local'[w].item = i /\ local'[w].seen = Observe(i)
      BY <1>0, <2>1 DEF See, Goto, Local
    <3>2. UNCHANGED <<journal, torrent>>
      BY <1>1 DEF VerifyProbe, OnlyWorker, clientVars
    <3>3. Asked(i) => /\ Observe(i) = "checking" => Ran(i)
                      /\ Observe(i) = "complete" /\ (r.chk \/ (~QB /\ r.ack)) => Vouched(i)
      BY <1>0, SeenVouched DEF RowSays
    <3>4. (Asked(i)' <=> Asked(i)) /\ (Ran(i)' <=> Ran(i)) /\ (Vouched(i)' <=> Vouched(i))
      BY <3>2 DEF Asked, Ran, Vouched
    <3>5. Asked(i)' => /\ local'[w].seen = "checking" => Ran(i)'
                       /\ local'[w].seen = "complete"
                          /\ (journal'[i]["VERIFY"].chk \/ (~QB /\ journal'[i]["VERIFY"].ack)) => Vouched(i)'
      BY <3>1, <3>2, <3>3, <3>4
    <3> QED BY <3>1, <3>5 DEF SeesRun, Asked, Ran, Vouched
  <2> QED BY <1>1, <2>1, HelpersRun DEF VerifyProbe, Labels, Busy
<1>2. CASE VerifyLoad(w)
  <2>0. pc[w] = "verifyLoad" /\ local[w].op = "VERIFY" /\ UNCHANGED <<journal, torrent>>
    BY <1>0, <1>2 DEF VerifyLoad, Suits, OnlyWorker, clientVars
  <2>1. ASSUME Visible(i, "VERIFY").st = "INTENT_RECORDED", Visible(i, "VERIFY").ack,
               AwaitRecheck(w, Visible(i, "VERIFY"), local[w].seen)
        PROVE  SeesRun(w)'
    <3>1. Visible(i, "VERIFY") = r /\ Asked(i)
      BY <2>1 DEF Visible, NoRow, Asked
    <3>2. /\ local[w].seen = "checking" => Ran(i)
          /\ local[w].seen = "complete" /\ (r.chk \/ ~QB) => Vouched(i)
          /\ ~QB => Ran(i)
      BY <1>0, <2>0, <2>1, <3>1 DEF SeesRun, RowSays
    <3>3. CASE local[w].seen = "checking" /\ Decide(w, local[w].seen, "snapshot", FALSE, TRUE, "verified")
      BY <2>0, <3>1, <3>2, <3>3, DecideRuns
    <3>4. CASE Keep(w, "verified")
      BY <3>4, HelpersRun DEF Labels, Busy
    <3>5. CASE Escalate(w, local[w].seen, "failUnsafe")
      BY <3>5, HelpersRun
    <3>6. CASE local[w].seen = "complete" /\ ~Unobserved(r, local[w].seen) /\ Applied(w, local[w].seen, "verified")
      <4>1. r.before = "complete" => Vouched(i)
        BY <3>2, <3>6 DEF Unobserved
      <4> QED BY <2>0, <3>1, <3>2, <3>6, <4>1, DecideRuns DEF Applied
    <3>7. CASE Decide(w, local[w].seen, "applied", FALSE, FALSE, "failUnsafe")
      BY <2>0, <3>1, <3>2, <3>7, DecideRuns
    <3> HIDE DEF r
    <3> QED BY <2>1, <3>1, <3>3, <3>4, <3>5, <3>6, <3>7 DEF AwaitRecheck
  <2>2. ASSUME Keep(w, "intent") PROVE SeesRun(w)'
    BY <2>2, HelpersRun DEF Labels, Busy
  <2> QED BY <1>2, <2>1, <2>2, HelpersRun DEF VerifyLoad, Labels, Busy
<1>3. CASE VerifyConfirm(w)
  <2>0. local[w].op = "VERIFY" /\ Asked(i) /\ (~QB => Ran(i)) /\ UNCHANGED <<journal, torrent>>
    BY <1>0, <1>3 DEF VerifyConfirm, SeesRun, OnlyWorker, clientVars
  <2>1. ASSUME QB, See(w, v, "poll") PROVE SeesRun(w)'
    <3>1. pc'[w] = "poll" /\ local'[w].op = local[w].op /\ local'[w].item = i
      BY <1>0, <2>1 DEF See, Goto, Local
    <3> QED BY <2>0, <2>1, <3>1 DEF SeesRun, Asked
  <2>2. ASSUME Decide(w, v, "snapshot", FALSE, v = "checking", "conclude") PROVE SeesRun(w)'
    BY <2>0, <2>2, SeenVouched, DecideRuns
  <2> QED BY <1>3, <2>1, <2>2, HelpersRun DEF VerifyConfirm
<1>4. CASE VerifyPoll(w)
  <2>0. local[w].op = "VERIFY" /\ Asked(i) /\ QB /\ UNCHANGED <<journal, torrent>>
    BY <1>0, <1>4 DEF VerifyPoll, Suits, SeesRun, OnlyWorker, clientVars
  <2>1. ASSUME Decide(w, v, "snapshot", FALSE, v = "checking", "conclude") PROVE SeesRun(w)'
    BY <2>0, <2>1, SeenVouched, DecideRuns
  <2> QED BY <1>4, <2>1, HelpersRun DEF VerifyPoll, Labels, Busy
<1>5. CASE VerifyConclude(w)
  <2>0. /\ local[w].op = "VERIFY" /\ Asked(i) /\ (~QB => Ran(i)) /\ UNCHANGED <<journal, torrent>>
        /\ ~QB /\ local[w].seen = "complete" => Vouched(i)
    BY <1>0, <1>5 DEF VerifyConclude, Suits, SeesRun, OnlyWorker, clientVars
  <2>1. ASSUME local[w].seen = "complete", ~(QB /\ r.before = "complete"),
               Applied(w, local[w].seen, "verified") PROVE SeesRun(w)'
    BY <2>0, <2>1, DecideRuns DEF Applied
  <2>2. ASSUME ~QB, Decide(w, local[w].seen, "applied", FALSE, FALSE, "failUnsafe") PROVE SeesRun(w)'
    BY <2>0, <2>2, DecideRuns
  <2> QED BY <1>5, <2>1, <2>2, HelpersRun DEF VerifyConclude, Labels, Busy
<1>6. CASE VerifyRecover(w)
  <2>0. local[w].op = "VERIFY" /\ Asked(i) /\ UNCHANGED <<journal, torrent>>
    BY <1>0, <1>6 DEF VerifyRecover, SeesRun, OnlyWorker, clientVars
  <2>1. ASSUME v = "checking", Decide(w, v, "snapshot", FALSE, FALSE, "verified") PROVE SeesRun(w)'
    BY <2>0, <2>1, SeenVouched, DecideRuns
  <2> QED BY <1>6, <2>1, HelpersRun DEF VerifyRecover
<1>7. CASE Verified(w)
  BY <1>7, HelpersRun DEF Verified, Labels, Busy
<1> QED BY <1>1, <1>2, <1>3, <1>4, <1>5, <1>6, <1>7

\* The steps that write a row or send.
LEMMA WriterRuns ==
  ASSUME TypeOK, HolderInv, AddedInv, RanInv, NEW w \in Workers, [Next]_vars,
         RecordIntent(w) \/ Commit(w) \/ Send(w) \/ SetStarting(w)
  PROVE  SeesRun(w)'
<1>0. /\ pc \in [Workers -> Labels] /\ local \in [Workers -> Local] /\ SeesRun(w) /\ local[w].item \in Items
         /\ local[w].op \in Ops
  BY AtItem DEF RanInv
<1> SUFFICES ASSUME NEW i \in Items, i = local[w].item PROVE SeesRun(w)'
  BY <1>0
<1>1. ASSUME local'[w].item = i, pc'[w] \in {"rpc", "reply"}, pc'[w] = "reply" => local'[w].reply # "ok",
             local'[w].op = "VERIFY" => Asked(i)'
      PROVE  SeesRun(w)'
  BY <1>1 DEF SeesRun, Asked
<1>2. CASE RecordIntent(w)
  <2>1. ASSUME Keep(w, "rpc"), journal' = [journal EXCEPT ![i][local[w].op] =
                                  [NoRow EXCEPT !.st = "INTENT_RECORDED", !.before = local[w].seen]]
        PROVE  SeesRun(w)'
    <3>1. local' = local /\ pc'[w] = "rpc"
      BY <1>0, <2>1 DEF Keep, Goto
    <3>2. local[w].op = "VERIFY" => Asked(i)'
      BY <1>0, <2>1 DEF Asked, NoRow, TypeOK
    <3> QED BY <1>1, <3>1, <3>2
  <2> QED BY <1>2, <2>1, HelpersRun DEF RecordIntent, Labels, Busy
<1>3. CASE Commit(w)
  <2>1. /\ local'[w].item = i /\ local'[w].op = local[w].op /\ local'[w].seen = local[w].seen /\ pc[w] = "commit"
        /\ local[w].todo.then \in Fates
    BY <1>0, <1>3, AtItem DEF Commit, Local, Todo
  <2>2. CASE pc'[w] # "conclude"
    <3>1. pc'[w] \in Fates \ {"conclude"}
      BY <1>0, <1>3, <2>1, <2>2 DEF Commit, Goto, Fates
    <3> QED BY <3>1, QuietRuns DEF Fates, Busy
  <2>3. CASE pc'[w] = "conclude"
    <3>1. local[w].todo.then = "conclude"
      BY <1>0, <1>3, <2>3 DEF Commit, Goto
    <3>2. local[w].op = "VERIFY" => Asked(i) /\ (~QB => Ran(i)) /\ (~QB /\ local[w].seen = "complete" => Vouched(i))
      BY <1>0, <2>1, <3>1 DEF SeesRun
    <3>3. local[w].op = "VERIFY" => Asked(i)' /\ (~QB => Ran(i)') /\ (~QB /\ local[w].seen = "complete" => Vouched(i)')
      BY <3>2, VouchStays
    <3> QED BY <2>1, <2>3, <3>3 DEF SeesRun, Asked, Ran, Vouched
  <2> QED BY <2>2, <2>3
<1>4. CASE Send(w)
  <2>1. local'[w].item = i /\ local'[w].op = local[w].op /\ pc'[w] = "reply" /\ local'[w].reply = "none"
        /\ pc[w] = "rpc"
    BY <1>0, <1>4 DEF Send, Goto, Local
  <2>2. local[w].op = "VERIFY" => Asked(i)
    BY <1>0, <2>1 DEF SeesRun
  <2> QED BY <1>1, <2>1, <2>2, VouchStays
<1>5. CASE SetStarting(w)
  <2>1. ASSUME Goto(w, "rpc"), local' = [local EXCEPT ![w].ver = @ + 1] PROVE SeesRun(w)'
    <3>1. local'[w].item = i /\ local'[w].op = local[w].op /\ pc'[w] = "rpc"
      BY <1>0, <2>1 DEF Goto, Local
    <3>2. local[w].op = "VERIFY" => Asked(i)
      BY <1>0, <1>5 DEF SetStarting, HolderInv, Holder, Asked
    <3> QED BY <1>1, <3>1, <3>2, VouchStays
  <2> QED BY <1>5, <2>1, HelpersRun DEF SetStarting
<1> QED BY <1>2, <1>3, <1>4, <1>5

\* What a row comes to say.
LEMMA WorkerSays ==
  ASSUME TypeOK, OursInv, AddedInv, RanInv, NEW w \in Workers, WorkerStep(w) \/ WorkerFault(w), NEW i \in Items
  PROVE  RowSays(i)'
<1>0. /\ local \in [Workers -> Local] /\ SeesRun(w) /\ local[w].item \in Items /\ local[w].op \in Ops /\ RowSays(i)
         /\ "VERIFY" \in Ops
      /\ [Next]_vars
  BY AtItem DEF RanInv, Next, Ops
<1>1. CASE journal'[i]["VERIFY"] = journal[i]["VERIFY"]
  BY <1>0, <1>1, VouchStays DEF RowSays
<1>2. ASSUME NEW row, journal' = [journal EXCEPT ![local[w].item][local[w].op] = row],
             journal'[i]["VERIFY"] # journal[i]["VERIFY"]
      PROVE  i = local[w].item /\ local[w].op = "VERIFY" /\ journal'[i]["VERIFY"] = row
  BY <1>0, <1>2 DEF TypeOK
<1>3. CASE RecordIntent(w) /\ journal'[i]["VERIFY"] # journal[i]["VERIFY"]
  <2>1. journal'[i]["VERIFY"] = [NoRow EXCEPT !.st = "INTENT_RECORDED", !.before = local[w].seen]
    BY <1>2, <1>3 DEF RecordIntent
  <2>2. ~journal'[i]["VERIFY"].chk /\ ~journal'[i]["VERIFY"].ack /\ ~journal'[i]["VERIFY"].whole
    BY <2>1 DEF NoRow
  <2> QED BY <2>2 DEF RowSays
<1>4. CASE Commit(w) /\ journal'[i]["VERIFY"] # journal[i]["VERIFY"]
  <2> DEFINE r == journal[i]["VERIFY"]  t == local[w].todo
  <2>1. /\ i = local[w].item /\ local[w].op = "VERIFY" /\ Writes(t.mark, Visible(i, "VERIFY").st)
        /\ journal'[i]["VERIFY"] = Marked(Visible(i, "VERIFY"), t)
    BY <1>2, <1>4 DEF Commit
  <2>2. Visible(i, "VERIFY") = r /\ r \in Row /\ t \in Todo /\ pc[w] = "commit"
    BY <1>0, <1>4, <2>1, AtItem DEF Visible, Writes, NoRow, TypeOK, Commit
  <2>3. /\ t.mark \in {"applied", "snapshot"} => (~QB => Ran(i))
        /\ t.mark = "snapshot" /\ t.chk => Ran(i)
        /\ t.mark = "applied" /\ t.whole /\ r.before = "complete" => Vouched(i)
    BY <1>0, <2>1, <2>2 DEF SeesRun
  <2>4. journal'[i]["VERIFY"] = Marked(r, t)
    BY <2>1, <2>2
  <2>5. (Ran(i) => Ran(i)') /\ (Vouched(i) => Vouched(i)')
    BY <1>0, VouchStays
  <2>6. CASE t.mark = "applied"
    <3>1. Marked(r, t) = [r EXCEPT !.st = "APPLIED", !.ack = TRUE, !.whole = t.whole]
      BY <2>6 DEF Marked
    <3>2. /\ journal'[i]["VERIFY"].chk = r.chk /\ journal'[i]["VERIFY"].whole = t.whole
             /\ journal'[i]["VERIFY"].before = r.before
      BY <2>2, <2>4, <3>1 DEF Row
    <3> QED BY <1>0, <2>3, <2>5, <2>6, <3>2 DEF RowSays
  <2>7. CASE t.mark = "snapshot"
    <3>1. \E g : Marked(r, t) = [r EXCEPT !.ack = TRUE, !.chk = t.chk, !.grace = g]
      BY <2>7 DEF Marked
    <3>2. /\ journal'[i]["VERIFY"].chk = t.chk /\ journal'[i]["VERIFY"].whole = r.whole
             /\ journal'[i]["VERIFY"].before = r.before
      BY <2>2, <2>4, <3>1 DEF Row
    <3> QED BY <1>0, <2>3, <2>5, <2>7, <3>2 DEF RowSays
  <2>8. CASE t.mark \notin {"applied", "snapshot"}
    <3>1. Marked(r, t) = [r EXCEPT !.st = "RECONCILE_REQUIRED"]
      BY <2>8 DEF Marked
    <3>2. /\ journal'[i]["VERIFY"].chk = r.chk /\ journal'[i]["VERIFY"].ack = r.ack
          /\ journal'[i]["VERIFY"].whole = r.whole /\ journal'[i]["VERIFY"].before = r.before
      BY <2>2, <2>4, <3>1 DEF Row
    <3> QED BY <1>0, <2>5, <3>2 DEF RowSays
  <2> QED BY <2>6, <2>7, <2>8
<1>5. UNCHANGED journal \/ RecordIntent(w) \/ Commit(w)
  BY WorkerLeaves DEF WorkerStep, Send, SetStarting
<1> QED BY <1>1, <1>3, <1>4, <1>5

LEMMA WorkerRuns ==
  ASSUME OneWorker, TypeOK, HolderInv, OursInv, StartInv, AddedInv, RanInv, NEW w \in Workers,
         WorkerStep(w) \/ WorkerFault(w)
  PROVE  RanInv'
<1>1. SeesRun(w)'
  BY PrepareRuns, AddRuns, VerifyRuns, WriterRuns DEF WorkerStep, Next
<1>2. \A v \in Workers : v = w
  BY DEF OneWorker
<1> QED BY <1>1, <1>2, WorkerSays DEF RanInv

\* An answer to a verification comes with the check it asked for, except from
\* qBittorrent, whose check begins later.
LEMMA OthersRun ==
  ASSUME TypeOK, AddedInv, RanInv, OthersStep PROVE RanInv'
<1>0. [Next]_vars
  BY DEF OthersStep, Next
<1>1. ASSUME NEW i \in Items PROVE RowSays(i)'
  BY <1>0, OthersKeep, VouchStays DEF RanInv, RowSays
<1>2. ASSUME NEW w \in Workers PROVE SeesRun(w)'
  <2>0. SeesRun(w) /\ local[w].item \in Items
    BY AtItem DEF RanInv
  <2> SUFFICES ASSUME NEW i \in Items, i = local[w].item PROVE SeesRun(w)'
    BY <2>0
  <2>1. /\ pc' = pc /\ local'[w].item = i /\ local'[w].op = local[w].op /\ local'[w].seen = local[w].seen
           /\ local'[w].todo = local[w].todo
        /\ LET r == journal[i]["VERIFY"]  s == journal'[i]["VERIFY"]
           IN  s.st = r.st /\ s.ack = r.ack /\ s.chk = r.chk /\ s.whole = r.whole /\ s.before = r.before
    BY OthersKeep
  <2>2. (Asked(i)' <=> Asked(i)) /\ (Ran(i) => Ran(i)') /\ (Vouched(i) => Vouched(i)')
    BY <1>0, <2>1, VouchStays DEF Asked
  <2>3. pc[w] = "reply" /\ local'[w].reply = "ok" /\ ~QB /\ local[w].op = "VERIFY" => Ran(i)'
    <3>1. CASE local' = local
      BY <2>0, <2>2, <3>1 DEF SeesRun
    <3>2. ASSUME NEW m \in wire, Execute(m), pc[w] = "reply", local'[w].reply = "ok", ~QB,
                 local[w].op = "VERIFY" PROVE Ran(i)'
      <4>1. PICK a : Answer(m, a)
        BY <3>2 DEF Execute
      <4>2. CASE ~(local[m.by].item = m.item /\ local[m.by].op = m.op /\ pc[m.by] = "reply" /\ m.by = w)
        <5>1. local'[w].reply = local[w].reply
          BY <4>1, <4>2, AtItem DEF Answer, TypeOK, Local
        <5> QED BY <2>0, <2>2, <3>2, <5>1 DEF SeesRun
      <4>3. CASE m.op = "VERIFY" /\ m.item = i
        <5>1. Asked(i)'
          BY <2>0, <2>2, <3>2 DEF SeesRun
        <5>2. (torrent.owner = "none" /\ torrent' = torrent) \/ torrent' = [torrent EXCEPT !.st = "checking"]
          BY <3>2, <4>3 DEF Execute
        <5>3. i # "none"
          BY ItemsAssumption
        <5> QED BY <5>1, <5>2, <5>3 DEF Ran, TypeOK
      <4> QED BY <3>2, <4>2, <4>3
    <3> QED BY <3>1, <3>2, OthersKeep
  <2> QED BY <2>0, <2>1, <2>2, <2>3 DEF SeesRun, Asked, Ran, Vouched
<1> QED BY <1>1, <1>2 DEF RanInv

LEMMA RanInit == Init => RanInv
<1> SUFFICES ASSUME Init PROVE RanInv
  OBVIOUS
<1>1. \A w \in Workers : pc[w] = "idle"
  BY DEF Init
<1>2. \A i \in Items : journal[i]["VERIFY"] = NoRow
  BY DEF Init, Ops
<1> QED BY <1>1, <1>2 DEF RanInv, RowSays, SeesRun, NoRow

LEMMA RanNext == OneWorker /\ TypeOK /\ HolderInv /\ OursInv /\ StartInv /\ AddedInv /\ RanInv /\ [Next]_vars => RanInv'
BY WorkerRuns, OthersRun DEF Next, OthersStep

\* With one worker a torrent that was complete before its RECHECK was asked for is taken
\* as verified only when the client has vouched for it since, whatever users,
\* lost answers, crashes and retries do in between.
THEOREM RecheckRanForOne == OneWorker /\ Spec => []RecheckReallyRan
<1>1. TypeOK /\ RanInv => RecheckReallyRan
  BY DEF RanInv, RowSays, Vouched, RecheckReallyRan
<1>2. OneWorker => OneWorker'
  OBVIOUS
<1> QED BY <1>1, <1>2, InitType, NextType, HolderInit, HolderNext, OursInit, OursNext, StartInit, StartNext,
           AddedInit, AddedNext, RanInit, RanNext, PTL DEF Spec
=============================================================================
