--------------------- MODULE UnpackMaterializationProofs ---------------------
(***************************************************************************)
(* Proofs about UnpackMaterialization for any number of items, workers and *)
(* events and every storage mode: what is placed is whole and the          *)
(* program's own, the journal rows know of it and prove it, nothing is     *)
(* replaced, and the journal protocol is kept.                             *)
(***************************************************************************)
EXTENDS UnpackMaterialization, FiniteSetTheorems, WellFoundedInduction, TLAPS

Alone == Cardinality(Workers) = 1

\* What holds of an item, its files and its rows.
ItemInv(i) ==
  /\ target[i] # "mixed"
  /\ temp[i] = "mixed" => source[i] = "changed"
  /\ mode # "COPY" => temp[i] \in {"absent", "own"}
  /\ i \in disturbed \/ /\ source[i] = "planned" /\ dir # "foreign"
                        /\ mode = "REUSE" => target[i] = "twin"
                        /\ row[i] = "APPLIED" => Current(i)
  /\ mode = "COPY" /\ row[i] = "APPLIED" => i \in made
  /\ i \in made => row[i] # "NONE"
  /\ status[i] = "MATCH_PENDING" => row[i] = "NONE"
  /\ status[i] = "FILES_MATERIALIZED" /\ i \notin disturbed /\ ~dirRow.gone
     /\ (mode # "COPY" \/ Alone) => JournalsApplied(i)

DiskInv == /\ \A i \in Items : ItemInv(i)
           /\ dirRow.st = "APPLIED" => dir # "absent"

\* A worker that copies under the temporary name of its item.
Drafts(p, l) == p \in {"fill", "check", "publish"} /\ ~l.lost /\ mode = "COPY"
Drafting(w) == Drafts(pc[w], local[w])

\* Labels after the intent of the file, and labels that promise nothing.
Announced == {"look", "recover", "place", "fill", "check", "publish", "rescue", "reuse",
              "confirm", "adopted"}
Plain == {"idle", "reserve", "dirLook", "dirIntent", "mkdir", "fileIntent", "finish",
          "mark", "fail"}

\* What a worker at label p with memory l knows.
Fits(p, l) ==
  /\ p \in Announced => row[l.item] # "NONE"
  /\ p = "dirConfirm" => dir # "absent"
  /\ l.lost \/ l.mark = "dirDrift" => disturbed = Items
  /\ l.mark = "fileDrift" => mode = "COPY" \/ l.item \in disturbed
  /\ p \in {"look", "confirm", "adopted"} => l.item \in disturbed \/ Current(l.item)
  /\ mode = "COPY" => p # "adopted" /\ (p = "confirm" => l.item \in made)
  /\ p = "reuse" => mode = "REUSE"
  /\ p \in Announced \ {"reuse", "confirm", "adopted"} => mode # "REUSE"
  /\ p = "fill" => mode = "COPY"
  /\ Drafts(p, l) => /\ p = "fill" => temp[l.item] = "partial"
                     /\ p = "check" => temp[l.item] \in {"own", "mixed"}
                     /\ p = "publish" => temp[l.item] = "own"
  /\ Alone /\ p # "idle" => status[l.item] # "FILES_MATERIALIZED"

\* Two workers never copy under the same temporary name.
Exclusive == \A w, v \in Workers :
               Drafting(w) /\ Drafting(v) /\ local[w].item = local[v].item => w = v

DataType ==
  /\ mode \in Modes
  /\ status \in [Items -> Status]
  /\ version \in [Items -> Nat]
  /\ row \in [Items -> RowStatus]
  /\ dirRow \in [st : RowStatus, owner : Items, gone : BOOLEAN]
  /\ dir \in {"absent", "own", "foreign"}
  /\ source \in [Items -> {"planned", "changed"}]
  /\ target \in [Items -> FileState]
  /\ temp \in [Items -> {"absent", "partial", "own", "mixed"}]
  /\ made \subseteq Items
  /\ disturbed \subseteq Items
  /\ budget \in Nat
WorkerType == pc \in [Workers -> Labels] /\ local \in [Workers -> Local]
WorkersInv == (\A w \in Workers : Fits(pc[w], local[w])) /\ Exclusive

\* The inductive invariant.
PlacingInv == DataType /\ WorkerType /\ DiskInv /\ WorkersInv

\* What every step leaves to the workers that do not take it.
Calm ==
  /\ mode' = mode
  /\ disturbed \subseteq disturbed' /\ disturbed' \subseteq Items /\ made \subseteq made'
  /\ dir # "absent" => dir' # "absent"
  /\ \A i \in Items : row[i] # "NONE" => row'[i] # "NONE"
  /\ \A i \in Items : i \notin disturbed' /\ Current(i) => Current(i)'

-----------------------------------------------------------------------------
(* Workers. *)

LEMMA OneWorker ==
  ASSUME Alone, NEW w \in Workers, NEW v \in Workers PROVE v = w
<1>1. PICK x : Workers = {x}
  BY WorkersAssumption, FS_Singleton DEF Alone
<1> QED BY <1>1

LEMMA ModeFacts ==
  ASSUME mode \in Modes PROVE mode \in {"HARDLINK", "SYMLINK", "COPY", "REUSE"}
BY ModesAssumption

\* A worker that does not move keeps what it knows.
LEMMA FitsStays ==
  ASSUME NEW p, NEW l \in Local, Fits(p, l), Calm,
         Drafts(p, l) => temp'[l.item] = temp[l.item],
         Alone /\ p # "idle" /\ status'[l.item] = "FILES_MATERIALIZED"
           => status[l.item] = "FILES_MATERIALIZED"
  PROVE  (Fits(p, l))'
<1>1. l.item \in Items
  BY DEF Local
<1>2. mode' = mode
  BY DEF Calm
<1>3. (l.lost \/ l.mark = "dirDrift") => disturbed' = Items
  BY DEF Fits, Calm
<1>4. p \in {"look", "confirm", "adopted"} => l.item \in disturbed' \/ (Current(l.item))'
  BY <1>1 DEF Fits, Calm
<1>5. p \in Announced => row'[l.item] # "NONE"
  BY <1>1 DEF Fits, Calm
<1> QED BY <1>1, <1>2, <1>3, <1>4, <1>5 DEF Fits, Calm, Drafts

LEMMA StepSound ==
  ASSUME PlacingInv, NEW w \in Workers, NEW label \in Labels, NEW l \in Local,
         pc' = [pc EXCEPT ![w] = label], local' = [local EXCEPT ![w] = l],
         Calm, DataType', DiskInv', (Fits(label, l))',
         Drafts(label, l) =>
           \A v \in Workers \ {w} : ~(Drafting(v) /\ local[v].item = l.item),
         \A v \in Workers \ {w} : Drafting(v) => temp'[local[v].item] = temp[local[v].item]
  PROVE  PlacingInv'
<1>1. WorkerType /\ WorkersInv
  BY DEF PlacingInv
<1>2. WorkerType'
  BY <1>1 DEF WorkerType
<1>3. /\ pc'[w] = label /\ local'[w] = l
      /\ \A v \in Workers \ {w} : pc'[v] = pc[v] /\ local'[v] = local[v]
  BY <1>1 DEF WorkerType
<1>4. ASSUME NEW v \in Workers \ {w} PROVE (Fits(pc[v], local[v]))'
  <2> DEFINE p == pc[v]  k == local[v]
  <2>1. k \in Local /\ Fits(p, k)
    BY <1>1 DEF WorkerType, WorkersInv
  <2>2. Drafts(p, k) => temp'[k.item] = temp[k.item]
    BY DEF Drafting
  <2>3. ~Alone
    BY OneWorker
  <2> HIDE DEF p, k
  <2>4. ASSUME NEW q, NEW m, q = p, m = k PROVE (Fits(q, m))'
    BY <2>1, <2>2, <2>3, <2>4, FitsStays
  <2>5. pc'[v] = p /\ local'[v] = k
    BY <1>3 DEF p, k
  <2> QED BY <2>4, <2>5 DEF Fits, Drafts, Current
<1>5. (\A v \in Workers : Fits(pc[v], local[v]))'
  BY <1>3, <1>4 DEF Fits, Drafts
<1>6. Exclusive'
  BY <1>1, <1>3 DEF Exclusive, WorkersInv, Drafting, Drafts, Calm
<1> QED BY <1>2, <1>5, <1>6 DEF PlacingInv, WorkersInv

\* The step of a worker that only looks.
Data == <<mode, status, version, row, dirRow, dir, source, target, temp, made, disturbed>>

LEMMA QuietSound ==
  ASSUME PlacingInv, NEW w \in Workers, NEW label \in Labels, NEW l \in Local,
         pc' = [pc EXCEPT ![w] = label], local' = [local EXCEPT ![w] = l],
         UNCHANGED Data, budget' \in Nat, Fits(label, l),
         Drafts(label, l) => Drafting(w) /\ l.item = local[w].item
  PROVE  PlacingInv'
<1>1. DataType' /\ DiskInv'
  BY DEF PlacingInv, DataType, DiskInv, ItemInv, Current, IsPlanned, SourceOk,
         JournalsApplied, Data
<1>2. Calm
  BY DEF Calm, Data, PlacingInv, DataType, Current, IsPlanned, SourceOk
<1>3. (Fits(label, l))'
  BY DEF Fits, Drafts, Current, IsPlanned, SourceOk, Data
<1>4. Drafts(label, l) => \A v \in Workers \ {w} : ~(Drafting(v) /\ local[v].item = l.item)
  BY DEF PlacingInv, WorkersInv, Exclusive
<1>5. UNCHANGED temp
  BY DEF Data
<1> QED BY <1>1, <1>2, <1>3, <1>4, <1>5, StepSound

LEMMA WorkerFacts ==
  ASSUME PlacingInv, NEW w \in Workers
  PROVE  /\ pc[w] \in Labels /\ local[w] \in Local /\ local[w].item \in Items
         /\ Fits(pc[w], local[w]) /\ ItemInv(local[w].item)
         /\ mode \in {"HARDLINK", "SYMLINK", "COPY", "REUSE"}
BY ModeFacts DEF PlacingInv, DataType, WorkerType, WorkersInv, DiskInv, Local

\* A worker that goes on to a label that promises nothing.
LEMMA PlainFits ==
  ASSUME NEW p, NEW l, Fits(p, l), p # "idle", NEW label \in Plain, NEW k,
         k.item = l.item, k.lost = l.lost,
         k.mark = "dirDrift" => l.mark = "dirDrift" \/ disturbed = Items,
         k.mark = "fileDrift" => \/ l.mark = "fileDrift" \/ mode = "COPY"
                                 \/ l.item \in disturbed
  PROVE  Fits(label, k)
BY DEF Fits, Drafts, Plain, Announced

LEMMA PlainSound ==
  ASSUME PlacingInv, NEW w \in Workers, pc[w] # "idle",
         NEW label \in Plain, Goto(w, label), UNCHANGED local, UNCHANGED <<Data, budget>>
  PROVE  PlacingInv'
<1>1. local' = [local EXCEPT ![w] = local[w]]
  BY DEF PlacingInv, WorkerType
<1>2. label \in Labels /\ ~Drafts(label, local[w])
  BY DEF Plain, Labels, Drafts
<1>3. local[w] \in Local /\ Fits(label, local[w])
  BY WorkerFacts, PlainFits
<1>4. budget' \in Nat
  BY DEF PlacingInv, DataType
<1> QED BY <1>1, <1>2, <1>3, <1>4, QuietSound DEF Goto

LEMMA MarkSound ==
  ASSUME PlacingInv, NEW w \in Workers, pc[w] # "idle",
         NEW m \in {"dirDrift", "dirUnknown", "fileDrift", "fileUnknown"},
         MarkThenFail(w, m), UNCHANGED <<Data, budget>>,
         m = "dirDrift" => disturbed = Items,
         m = "fileDrift" => mode = "COPY" \/ local[w].item \in disturbed
  PROVE  PlacingInv'
<1> DEFINE k == [local[w] EXCEPT !.mark = m]
<1>1. /\ local[w] \in Local /\ Fits(pc[w], local[w])
      /\ pc' = [pc EXCEPT ![w] = "mark"] /\ local' = [local EXCEPT ![w] = k]
  BY WorkerFacts DEF MarkThenFail, Keep, Goto
<1>2. k \in Local /\ k.item = local[w].item /\ k.lost = local[w].lost /\ k.mark = m
  BY <1>1 DEF Local
<1>3. "mark" \in Labels /\ "mark" \in Plain /\ ~Drafts("mark", k)
  BY DEF Plain, Labels, Drafts
<1> HIDE DEF k
<1>4. Fits("mark", k)
  BY <1>1, <1>2, <1>3, PlainFits
<1>5. budget' \in Nat
  BY DEF PlacingInv, DataType
<1> QED BY <1>1, <1>2, <1>3, <1>4, <1>5, QuietSound

-----------------------------------------------------------------------------
(* The steps of a worker that only look. *)

LEMMA ListSound ==
  ASSUME PlacingInv, NEW w \in Workers, NEW i \in Items, List(w, i) PROVE PlacingInv'
<1> DEFINE l == [item |-> i, ver |-> version[i], seen |-> "NONE", lost |-> FALSE,
                 mark |-> "none"]
<1>1. pc' = [pc EXCEPT ![w] = "reserve"] /\ local' = [local EXCEPT ![w] = l]
  BY DEF List, Keep, Goto
<1>2. l \in Local
  BY DEF PlacingInv, DataType, Local, RowStatus
<1>3. "reserve" \in Labels /\ ~Drafts("reserve", l)
  BY DEF Labels, Drafts
<1>4. Fits("reserve", l)
  BY DEF Fits, Drafts, Announced, List, Claimable
<1>5. UNCHANGED Data /\ budget' \in Nat
  BY DEF List, Data, itemVars, rowVars, diskVars, PlacingInv, DataType
<1> HIDE DEF l
<1> QED BY <1>1, <1>2, <1>3, <1>4, <1>5, QuietSound

LEMMA LookAtDirectorySound ==
  ASSUME PlacingInv, NEW w \in Workers, LookAtDirectory(w) PROVE PlacingInv'
<1>1. UNCHANGED <<Data, budget>> /\ pc[w] # "idle"
  BY DEF LookAtDirectory, Data, itemVars, rowVars, diskVars
<1>2. ASSUME NEW label \in {"dirIntent", "fail", "fileIntent"}, Goto(w, label),
             UNCHANGED local
      PROVE  PlacingInv'
  BY <1>1, <1>2, PlainSound DEF Plain
<1>3. CASE dirRow.st = "APPLIED" /\ dir # "own" /\ MarkThenFail(w, "dirDrift")
  <2>1. dir = "foreign"
    BY <1>3 DEF PlacingInv, DiskInv, DataType
  <2>2. disturbed = Items
    BY <2>1 DEF PlacingInv, DiskInv, ItemInv, DataType
  <2> QED BY <1>1, <1>3, <2>2, MarkSound
<1> QED BY <1>2, <1>3 DEF LookAtDirectory

LEMMA LookAtAppliedSound ==
  ASSUME PlacingInv, NEW w \in Workers, LookAtApplied(w) PROVE PlacingInv'
<1>1. UNCHANGED <<Data, budget>> /\ pc[w] = "look"
  BY DEF LookAtApplied, Data, itemVars, rowVars, diskVars
<1>2. ASSUME NEW label \in {"finish", "fail"}, Goto(w, label), UNCHANGED local
      PROVE  PlacingInv'
  BY <1>1, <1>2, PlainSound DEF Plain
<1>3. CASE ~Current(local[w].item) /\ MarkThenFail(w, "fileDrift")
  <2>1. local[w].item \in disturbed
    BY <1>1, <1>3, WorkerFacts DEF Fits
  <2> QED BY <1>1, <1>3, <2>1, MarkSound
<1> QED BY <1>2, <1>3 DEF LookAtApplied

\* A worker whose disk proves that the file is in place goes on to confirm it.
LEMMA ProvenSound ==
  ASSUME PlacingInv, NEW w \in Workers, UNCHANGED <<Data, budget>>, UNCHANGED local,
         pc[w] \in Announced, NEW label \in {"confirm", "adopted"}, Goto(w, label),
         Current(local[w].item), mode # "COPY"
  PROVE  PlacingInv'
<1> DEFINE l == local[w]
<1>1. l \in Local /\ Fits(pc[w], l) /\ label \in Labels /\ pc[w] # "idle"
  BY WorkerFacts DEF Labels, Announced
<1>2. local' = [local EXCEPT ![w] = l] /\ budget' \in Nat
  BY DEF PlacingInv, WorkerType, DataType
<1>3. ~Drafts(label, l)
  BY DEF Drafts
<1>4. Fits(label, l)
  BY <1>1, <1>3 DEF Fits, Announced
<1> HIDE DEF l
<1> QED BY <1>1, <1>2, <1>3, <1>4, QuietSound DEF Goto

LEMMA RecoverSound ==
  ASSUME PlacingInv, NEW w \in Workers, Recover(w) PROVE PlacingInv'
<1> DEFINE l == local[w]
<1>1. UNCHANGED <<Data, budget>> /\ pc[w] = "recover"
  BY DEF Recover, Data, itemVars, rowVars, diskVars
<1>2. l \in Local /\ Fits(pc[w], l) /\ mode # "REUSE"
  BY <1>1, WorkerFacts DEF Fits, Announced
<1>3. CASE Goto(w, "fail") /\ UNCHANGED local
  BY <1>1, <1>3, PlainSound DEF Plain
<1>4. CASE /\ mode = "HARDLINK" => SourceOk(l.item)
           /\ ProvesPlaced(l.item) /\ Goto(w, "confirm") /\ UNCHANGED local
  <2>1. Current(l.item) /\ mode # "COPY"
    BY <1>2, <1>4, WorkerFacts DEF ProvesPlaced, Current
  <2> QED BY <1>1, <1>4, <2>1, ProvenSound DEF Announced
<1>5. CASE mode = "COPY" /\ MarkThenFail(w, "fileDrift")
  BY <1>1, <1>5, MarkSound
<1>6. CASE Goto(w, "place") /\ UNCHANGED local
  <2>1. local' = [local EXCEPT ![w] = l] /\ budget' \in Nat
    BY <1>1, <1>6 DEF PlacingInv, WorkerType, DataType
  <2>2. Fits("place", l) /\ ~Drafts("place", l) /\ "place" \in Labels
    BY <1>1, <1>2 DEF Fits, Drafts, Announced, Labels
  <2> HIDE DEF l
  <2> QED BY <1>1, <1>2, <1>6, <2>1, <2>2, QuietSound DEF Goto
<1> QED BY <1>3, <1>4, <1>5, <1>6 DEF Recover

LEMMA RescueSound ==
  ASSUME PlacingInv, NEW w \in Workers, Rescue(w) PROVE PlacingInv'
<1> DEFINE l == local[w]
<1>1. UNCHANGED <<Data, budget>> /\ pc[w] = "rescue"
  BY DEF Rescue, Data, itemVars, rowVars, diskVars
<1>2. mode # "REUSE"
  BY <1>1, WorkerFacts DEF Fits, Announced
<1>3. CASE Goto(w, "fail") /\ UNCHANGED local
  BY <1>1, <1>3, PlainSound DEF Plain
<1>4. CASE /\ ~(mode = "HARDLINK" /\ ~SourceOk(l.item))
           /\ ProvesPlaced(l.item) /\ Goto(w, "adopted") /\ UNCHANGED local
  <2>1. Current(l.item) /\ mode # "COPY"
    BY <1>2, <1>4, WorkerFacts DEF ProvesPlaced, Current
  <2> QED BY <1>1, <1>4, <2>1, ProvenSound DEF Announced
<1>5. CASE mode = "COPY" /\ MarkThenFail(w, "fileDrift")
  BY <1>1, <1>5, MarkSound
<1>6. CASE MarkThenFail(w, "fileUnknown")
  BY <1>1, <1>6, MarkSound
<1> QED BY <1>3, <1>4, <1>5, <1>6 DEF Rescue

LEMMA ReuseSound ==
  ASSUME PlacingInv, NEW w \in Workers, Reuse(w) PROVE PlacingInv'
<1> DEFINE l == local[w]
<1>1. UNCHANGED <<Data, budget>> /\ pc[w] = "reuse"
  BY DEF Reuse, Data, itemVars, rowVars, diskVars
<1>2. mode = "REUSE" /\ ItemInv(l.item)
  BY <1>1, WorkerFacts DEF Fits
<1>3. ASSUME NEW label \in {"fail", "finish"}, Goto(w, label), UNCHANGED local
      PROVE  PlacingInv'
  BY <1>1, <1>3, PlainSound DEF Plain
<1>4. CASE ~Current(l.item) /\ MarkThenFail(w, "fileDrift")
  <2>1. l.item \in disturbed
    BY <1>2, <1>4 DEF ItemInv, Current, SourceOk
  <2> QED BY <1>1, <1>4, <2>1, MarkSound
<1>5. CASE Current(l.item) /\ Goto(w, "confirm") /\ UNCHANGED local
  BY <1>1, <1>2, <1>5, ProvenSound DEF Announced
<1> QED BY <1>3, <1>4, <1>5 DEF Reuse

LEMMA CheckAgainSound ==
  ASSUME PlacingInv, NEW w \in Workers, CheckAgain(w) PROVE PlacingInv'
<1> DEFINE l == local[w]
<1>1. /\ UNCHANGED <<Data, budget>> /\ pc[w] = "check"
      /\ local' = [local EXCEPT ![w] = l] /\ budget' \in Nat
  BY DEF CheckAgain, Data, itemVars, rowVars, diskVars, PlacingInv, WorkerType, DataType
<1>2. l \in Local /\ Fits("check", l) /\ ItemInv(l.item)
  BY <1>1, WorkerFacts
<1>3. CASE Clean(l.item, l.lost) /\ Goto(w, "publish")
  <2>1. Drafts("publish", l) => temp[l.item] = "own"
    BY <1>2, <1>3 DEF Fits, Drafts, ItemInv, Clean, SourceOk
  <2>2. Fits("publish", l) /\ "publish" \in Labels
    BY <1>2, <2>1 DEF Fits, Announced, Labels
  <2>3. Drafts("publish", l) => Drafting(w)
    BY <1>1 DEF Drafts, Drafting
  <2> HIDE DEF l
  <2>4. Drafts("publish", l) => Drafting(w) /\ l.item = local[w].item
    BY <2>3 DEF l
  <2> QED BY <1>1, <1>2, <1>3, <2>2, <2>4, QuietSound DEF Goto
<1>4. CASE Goto(w, "rescue")
  <2>1. Fits("rescue", l) /\ "rescue" \in Labels /\ ~Drafts("rescue", l)
    BY <1>2 DEF Fits, Announced, Labels, Drafts
  <2> HIDE DEF l
  <2> QED BY <1>1, <1>2, <1>4, <2>1, QuietSound DEF Goto
<1> QED BY <1>3, <1>4 DEF CheckAgain

-----------------------------------------------------------------------------
(* The steps of a worker that commit a transaction. *)

\* A worker that writes something and goes on to a label that promises nothing.
LEMMA PlainWriteSound ==
  ASSUME PlacingInv, NEW w \in Workers, pc[w] # "idle", NEW label \in Plain, NEW k \in Local,
         pc' = [pc EXCEPT ![w] = label], local' = [local EXCEPT ![w] = k],
         k.item = local[w].item, k.lost = local[w].lost,
         k.mark = local[w].mark \/ k.mark \in {"none", "dirUnknown", "fileUnknown"},
         Calm, DataType', DiskInv', UNCHANGED temp,
         label # "idle" /\ status'[k.item] = "FILES_MATERIALIZED"
           => status[k.item] = "FILES_MATERIALIZED"
  PROVE  PlacingInv'
<1> DEFINE l == local[w]
<1>1. Fits(pc[w], l)
  BY WorkerFacts
<1>2. label \in Labels /\ ~Drafts(label, k)
  BY DEF Plain, Labels, Drafts
<1> HIDE DEF l
<1>3. k.item = l.item /\ k.lost = l.lost
  BY DEF l
<1>4. k.mark = "dirDrift" \/ k.mark = "fileDrift" => k.mark = l.mark
  BY DEF l
<1>5. Fits(label, k)
  BY <1>1, <1>3, <1>4, PlainFits
<1>6. (Fits(label, k))'
  BY <1>2, <1>5, FitsStays
<1> QED BY <1>2, <1>6, StepSound

\* A change of statuses alone.
LEMMA StatusSound ==
  ASSUME PlacingInv, UNCHANGED <<mode, rowVars, diskVars>>, budget' \in Nat,
         status' \in [Items -> Status], version' \in [Items -> Nat],
         \A i \in Items : status'[i] = "FILES_MATERIALIZED" =>
                            status[i] = "FILES_MATERIALIZED" \/ JournalsApplied(i),
         \A i \in Items : status'[i] = "MATCH_PENDING" =>
                            status[i] = "MATCH_PENDING" \/ row[i] = "NONE"
  PROVE  Calm /\ DataType' /\ DiskInv' /\ UNCHANGED temp
<1>1. UNCHANGED <<mode, row, dirRow, dir, source, target, temp, made, disturbed>>
  BY DEF rowVars, diskVars
<1>2. DataType'
  BY <1>1 DEF PlacingInv, DataType
<1>3. ASSUME NEW i \in Items PROVE ItemInv(i)'
  <2>1. ItemInv(i)
    BY DEF PlacingInv, DiskInv
  <2> QED BY <1>1, <2>1 DEF ItemInv, Current, IsPlanned, SourceOk, JournalsApplied
<1>4. DiskInv'
  BY <1>1, <1>3 DEF DiskInv, PlacingInv
<1>5. Calm
  BY <1>1 DEF Calm, PlacingInv, DataType, Current, IsPlanned, SourceOk
<1> QED BY <1>1, <1>2, <1>4, <1>5

LEMMA ReserveSound ==
  ASSUME PlacingInv, NEW w \in Workers, Reserve(w) PROVE PlacingInv'
<1> DEFINE i == local[w].item
<1>1. /\ UNCHANGED <<mode, rowVars, diskVars>> /\ budget' \in Nat /\ pc[w] # "idle"
      /\ i \in Items /\ local[w] \in Local /\ version[i] \in Nat
  BY WorkerFacts DEF Reserve, PlacingInv, DataType
<1>2. ASSUME NEW label \in {"idle", "fail"}, Goto(w, label), UNCHANGED <<itemVars, local>>
      PROVE  PlacingInv'
  BY <1>1, <1>2, PlainSound DEF Reserve, Plain, Data, itemVars, rowVars, diskVars
<1>3. ASSUME NEW n \in Nat, Keep(w, "dirLook", [local[w] EXCEPT !.ver = n]),
             \/ status' = [status EXCEPT ![i] = "MATERIALIZING"] /\ version' = [version EXCEPT ![i] = @ + 1]
             \/ UNCHANGED itemVars
      PROVE  PlacingInv'
  <2> DEFINE k == [local[w] EXCEPT !.ver = n]
  <2>1. k \in Local /\ k.item = i /\ k.lost = local[w].lost /\ k.mark = local[w].mark
    BY <1>1 DEF Local
  <2>2. pc' = [pc EXCEPT ![w] = "dirLook"] /\ local' = [local EXCEPT ![w] = k]
    BY <1>3 DEF Keep, Goto
  <2>3. status' \in [Items -> Status] /\ version' \in [Items -> Nat]
    BY <1>1, <1>3 DEF PlacingInv, DataType, Status, itemVars
  <2>4. \A j \in Items : status'[j] \in {status[j], "MATERIALIZING"}
    BY <1>1, <1>3 DEF PlacingInv, DataType, itemVars
  <2>5. Calm /\ DataType' /\ DiskInv' /\ UNCHANGED temp
    BY <1>1, <2>3, <2>4, StatusSound
  <2>6. "dirLook" \in Plain
    BY DEF Plain
  <2>7. status'[k.item] = "FILES_MATERIALIZED" => status[k.item] = "FILES_MATERIALIZED"
    BY <1>1, <2>1, <2>4
  <2> HIDE DEF k
  <2> QED BY <1>1, <2>1, <2>2, <2>5, <2>6, <2>7, PlainWriteSound
<1>4. CASE status[i] = "PLAN_PENDING"
  BY <1>1, <1>3, <1>4 DEF Reserve
<1>5. CASE status[i] = "MATERIALIZING"
  BY <1>1, <1>3, <1>5 DEF Reserve
<1>6. CASE status[i] = "FILES_MATERIALIZED"
  BY <1>2, <1>6 DEF Reserve
<1>7. CASE status[i] \notin {"PLAN_PENDING", "MATERIALIZING", "FILES_MATERIALIZED"}
  BY <1>2, <1>7 DEF Reserve
<1> QED BY <1>4, <1>5, <1>6, <1>7

LEMMA FinishSound ==
  ASSUME PlacingInv, NEW w \in Workers, Finish(w) PROVE PlacingInv'
<1> DEFINE i == local[w].item
<1>1. /\ UNCHANGED <<mode, rowVars, diskVars>> /\ budget' \in Nat /\ pc[w] # "idle"
      /\ i \in Items /\ local[w] \in Local /\ UNCHANGED <<local, budget>>
  BY WorkerFacts DEF Finish, PlacingInv, DataType
<1>2. CASE Goto(w, "fail") /\ UNCHANGED itemVars
  BY <1>1, <1>2, PlainSound DEF Plain, Data, itemVars, rowVars, diskVars
<1>3. CASE /\ JournalsApplied(i) /\ Goto(w, "idle")
           /\ status' = [status EXCEPT ![i] = "FILES_MATERIALIZED"]
           /\ version' = [version EXCEPT ![i] = @ + 1]
  <2>1. status' \in [Items -> Status] /\ version' \in [Items -> Nat]
    BY <1>1, <1>3 DEF PlacingInv, DataType, Status
  <2>2. \A j \in Items : status'[j] = status[j] \/ (j = i /\ status'[j] = "FILES_MATERIALIZED")
    BY <1>1, <1>3 DEF PlacingInv, DataType
  <2>3. Calm /\ DataType' /\ DiskInv' /\ UNCHANGED temp
    BY <1>1, <1>3, <2>1, <2>2, StatusSound
  <2>4. "idle" \in Plain /\ pc' = [pc EXCEPT ![w] = "idle"]
    BY <1>3 DEF Plain, Goto
  <2>5. local' = [local EXCEPT ![w] = local[w]]
    BY <1>1 DEF PlacingInv, WorkerType
  <2> QED BY <1>1, <2>3, <2>4, <2>5, PlainWriteSound
<1> QED BY <1>2, <1>3 DEF Finish

LEMMA MarkErrorSound ==
  ASSUME PlacingInv, NEW w \in Workers, MarkError(w) PROVE PlacingInv'
<1> DEFINE i == local[w].item
<1>1. /\ UNCHANGED <<mode, rowVars, diskVars>> /\ budget' \in Nat /\ pc[w] # "idle"
      /\ i \in Items /\ local[w] \in Local /\ UNCHANGED local
      /\ pc' = [pc EXCEPT ![w] = "idle"]
  BY WorkerFacts DEF MarkError, PlacingInv, DataType, Goto
<1>2. status' \in [Items -> Status] /\ version' \in [Items -> Nat]
  BY <1>1 DEF MarkError, PlacingInv, DataType, Status, itemVars
<1>3. \A j \in Items : status'[j] \in {status[j], "EXECUTION_ERROR"}
  BY <1>1 DEF MarkError, PlacingInv, DataType, itemVars
<1>4. Calm /\ DataType' /\ DiskInv' /\ UNCHANGED temp
  BY <1>1, <1>2, <1>3, StatusSound
<1>5. "idle" \in Plain
  BY DEF Plain
<1>6. local' = [local EXCEPT ![w] = local[w]]
  BY <1>1 DEF PlacingInv, WorkerType
<1> QED BY <1>1, <1>4, <1>5, <1>6, PlainWriteSound

\* A change of the directory's row.
LEMMA DirRowSound ==
  ASSUME PlacingInv, UNCHANGED <<mode, itemVars, row, diskVars>>, budget' \in Nat,
         dirRow' \in [st : RowStatus, owner : Items, gone : BOOLEAN],
         dirRow'.gone = dirRow.gone,
         dirRow'.st = "APPLIED" => dir # "absent",
         dirRow.st = "APPLIED" => dirRow'.st = "APPLIED" \/ disturbed = Items
  PROVE  Calm /\ DataType' /\ DiskInv' /\ UNCHANGED temp
<1>1. UNCHANGED <<mode, status, version, row, dir, source, target, temp, made, disturbed>>
  BY DEF itemVars, diskVars
<1>2. DataType'
  BY <1>1 DEF PlacingInv, DataType
<1>3. ASSUME NEW i \in Items PROVE ItemInv(i)'
  <2>1. ItemInv(i)
    BY DEF PlacingInv, DiskInv
  <2> QED BY <1>1, <2>1 DEF ItemInv, Current, IsPlanned, SourceOk, JournalsApplied
<1>4. DiskInv'
  BY <1>1, <1>3 DEF DiskInv
<1>5. Calm
  BY <1>1 DEF Calm, PlacingInv, DataType, Current, IsPlanned, SourceOk
<1> QED BY <1>1, <1>2, <1>4, <1>5

\* A change of the row of one file.
LEMMA RowSound ==
  ASSUME PlacingInv, UNCHANGED <<mode, itemVars, dirRow, diskVars>>, budget' \in Nat,
         NEW i \in Items, NEW s \in RowStatus \ {"NONE"}, row' = [row EXCEPT ![i] = s],
         row[i] = "NONE" => status[i] # "MATCH_PENDING",
         s = "APPLIED" => /\ i \in disturbed \/ Current(i)
                          /\ mode = "COPY" => i \in made,
         row[i] = "APPLIED" => \/ s = "APPLIED" \/ i \in disturbed
                               \/ mode = "COPY" /\ (Alone => status[i] # "FILES_MATERIALIZED")
  PROVE  Calm /\ DataType' /\ DiskInv' /\ UNCHANGED temp
<1>1. UNCHANGED <<mode, status, version, dirRow, dir, source, target, temp, made, disturbed>>
  BY DEF itemVars, diskVars
<1>2. row \in [Items -> RowStatus]
  BY DEF PlacingInv, DataType
<1>3. row'[i] = s /\ \A j \in Items \ {i} : row'[j] = row[j]
  BY <1>2
<1>4. DataType'
  BY <1>1, <1>2 DEF PlacingInv, DataType
<1>5. ASSUME NEW j \in Items PROVE ItemInv(j)'
  <2>1. ItemInv(j)
    BY DEF PlacingInv, DiskInv
  <2>2. UNCHANGED Current(j)
    BY <1>1 DEF Current, IsPlanned, SourceOk
  <2>3. CASE j # i
    BY <1>1, <1>3, <2>1, <2>2, <2>3 DEF ItemInv, JournalsApplied
  <2>4. CASE j = i
    BY <1>1, <1>3, <2>1, <2>2, <2>4 DEF ItemInv, JournalsApplied
  <2> QED BY <2>3, <2>4
<1>6. DiskInv'
  BY <1>1, <1>5 DEF DiskInv, PlacingInv
<1>7. Calm
  BY <1>1, <1>3 DEF Calm, PlacingInv, DataType, Current, IsPlanned, SourceOk
<1> QED BY <1>1, <1>4, <1>6, <1>7

LEMMA RecordDirectoryIntentSound ==
  ASSUME PlacingInv, NEW w \in Workers, RecordDirectoryIntent(w) PROVE PlacingInv'
<1> DEFINE i == local[w].item
<1>1. /\ UNCHANGED <<mode, itemVars, row, diskVars>> /\ budget' \in Nat /\ pc[w] # "idle"
      /\ i \in Items /\ local[w] \in Local /\ UNCHANGED budget
  BY WorkerFacts DEF RecordDirectoryIntent, PlacingInv, DataType
<1>2. ASSUME NEW label \in {"fail", "mkdir", "fileIntent"}, Goto(w, label),
             UNCHANGED <<dirRow, local>>
      PROVE  PlacingInv'
  BY <1>1, <1>2, PlainSound DEF Plain, Data, itemVars, diskVars
<1>3. CASE /\ dirRow.st = "NONE" /\ Goto(w, "mkdir") /\ UNCHANGED local
           /\ dirRow' = [dirRow EXCEPT !.st = "INTENT_RECORDED", !.owner = i]
  <2>1. dirRow \in [st : RowStatus, owner : Items, gone : BOOLEAN]
    BY DEF PlacingInv, DataType
  <2>2. /\ dirRow' \in [st : RowStatus, owner : Items, gone : BOOLEAN]
        /\ dirRow'.gone = dirRow.gone /\ dirRow'.st = "INTENT_RECORDED"
    BY <1>1, <1>3, <2>1 DEF RowStatus
  <2>3. Calm /\ DataType' /\ DiskInv' /\ UNCHANGED temp
    BY <1>1, <1>3, <2>2, DirRowSound
  <2>4. "mkdir" \in Plain /\ pc' = [pc EXCEPT ![w] = "mkdir"]
    BY <1>3 DEF Plain, Goto
  <2>5. local' = [local EXCEPT ![w] = local[w]] /\ UNCHANGED status
    BY <1>1, <1>3 DEF PlacingInv, WorkerType, itemVars
  <2> QED BY <1>1, <2>3, <2>4, <2>5, PlainWriteSound
<1>4. CASE dirRow.st = "APPLIED" /\ dir # "own" /\ MarkThenFail(w, "dirDrift") /\ UNCHANGED dirRow
  <2>1. dir = "foreign"
    BY <1>4 DEF PlacingInv, DiskInv, DataType
  <2>2. disturbed = Items
    BY <2>1 DEF PlacingInv, DiskInv, ItemInv, DataType
  <2>3. UNCHANGED <<Data, budget>>
    BY <1>1, <1>4 DEF Data, itemVars, diskVars
  <2> QED BY <1>1, <1>4, <2>2, <2>3, MarkSound
<1> QED BY <1>2, <1>3, <1>4 DEF RecordDirectoryIntent

LEMMA ConfirmDirectorySound ==
  ASSUME PlacingInv, NEW w \in Workers, ConfirmDirectory(w) PROVE PlacingInv'
<1> DEFINE i == local[w].item
<1>1. /\ UNCHANGED <<mode, itemVars, row, diskVars>> /\ budget' \in Nat /\ pc[w] = "dirConfirm"
      /\ i \in Items /\ local[w] \in Local /\ UNCHANGED <<budget, local>>
  BY WorkerFacts DEF ConfirmDirectory, PlacingInv, DataType
<1>2. ASSUME NEW label \in {"fail", "fileIntent"}, Goto(w, label), UNCHANGED dirRow
      PROVE  PlacingInv'
  BY <1>1, <1>2, PlainSound DEF Plain, Data, itemVars, diskVars
<1>3. CASE /\ Goto(w, "fileIntent") /\ dirRow' = [dirRow EXCEPT !.st = "APPLIED"]
  <2>1. dirRow \in [st : RowStatus, owner : Items, gone : BOOLEAN]
    BY DEF PlacingInv, DataType
  <2>2. /\ dirRow' \in [st : RowStatus, owner : Items, gone : BOOLEAN]
        /\ dirRow'.gone = dirRow.gone /\ dirRow'.st = "APPLIED"
    BY <1>3, <2>1 DEF RowStatus
  <2>3. dir # "absent"
    BY <1>1, WorkerFacts DEF Fits
  <2>4. Calm /\ DataType' /\ DiskInv' /\ UNCHANGED temp
    BY <1>1, <2>2, <2>3, DirRowSound
  <2>5. "fileIntent" \in Plain /\ pc' = [pc EXCEPT ![w] = "fileIntent"]
    BY <1>3 DEF Plain, Goto
  <2>6. local' = [local EXCEPT ![w] = local[w]] /\ UNCHANGED status
    BY <1>1 DEF PlacingInv, WorkerType, itemVars
  <2> QED BY <1>1, <2>4, <2>5, <2>6, PlainWriteSound
<1> QED BY <1>2, <1>3 DEF ConfirmDirectory

LEMMA MarkReconcileSound ==
  ASSUME PlacingInv, NEW w \in Workers, MarkReconcile(w) PROVE PlacingInv'
<1> DEFINE i == local[w].item
           m == local[w].mark
           k == [local[w] EXCEPT !.mark = "none"]
<1>1. /\ UNCHANGED <<mode, itemVars, diskVars>> /\ budget' \in Nat /\ pc[w] = "mark"
      /\ i \in Items /\ local[w] \in Local /\ UNCHANGED status
      /\ Fits("mark", local[w])
  BY WorkerFacts DEF MarkReconcile, PlacingInv, DataType, itemVars
<1>2. k \in Local /\ k.item = i /\ k.lost = local[w].lost /\ k.mark = "none"
  BY <1>1 DEF Local
<1>3. pc' = [pc EXCEPT ![w] = "fail"] /\ local' = [local EXCEPT ![w] = k] /\ "fail" \in Plain
  BY DEF MarkReconcile, Keep, Goto, Plain
<1>4. dirRow \in [st : RowStatus, owner : Items, gone : BOOLEAN] /\ row \in [Items -> RowStatus]
  BY DEF PlacingInv, DataType
<1>5. Calm /\ DataType' /\ DiskInv' /\ UNCHANGED temp
  <2>1. CASE m \in {"fileDrift", "fileUnknown"} /\ row[i] # "NONE" /\ Exists(i)
    <3> DEFINE s == Reopened(row[i], m = "fileDrift")
    <3>1. row' = [row EXCEPT ![i] = s] /\ UNCHANGED dirRow
      BY <1>4, <2>1 DEF MarkReconcile
    <3>2. s \in RowStatus \ {"NONE"} /\ (s = "APPLIED" => row[i] = "APPLIED")
      BY <1>1, <1>4, <2>1 DEF Reopened, RowStatus
    <3>3. row[i] = "APPLIED" => /\ i \in disturbed \/ Current(i)
                                /\ mode = "COPY" => i \in made
      BY <1>1 DEF PlacingInv, DiskInv, ItemInv
    <3>4. row[i] = "APPLIED" => \/ s = "APPLIED" \/ i \in disturbed
                                \/ mode = "COPY" /\ (Alone => status[i] # "FILES_MATERIALIZED")
      BY <1>1 DEF Reopened, Fits
    <3> HIDE DEF s
    <3> QED BY <1>1, <2>1, <3>1, <3>2, <3>3, <3>4, RowSound
  <2>2. CASE m \in {"fileDrift", "fileUnknown"} /\ (row[i] = "NONE" \/ ~Exists(i))
    <3>1. row' = row /\ dirRow' = dirRow
      BY <1>4, <2>2 DEF MarkReconcile, Reopened
    <3>2. dirRow.st = "APPLIED" => dir # "absent"
      BY DEF PlacingInv, DiskInv
    <3> QED BY <1>1, <1>4, <3>1, <3>2, DirRowSound
  <2>3. CASE m \notin {"fileDrift", "fileUnknown"}
    <3> DEFINE s == Reopened(dirRow.st, m = "dirDrift")
    <3>1. UNCHANGED row /\ dirRow' = [dirRow EXCEPT !.st = s]
      BY <2>3 DEF MarkReconcile
    <3>2. s \in RowStatus /\ (s = "APPLIED" => dirRow.st = "APPLIED")
      BY <1>4 DEF Reopened, RowStatus
    <3>3. dirRow.st = "APPLIED" => dir # "absent" /\ (s = "APPLIED" \/ disturbed = Items)
      BY <1>1 DEF PlacingInv, DiskInv, Reopened, Fits
    <3> HIDE DEF s
    <3>4. /\ dirRow' \in [st : RowStatus, owner : Items, gone : BOOLEAN]
          /\ dirRow'.gone = dirRow.gone /\ dirRow'.st = s
      BY <1>4, <3>1, <3>2
    <3> QED BY <1>1, <3>1, <3>2, <3>3, <3>4, DirRowSound
  <2> QED BY <2>1, <2>2, <2>3
<1> HIDE DEF k
<1> QED BY <1>1, <1>2, <1>3, <1>5, PlainWriteSound

LEMMA RecordFileIntentSound ==
  ASSUME PlacingInv, NEW w \in Workers, RecordFileIntent(w) PROVE PlacingInv'
<1> DEFINE l == local[w]
           i == l.item
<1>1. /\ UNCHANGED <<mode, itemVars, dirRow, diskVars>> /\ budget' \in Nat
      /\ pc[w] = "fileIntent" /\ UNCHANGED <<budget, status, temp>>
      /\ i \in Items /\ l \in Local /\ Fits("fileIntent", l) /\ ItemInv(i)
      /\ UNCHANGED <<mode, version, dirRow, dir, source, target, made, disturbed>>
  BY WorkerFacts DEF RecordFileIntent, PlacingInv, DataType, itemVars, diskVars
<1>2. CASE Goto(w, "fail") /\ UNCHANGED <<row, local>>
  BY <1>1, <1>2, PlainSound DEF Plain, Data, itemVars, diskVars
<1>3. ASSUME NEW label \in {"reuse", "place", "look", "recover"}, NEW s \in RowStatus,
             Fenced(i, l.ver), row'[i] # "NONE", Keep(w, label, [l EXCEPT !.seen = s]),
             (label = "reuse") <=> (mode = "REUSE"), label = "look" => row[i] = "APPLIED",
             Calm, DataType', DiskInv'
      PROVE  PlacingInv'
  <2>0. [l EXCEPT !.seen = s] \in Local
    BY <1>1 DEF Local
  <2> PICK k \in Local : k = [l EXCEPT !.seen = s]
    BY <2>0
  <2>1. k.item = i /\ k.lost = l.lost /\ k.mark = l.mark
    BY <1>1 DEF Local
  <2>2. pc' = [pc EXCEPT ![w] = label] /\ local' = [local EXCEPT ![w] = k] /\ label \in Labels
    BY <1>3 DEF Keep, Goto, Labels
  <2>3. ~Drafts(label, k)
    BY DEF Drafts
  <2>4. label = "look" => i \in disturbed \/ Current(i)
    BY <1>1, <1>3 DEF ItemInv
  <2>5. \A j \in Items : Current(j)' = Current(j)
    BY <1>1 DEF Current, IsPlanned, SourceOk
  <2>6. ~Alone \/ status'[i] # "FILES_MATERIALIZED"
    BY <1>1, <1>3 DEF Fenced
  <2> HIDE DEF l
  <2>7. k.item \in Items /\ (label = "look" => k.item \in disturbed \/ Current(k.item)')
    BY <1>1, <2>1, <2>4, <2>5
  <2>8. Fits(label, k)'
    BY <1>1, <1>3, <2>1, <2>3, <2>6, <2>7 DEF Fits, Drafts, Announced
  <2> QED BY <1>1, <1>3, <2>2, <2>3, <2>8, StepSound
<1>4. CASE Fenced(i, l.ver) /\ row[i] = "NONE" /\ row' = [row EXCEPT ![i] = "INTENT_RECORDED"]
  <2>1. row \in [Items -> RowStatus] /\ "INTENT_RECORDED" \in RowStatus
    BY DEF PlacingInv, DataType, RowStatus
  <2>2. Calm /\ DataType' /\ DiskInv'
    <3>1. status[i] # "MATCH_PENDING" /\ row[i] # "APPLIED"
      BY <1>4 DEF Fenced
    <3>2. "INTENT_RECORDED" \in RowStatus \ {"NONE"}
      BY <2>1
    <3>3. i \in Items /\ row' = [row EXCEPT ![i] = "INTENT_RECORDED"]
      BY <1>1, <1>4
    <3> HIDE DEF i
    <3> QED BY <1>1, <3>1, <3>2, <3>3, RowSound
  <2> QED BY <1>1, <1>3, <1>4, <2>1, <2>2 DEF RecordFileIntent
<1>5. CASE Fenced(i, l.ver) /\ row[i] # "NONE" /\ UNCHANGED row
  <2>1. row[i] \in RowStatus
    BY <1>1 DEF PlacingInv, DataType
  <2>2. DataType' /\ DiskInv' /\ Calm
    BY <1>1, <1>5 DEF PlacingInv, DataType, DiskInv, ItemInv, Current, IsPlanned, SourceOk,
                      JournalsApplied, Calm
  <2> QED BY <1>1, <1>3, <1>5, <2>1, <2>2 DEF RecordFileIntent
<1> QED BY <1>2, <1>4, <1>5 DEF RecordFileIntent

LEMMA ConfirmFileSound ==
  ASSUME PlacingInv, NEW w \in Workers, ConfirmFile(w) PROVE PlacingInv'
<1> DEFINE i == local[w].item
<1>1. /\ UNCHANGED <<mode, itemVars, dirRow, diskVars>> /\ budget' \in Nat
      /\ pc[w] \in {"confirm", "adopted"} /\ UNCHANGED <<budget, local, status>>
      /\ i \in Items /\ local[w] \in Local /\ Fits(pc[w], local[w]) /\ ItemInv(i)
  BY WorkerFacts DEF ConfirmFile, PlacingInv, DataType, itemVars
<1>2. PICK label \in {"finish", "fail"} : Goto(w, label)
  BY DEF ConfirmFile
<1>3. CASE row' = row
  BY <1>1, <1>2, <1>3, PlainSound DEF Plain, Data, itemVars, diskVars
<1>4. CASE row' = [row EXCEPT ![i] = "APPLIED"] /\ RowOf(i) = "INTENT_RECORDED"
  <2>1. row[i] # "NONE" /\ "APPLIED" \in RowStatus \ {"NONE"}
    BY <1>4 DEF RowOf, RowStatus
  <2>2. i \in disturbed \/ Current(i)
    BY <1>1 DEF Fits
  <2>3. mode = "COPY" => i \in made
    BY <1>1 DEF Fits
  <2>4. Calm /\ DataType' /\ DiskInv' /\ UNCHANGED temp
    BY <1>1, <1>4, <2>1, <2>2, <2>3, RowSound
  <2>5. label \in Plain /\ pc' = [pc EXCEPT ![w] = label]
    BY <1>2 DEF Plain, Goto
  <2>6. local' = [local EXCEPT ![w] = local[w]]
    BY <1>1 DEF PlacingInv, WorkerType
  <2> QED BY <1>1, <2>4, <2>5, <2>6, PlainWriteSound
<1> QED BY <1>3, <1>4 DEF ConfirmFile, Applied

-----------------------------------------------------------------------------
(* The steps of a worker that change the disk. *)

LEMMA MakeDirectorySound ==
  ASSUME PlacingInv, NEW w \in Workers, MakeDirectory(w) PROVE PlacingInv'
<1> DEFINE l == local[w]
<1>1. /\ UNCHANGED <<mode, itemVars, rowVars, source, target, temp, made, disturbed, budget>>
      /\ pc[w] = "mkdir" /\ l \in Local /\ Fits("mkdir", l)
  BY WorkerFacts DEF MakeDirectory
<1>2. CASE MarkThenFail(w, "dirUnknown") /\ UNCHANGED dir
  BY <1>1, <1>2, MarkSound DEF Data, itemVars, rowVars
<1>3. CASE dir' = "own" /\ Goto(w, "dirConfirm") /\ UNCHANGED local
  <2>1. UNCHANGED <<mode, status, row, dirRow, source, target, temp, made, disturbed>>
    BY <1>1 DEF itemVars, rowVars
  <2>2. DataType'
    BY <1>1, <1>3, <2>1 DEF PlacingInv, DataType, itemVars
  <2>3. ASSUME NEW j \in Items PROVE ItemInv(j)'
    <3>1. ItemInv(j)
      BY DEF PlacingInv, DiskInv
    <3> QED BY <1>3, <2>1, <3>1 DEF ItemInv, Current, IsPlanned, SourceOk, JournalsApplied
  <2>4. DiskInv'
    BY <1>3, <2>3 DEF DiskInv
  <2>5. Calm
    BY <1>3, <2>1 DEF Calm, PlacingInv, DataType, Current, IsPlanned, SourceOk
  <2> PICK k \in Local : k = l
    BY <1>1
  <2>6. local' = [local EXCEPT ![w] = k] /\ pc' = [pc EXCEPT ![w] = "dirConfirm"]
        /\ "dirConfirm" \in Labels
    BY <1>1, <1>3 DEF PlacingInv, WorkerType, Goto, Labels
  <2> HIDE DEF l
  <2>7. Fits("dirConfirm", k)' /\ ~Drafts("dirConfirm", k)
    BY <1>1, <1>3, <2>1 DEF Fits, Drafts, Announced
  <2> QED BY <2>1, <2>2, <2>4, <2>5, <2>6, <2>7, StepSound
<1> QED BY <1>2, <1>3 DEF MakeDirectory

\* A change of the temporary name of one item.
LEMMA TempSound ==
  ASSUME PlacingInv, NEW i \in Items, NEW t \in {"partial", "own", "mixed"},
         UNCHANGED <<mode, itemVars, rowVars, dir, source, target, made, disturbed, budget>>,
         temp' = [temp EXCEPT ![i] = t],
         t = "mixed" => source[i] = "changed",
         mode # "COPY" => t = "own"
  PROVE  Calm /\ DataType' /\ DiskInv' /\ temp'[i] = t
         /\ \A j \in Items \ {i} : temp'[j] = temp[j]
<1>1. UNCHANGED <<mode, status, row, dirRow, dir, source, target, made, disturbed>>
  BY DEF itemVars, rowVars
<1>2. temp'[i] = t /\ \A j \in Items \ {i} : temp'[j] = temp[j]
  BY DEF PlacingInv, DataType
<1>3. DataType'
  BY <1>1 DEF PlacingInv, DataType, itemVars
<1>4. ASSUME NEW j \in Items PROVE ItemInv(j)'
  <2>1. ItemInv(j)
    BY DEF PlacingInv, DiskInv
  <2>2. UNCHANGED Current(j)
    BY <1>1 DEF Current, IsPlanned, SourceOk
  <2>3. CASE j = i
    BY <1>1, <1>2, <2>1, <2>2, <2>3 DEF ItemInv, JournalsApplied
  <2>4. CASE j # i
    BY <1>1, <1>2, <2>1, <2>2, <2>4 DEF ItemInv, JournalsApplied
  <2> QED BY <2>3, <2>4
<1>5. DiskInv'
  BY <1>1, <1>4 DEF DiskInv, PlacingInv
<1>6. Calm
  BY <1>1 DEF Calm, PlacingInv, DataType, Current, IsPlanned, SourceOk
<1> QED BY <1>2, <1>3, <1>5, <1>6

LEMMA PlaceSound ==
  ASSUME PlacingInv, NEW w \in Workers, Place(w) PROVE PlacingInv'
<1> DEFINE l == local[w]
           i == l.item
<1>1. /\ UNCHANGED <<mode, itemVars, rowVars, dir, source, target, made, disturbed, budget>>
      /\ pc[w] = "place" /\ l \in Local /\ i \in Items /\ Fits("place", l) /\ UNCHANGED local
      /\ mode' = mode /\ UNCHANGED <<status, row, source, target>>
  BY WorkerFacts DEF Place, itemVars, rowVars
<1>2. local' = [local EXCEPT ![w] = l]
  BY <1>1 DEF PlacingInv, WorkerType
<1>3. CASE Goto(w, "fail") /\ UNCHANGED temp
  BY <1>1, <1>3, PlainSound DEF Plain, Data, itemVars, rowVars
<1>4. CASE Goto(w, "rescue") /\ UNCHANGED temp
  <2>1. Fits("rescue", l) /\ ~Drafts("rescue", l) /\ "rescue" \in Labels
    BY <1>1 DEF Fits, Drafts, Announced, Labels
  <2>2. UNCHANGED Data /\ budget' \in Nat
    BY <1>1, <1>4 DEF Data, itemVars, rowVars, PlacingInv, DataType
  <2> HIDE DEF l
  <2> QED BY <1>1, <1>2, <1>4, <2>1, <2>2, QuietSound DEF Goto
<1>5. CASE /\ mode = "COPY" => temp[i] = "absent"
           /\ temp' = [temp EXCEPT ![i] = IF mode = "COPY" THEN "partial" ELSE "own"]
           /\ Goto(w, IF mode = "COPY" THEN "fill" ELSE "check")
  <2> DEFINE t == IF mode = "COPY" THEN "partial" ELSE "own"
  <2> PICK label \in Labels : label = IF mode = "COPY" THEN "fill" ELSE "check"
    BY DEF Labels
  <2> PICK k \in Local : k = l
    BY <1>1
  <2>1. /\ Calm /\ DataType' /\ DiskInv' /\ temp'[i] = t
        /\ \A j \in Items \ {i} : temp'[j] = temp[j]
    <3>1. t \in {"partial", "own", "mixed"} /\ t # "mixed" /\ (mode # "COPY" => t = "own")
      OBVIOUS
    <3>2. temp' = [temp EXCEPT ![i] = t]
      BY <1>5
    <3> HIDE DEF t, i
    <3>3. i \in Items
      BY <1>1 DEF i
    <3> QED BY <1>1, <3>1, <3>2, <3>3, TempSound
  <2>2. \A v \in Workers \ {w} : ~(Drafting(v) /\ local[v].item = i)
    BY <1>5 DEF PlacingInv, WorkersInv, Fits, Drafting, Drafts
  <2>3. \A v \in Workers \ {w} : Drafting(v) => temp'[local[v].item] = temp[local[v].item]
    BY <2>1, <2>2 DEF PlacingInv, WorkerType, Local
  <2>4. pc' = [pc EXCEPT ![w] = label] /\ local' = [local EXCEPT ![w] = k]
    BY <1>2, <1>5 DEF Goto
  <2>5. temp'[k.item] = t
    BY <2>1
  <2>6. Fits("place", k) /\ k.item \in Items /\ UNCHANGED disturbed
    BY <1>1
  <2>7. Drafts(label, k) => \A v \in Workers \ {w} : ~(Drafting(v) /\ local[v].item = k.item)
    BY <2>2
  <2> HIDE DEF l
  <2>8. Fits(label, k)'
    BY <1>1, <2>5, <2>6 DEF Fits, Drafts, Announced
  <2> QED BY <2>1, <2>3, <2>4, <2>7, <2>8, StepSound
<1> QED BY <1>3, <1>4, <1>5 DEF Place

LEMMA FillSound ==
  ASSUME PlacingInv, NEW w \in Workers, Fill(w) PROVE PlacingInv'
<1> DEFINE l == local[w]
           i == l.item
<1>1. /\ UNCHANGED <<mode, itemVars, rowVars, dir, source, target, made, disturbed, budget>>
      /\ pc[w] = "fill" /\ l \in Local /\ i \in Items /\ Fits("fill", l) /\ mode = "COPY"
      /\ mode' = mode /\ UNCHANGED <<status, row, source, target, disturbed, local>>
  BY WorkerFacts DEF Fill, itemVars, rowVars, Fits
<1> PICK k \in Local : k = l
  BY <1>1
<1>2. local' = [local EXCEPT ![w] = k] /\ pc' = [pc EXCEPT ![w] = "check"]
  BY <1>1 DEF PlacingInv, WorkerType, Fill, Goto
<1>3. Fits("fill", k) /\ k.item = i
  BY <1>1
<1>4. CASE l.lost
  <2>1. UNCHANGED temp
    BY <1>1, <1>4 DEF Fill, PlacingInv, DataType
  <2>2. UNCHANGED Data /\ budget' \in Nat
    BY <1>1, <2>1 DEF Data, itemVars, rowVars, PlacingInv, DataType
  <2>3. Fits("check", k) /\ ~Drafts("check", k) /\ "check" \in Labels
    BY <1>1, <1>3, <1>4 DEF Fits, Drafts, Announced, Labels
  <2> QED BY <1>2, <2>2, <2>3, QuietSound
<1>5. CASE ~l.lost
  <2> DEFINE t == Copied(i)
  <2>1. /\ Calm /\ DataType' /\ DiskInv' /\ temp'[i] = t /\ t \in {"own", "mixed"}
        /\ \A j \in Items \ {i} : temp'[j] = temp[j]
    <3>1. t \in {"own", "mixed"} /\ (t = "mixed" => source[i] = "changed")
      BY <1>1 DEF Copied, SourceOk, PlacingInv, DataType
    <3>2. temp' = [temp EXCEPT ![i] = t]
      BY <1>5 DEF Fill
    <3> HIDE DEF t, i
    <3>3. i \in Items
      BY <1>1 DEF i
    <3> QED BY <1>1, <3>1, <3>2, <3>3, TempSound
  <2>2. \A v \in Workers \ {w} : ~(Drafting(v) /\ local[v].item = i)
    BY <1>1, <1>5 DEF PlacingInv, WorkersInv, Exclusive, Drafting, Drafts
  <2>3. \A v \in Workers \ {w} : Drafting(v) => temp'[local[v].item] = temp[local[v].item]
    BY <2>1, <2>2 DEF PlacingInv, WorkerType, Local
  <2>4. \A v \in Workers \ {w} : ~(Drafting(v) /\ local[v].item = k.item)
    BY <1>3, <2>2
  <2>5. temp'[k.item] \in {"own", "mixed"} /\ k.item \in Items
    BY <1>1, <1>3, <2>1
  <2> HIDE DEF l
  <2>6. Fits("check", k)' /\ "check" \in Labels
    BY <1>1, <1>3, <2>5 DEF Fits, Drafts, Announced, Labels
  <2> QED BY <1>2, <2>1, <2>3, <2>4, <2>6, StepSound
<1> QED BY <1>4, <1>5

LEMMA PublishSound ==
  ASSUME PlacingInv, NEW w \in Workers, Publish(w) PROVE PlacingInv'
<1> DEFINE l == local[w]
<1> PICK k \in Local : k = l
  BY WorkerFacts
<1> DEFINE i == k.item
<1>1. /\ UNCHANGED <<mode, itemVars, rowVars, dir, source, disturbed, budget>>
      /\ pc[w] = "publish" /\ l \in Local /\ i \in Items /\ Fits("publish", l)
      /\ UNCHANGED <<mode, status, version, row, dirRow, dir, source, disturbed, local>>
      /\ ItemInv(i) /\ mode # "REUSE" /\ row[i] # "NONE"
      /\ mode \in {"HARDLINK", "SYMLINK", "COPY", "REUSE"}
  BY WorkerFacts DEF Publish, itemVars, rowVars, Fits, Announced
<1>2. local' = [local EXCEPT ![w] = k]
  BY <1>1 DEF PlacingInv, WorkerType
<1>3. Fits("publish", k) /\ k.item = i
  BY <1>1
<1>4. CASE Goto(w, "rescue") /\ UNCHANGED <<target, temp, made>>
  <2>1. Fits("rescue", k) /\ ~Drafts("rescue", k) /\ "rescue" \in Labels
    BY <1>3 DEF Fits, Drafts, Announced, Labels
  <2>2. UNCHANGED Data /\ budget' \in Nat
    BY <1>1, <1>4 DEF Data, PlacingInv, DataType
  <2> QED BY <1>2, <1>4, <2>1, <2>2, QuietSound DEF Goto
<1>5. ASSUME made' = made \cup {i}, Goto(w, "confirm"), i \in disturbed \/ Current(i)',
             Calm, DataType', DiskInv',
             \A v \in Workers \ {w} : Drafting(v) => temp'[local[v].item] = temp[local[v].item]
      PROVE  PlacingInv'
  <2>1. pc' = [pc EXCEPT ![w] = "confirm"] /\ "confirm" \in Labels /\ ~Drafts("confirm", k)
    BY <1>5 DEF Goto, Labels, Drafts
  <2>2. k.item \in made' /\ (k.item \in disturbed \/ Current(k.item)')
    BY <1>5
  <2> HIDE DEF l
  <2>3. Fits("confirm", k)'
    BY <1>1, <1>3, <2>2 DEF Fits, Drafts, Announced
  <2> QED BY <1>2, <1>5, <2>1, <2>3, StepSound
<1>6. CASE l.lost /\ made' = made \cup {i} /\ Goto(w, "confirm") /\ UNCHANGED <<target, temp>>
  <2>1. i \in disturbed
    BY <1>1, <1>6 DEF Fits
  <2>2. DataType' /\ Calm
    BY <1>1, <1>6 DEF PlacingInv, DataType, Calm, Current, IsPlanned, SourceOk
  <2>3. ASSUME NEW j \in Items PROVE ItemInv(j)'
    <3>1. ItemInv(j)
      BY DEF PlacingInv, DiskInv
    <3>2. Current(j)' = Current(j)
      BY <1>1, <1>6 DEF Current, IsPlanned, SourceOk
    <3> QED BY <1>1, <1>6, <3>1, <3>2 DEF ItemInv, JournalsApplied
  <2>4. DiskInv'
    BY <1>1, <2>3 DEF DiskInv, PlacingInv
  <2> QED BY <1>5, <1>6, <2>1, <2>2, <2>4
<1>7. CASE /\ ~l.lost /\ Renames(i) /\ made' = made \cup {i} /\ Goto(w, "confirm")
           /\ target' = [target EXCEPT ![i] = temp[i]]
           /\ temp' = [temp EXCEPT ![i] = "absent"]
  <2>1. temp[i] = "own" /\ target[i] = "absent"
    BY <1>1, <1>7 DEF Fits, Drafts, ItemInv, Renames, PlacingInv, DataType
  <2>2. /\ target'[i] = "own" /\ temp'[i] = "absent"
        /\ \A j \in Items \ {i} : target'[j] = target[j] /\ temp'[j] = temp[j]
    BY <1>1, <1>7, <2>1 DEF PlacingInv, DataType
  <2>3. DataType'
    BY <1>1, <1>7, <2>1 DEF PlacingInv, DataType, FileState
  <2>4. /\ \A j \in Items \ {i} : Current(j)' = Current(j)
        /\ i \in disturbed \/ Current(i)'
        /\ ~Current(i)
    BY <1>1, <2>1, <2>2 DEF Current, IsPlanned, SourceOk, ItemInv
  <2>5. ASSUME NEW j \in Items PROVE ItemInv(j)'
    <3>1. ItemInv(j)
      BY DEF PlacingInv, DiskInv
    <3>2. CASE j # i
      BY <1>1, <1>7, <2>2, <2>4, <3>1, <3>2 DEF ItemInv, JournalsApplied
    <3>3. CASE j = i
      BY <1>1, <1>7, <2>2, <2>4, <3>1, <3>3 DEF ItemInv, JournalsApplied
    <3> QED BY <3>2, <3>3
  <2>6. DiskInv'
    BY <1>1, <2>5 DEF DiskInv, PlacingInv
  <2>7. Calm
    <3>1. \A j \in Items : j \notin disturbed /\ Current(j) => Current(j)'
      BY <2>4
    <3> QED BY <1>1, <1>7, <3>1 DEF Calm, PlacingInv, DataType
  <2>8. \A v \in Workers \ {w} : Drafting(v) => local[v].item # i /\ local[v].item \in Items
    BY <1>1, <1>7 DEF PlacingInv, WorkersInv, WorkerType, Local, Exclusive, Drafting, Drafts
  <2>9. \A v \in Workers \ {w} : Drafting(v) => temp'[local[v].item] = temp[local[v].item]
    BY <2>2, <2>8
  <2> QED BY <1>5, <1>7, <2>3, <2>4, <2>6, <2>7, <2>9
<1> QED BY <1>4, <1>6, <1>7 DEF Publish

-----------------------------------------------------------------------------
(* The steps of the others. *)

LEMMA WorldSound ==
  ASSUME PlacingInv, UNCHANGED <<pc, local, temp>>, Calm, DataType', DiskInv',
         \A i \in Items : status'[i] = "FILES_MATERIALIZED" => status[i] = "FILES_MATERIALIZED"
  PROVE  PlacingInv'
<1>1. WorkerType /\ WorkersInv
  BY DEF PlacingInv
<1>2. WorkerType'
  BY <1>1 DEF WorkerType
<1>3. ASSUME NEW w \in Workers PROVE Fits(pc[w], local[w])'
  <2> PICK k \in Local : k = local[w]
    BY <1>1 DEF WorkerType
  <2> PICK p \in Labels : p = pc[w]
    BY <1>1 DEF WorkerType
  <2>1. Fits(p, k) /\ k.item \in Items
    BY <1>1 DEF WorkersInv, Local
  <2>2. temp'[k.item] = temp[k.item]
    OBVIOUS
  <2>3. Fits(p, k)'
    BY <2>1, <2>2, FitsStays
  <2>4. pc'[w] = p /\ local'[w] = k
    OBVIOUS
  <2> QED BY <2>3, <2>4 DEF Fits, Drafts
<1>4. Exclusive'
  BY <1>1 DEF Exclusive, WorkersInv, Drafting, Drafts, Calm
<1> QED BY <1>2, <1>3, <1>4 DEF PlacingInv, WorkersInv

LEMMA CrashSound ==
  ASSUME PlacingInv, NEW w \in Workers, Crash(w) PROVE PlacingInv'
<1> PICK k \in Local : k = local[w]
  BY WorkerFacts
<1>1. local' = [local EXCEPT ![w] = k] /\ pc' = [pc EXCEPT ![w] = "idle"] /\ pc[w] # "idle"
  BY DEF Crash, PlacingInv, WorkerType, Goto
<1>2. UNCHANGED Data /\ budget' \in Nat
  BY DEF Crash, Event, Data, itemVars, rowVars, diskVars, PlacingInv, DataType
<1>3. Fits(pc[w], k)
  BY WorkerFacts
<1>4. Fits("idle", k) /\ "idle" \in Labels /\ ~Drafts("idle", k)
  BY <1>1, <1>3, PlainFits DEF Plain, Labels, Drafts
<1> QED BY <1>1, <1>2, <1>4, QuietSound

LEMMA SeedSound ==
  ASSUME PlacingInv, NEW i \in Items, Seed(i) PROVE PlacingInv'
<1>1. /\ UNCHANGED <<mode, rowVars, diskVars>> /\ budget' \in Nat /\ UNCHANGED <<pc, local>>
      /\ status' \in [Items -> Status] /\ version' \in [Items -> Nat]
  BY DEF Seed, PlacingInv, DataType, Status
<1>2. \A j \in Items : status'[j] \in {status[j], "SEEDING", "EXECUTION_ERROR"}
  BY DEF Seed, PlacingInv, DataType
<1>3. Calm /\ DataType' /\ DiskInv' /\ UNCHANGED temp
  BY <1>1, <1>2, StatusSound
<1> QED BY <1>1, <1>2, <1>3, WorldSound

LEMMA RetrySound ==
  ASSUME PlacingInv, NEW i \in Items, Retry(i) PROVE PlacingInv'
<1>1. /\ UNCHANGED <<mode, rowVars, diskVars>> /\ budget' \in Nat /\ UNCHANGED <<pc, local>>
      /\ status' \in [Items -> Status] /\ version' \in [Items -> Nat]
  BY DEF Retry, Event, PlacingInv, DataType, Status
<1>2. \A j \in Items : status'[j] = status[j] \/ (status'[j] = "MATCH_PENDING" /\ row[j] = "NONE")
  BY DEF Retry, PlacingInv, DataType
<1>3. Calm /\ DataType' /\ DiskInv' /\ UNCHANGED temp
  BY <1>1, <1>2, StatusSound
<1> QED BY <1>1, <1>2, <1>3, WorldSound

LEMMA DeleteSound ==
  ASSUME PlacingInv, NEW i \in Items, Delete(i) PROVE PlacingInv'
<1>1. /\ UNCHANGED <<mode, version, row, dir, source, target, temp, made, disturbed, pc, local>>
      /\ budget' \in Nat /\ status' = [status EXCEPT ![i] = "DELETED"]
      /\ UNCHANGED diskVars
  BY DEF Delete, Event, diskVars, PlacingInv, DataType
<1>2. status' \in [Items -> Status]
  BY <1>1 DEF PlacingInv, DataType, Status
<1>3. \A j \in Items : status'[j] \in {status[j], "DELETED"}
  BY <1>1 DEF PlacingInv, DataType
<1>4. dirRow \in [st : RowStatus, owner : Items, gone : BOOLEAN]
  BY DEF PlacingInv, DataType
<1>5. CASE dirRow' = dirRow
  <2>1. UNCHANGED <<mode, rowVars, diskVars>> /\ version' \in [Items -> Nat]
    BY <1>1, <1>5 DEF rowVars, PlacingInv, DataType
  <2>2. Calm /\ DataType' /\ DiskInv' /\ UNCHANGED temp
    BY <1>1, <1>2, <1>3, <2>1, StatusSound
  <2> QED BY <1>1, <1>3, <2>2, WorldSound
<1>6. CASE dirRow' = [dirRow EXCEPT !.st = "NONE", !.gone = TRUE]
  <2>1. /\ dirRow' \in [st : RowStatus, owner : Items, gone : BOOLEAN]
        /\ dirRow'.st = "NONE" /\ dirRow'.gone = TRUE
    BY <1>4, <1>6 DEF RowStatus
  <2>2. DataType'
    BY <1>1, <1>2, <2>1 DEF PlacingInv, DataType
  <2>3. ASSUME NEW j \in Items PROVE ItemInv(j)'
    <3>1. ItemInv(j)
      BY DEF PlacingInv, DiskInv
    <3>2. Current(j)' = Current(j)
      BY <1>1 DEF Current, IsPlanned, SourceOk
    <3> QED BY <1>1, <1>3, <2>1, <3>1, <3>2 DEF ItemInv
  <2>4. DiskInv'
    BY <2>1, <2>3 DEF DiskInv
  <2>5. Calm
    BY <1>1 DEF Calm, PlacingInv, DataType, Current, IsPlanned, SourceOk
  <2> QED BY <1>1, <1>3, <2>2, <2>4, <2>5, WorldSound
<1> QED BY <1>5, <1>6 DEF Delete

LEMMA MeddleItemSound ==
  ASSUME PlacingInv, NEW i \in Items, MeddleFile(i) \/ MeddleSource(i) PROVE PlacingInv'
<1>1. /\ UNCHANGED <<mode, status, version, row, dirRow, dir, temp, made, pc, local>>
      /\ budget' \in Nat /\ disturbed' = disturbed \cup {i}
  BY DEF MeddleFile, MeddleSource, Event, itemVars, rowVars, PlacingInv, DataType
<1>2. /\ source' \in [Items -> {"planned", "changed"}] /\ target' \in [Items -> FileState]
      /\ target'[i] # "mixed" /\ (source[i] = "changed" => source'[i] = "changed")
      /\ \A j \in Items \ {i} : source'[j] = source[j] /\ target'[j] = target[j]
  <2>1. CASE MeddleFile(i)
    <3>1. PICK f \in {"absent", "twin", "foreign"} : target' = [target EXCEPT ![i] = f]
      BY <2>1 DEF MeddleFile
    <3> QED BY <2>1, <3>1 DEF MeddleFile, PlacingInv, DataType, FileState
  <2>2. CASE MeddleSource(i)
    BY <2>2 DEF MeddleSource, PlacingInv, DataType, DiskInv, ItemInv
  <2> QED BY <2>1, <2>2
<1>3. DataType'
  BY <1>1, <1>2 DEF PlacingInv, DataType
<1>4. \A j \in Items \ {i} : Current(j)' = Current(j)
  BY <1>1, <1>2 DEF Current, IsPlanned, SourceOk
<1>5. ASSUME NEW j \in Items PROVE ItemInv(j)'
  <2>1. ItemInv(j)
    BY DEF PlacingInv, DiskInv
  <2>2. CASE j = i
    BY <1>1, <1>2, <2>1, <2>2 DEF ItemInv
  <2>3. CASE j # i
    BY <1>1, <1>2, <1>4, <2>1, <2>3 DEF ItemInv, JournalsApplied
  <2> QED BY <2>2, <2>3
<1>6. DiskInv'
  BY <1>1, <1>5 DEF DiskInv, PlacingInv
<1>7. Calm
  BY <1>1, <1>4 DEF Calm, PlacingInv, DataType
<1> QED BY <1>1, <1>3, <1>6, <1>7, WorldSound

LEMMA MeddleDirectorySound ==
  ASSUME PlacingInv, MeddleDirectory PROVE PlacingInv'
<1>1. /\ UNCHANGED <<mode, status, version, row, dirRow, source, made, pc>>
      /\ budget' \in Nat /\ disturbed' = Items /\ mode # "REUSE" /\ dir' = "foreign"
      /\ target' = [i \in Items |-> "absent"] /\ temp' = [i \in Items |-> "absent"]
  BY DEF MeddleDirectory, Event, itemVars, rowVars, PlacingInv, DataType
<1>2. DataType'
  BY <1>1 DEF PlacingInv, DataType, FileState
<1>3. ASSUME NEW j \in Items PROVE ItemInv(j)'
  <2>1. ItemInv(j)
    BY DEF PlacingInv, DiskInv
  <2> QED BY <1>1, <2>1 DEF ItemInv
<1>4. DiskInv'
  BY <1>1, <1>3 DEF DiskInv
<1>5. ASSUME NEW w \in Workers
      PROVE  /\ local'[w] \in Local /\ local'[w].item = local[w].item
             /\ local'[w].mark = local[w].mark
             /\ pc[w] \in {"fill", "check", "publish"} => local'[w].lost
  <2> DEFINE lost == local[w].lost \/ pc[w] \in {"fill", "check", "publish"}
  <2>1. local[w] \in Local /\ local'[w] = [local[w] EXCEPT !.lost = lost] /\ lost \in BOOLEAN
    BY DEF MeddleDirectory, PlacingInv, WorkerType, Local
  <2>2. lost = TRUE \/ lost = FALSE
    BY <2>1
  <2>3. pc[w] \in {"fill", "check", "publish"} => lost = TRUE
    BY <2>2
  <2> HIDE DEF lost
  <2>4. local'[w].lost = lost
    BY <2>1 DEF Local
  <2> QED BY <2>1, <2>3, <2>4 DEF Local
<1>6. WorkerType'
  <2>1. local' = [w \in Workers |-> local'[w]]
    BY DEF MeddleDirectory
  <2> QED BY <1>1, <1>5, <2>1 DEF PlacingInv, WorkerType
<1>7. ASSUME NEW w \in Workers PROVE Fits(pc[w], local[w])' /\ ~Drafting(w)'
  <2>1. Fits(pc[w], local[w]) /\ local[w].item \in Items
    BY WorkerFacts
  <2>2. ~Drafting(w)'
    BY <1>1, <1>5 DEF Drafting, Drafts
  <2> QED BY <1>1, <1>5, <2>1, <2>2 DEF Fits, Drafting
<1>8. WorkersInv'
  BY <1>7 DEF WorkersInv, Exclusive
<1> QED BY <1>2, <1>4, <1>6, <1>8 DEF PlacingInv

-----------------------------------------------------------------------------
(* The invariant and what it shows. *)

LEMMA LeastIsItem == Least \in Items
<1> DEFINE R == OpToRel(<, Nat)
<1>1. IsWellFoundedOn(R, Nat)
  BY NatLessThanWellFounded
<1>2. Items \subseteq Nat /\ Items # {}
  BY ItemsAssumption
<1> HIDE DEF R
<1>3. PICK i \in Items : \A j \in Items : ~(<<j, i>> \in R)
  BY <1>1, <1>2, WFMin
<1>4. \A j \in Items : ~(j < i)
  BY <1>2, <1>3 DEF R, OpToRel
<1>5. \A j \in Items : i <= j
  BY <1>2, <1>4
<1> QED BY <1>5 DEF Least

LEMMA InitPlacing == Init => PlacingInv
<1> SUFFICES ASSUME Init PROVE PlacingInv
  OBVIOUS
<1>1. Least \in Items /\ MaxEvents \in Nat
  BY LeastIsItem, BoundsAssumption
<1>2. DataType
  BY <1>1 DEF Init, DataType, Status, RowStatus, FileState
<1>3. WorkerType
  <2>1. [item |-> Least, ver |-> 0, seen |-> "NONE", lost |-> FALSE, mark |-> "none"] \in Local
    BY <1>1 DEF Local, RowStatus
  <2> QED BY <2>1 DEF Init, WorkerType, Labels
<1>4. DiskInv
  BY DEF Init, DiskInv, ItemInv
<1>5. \A w \in Workers : Fits(pc[w], local[w]) /\ ~Drafting(w)
  BY DEF Init, Fits, Drafts, Drafting, Announced
<1> QED BY <1>2, <1>3, <1>4, <1>5 DEF PlacingInv, WorkersInv, Exclusive

LEMMA WorkerStepSound ==
  ASSUME PlacingInv, NEW w \in Workers, WorkerStep(w) PROVE PlacingInv'
BY ReserveSound, LookAtDirectorySound, RecordDirectoryIntentSound, MakeDirectorySound,
   ConfirmDirectorySound, RecordFileIntentSound, LookAtAppliedSound, RecoverSound, PlaceSound,
   FillSound, CheckAgainSound, PublishSound, RescueSound, ReuseSound, ConfirmFileSound,
   MarkReconcileSound, FinishSound, MarkErrorSound DEF WorkerStep

LEMMA NextPlacing == PlacingInv /\ [Next]_vars => PlacingInv'
<1> SUFFICES ASSUME PlacingInv, [Next]_vars PROVE PlacingInv'
  OBVIOUS
<1>1. ASSUME NEW w \in Workers, WorkerStep(w) PROVE PlacingInv'
  BY <1>1, WorkerStepSound
<1>2. ASSUME NEW w \in Workers, NEW i \in Items, List(w, i) PROVE PlacingInv'
  BY <1>2, ListSound
<1>3. CASE World
  BY <1>3, SeedSound, RetrySound, DeleteSound, MeddleItemSound, CrashSound,
     MeddleDirectorySound DEF World
<1>4. CASE UNCHANGED vars
  <2>1. UNCHANGED <<pc, local, temp, status, row, dir, target, source, made, disturbed, mode>>
        /\ UNCHANGED <<version, dirRow, budget>>
    BY <1>4 DEF vars
  <2>2. DataType' /\ DiskInv' /\ Calm
    BY <2>1 DEF PlacingInv, DataType, DiskInv, ItemInv, Current, IsPlanned, SourceOk,
                JournalsApplied, Calm
  <2> QED BY <2>1, <2>2, WorldSound
<1> QED BY <1>1, <1>2, <1>3, <1>4 DEF Next

\* The inductive invariant: what is known of every item and of the directory,
\* what each worker knows at its label, and that two workers never copy under
\* the same temporary name.
THEOREM PlacingInvariant == Spec => []PlacingInv
BY InitPlacing, NextPlacing, PTL DEF Spec

\* What stands under a final name by the program's own hand is the file the plan
\* froze, never one read while its source changed (create_copied_file_atomic),
\* and a copy is confirmed only when the program put it there itself.
THEOREM PlacedFilesAreSound == Spec => []PlacedIsSound
<1>1. PlacingInv => PlacedIsSound
  BY DEF PlacingInv, DataType, WorkerType, DiskInv, ItemInv, PlacedIsSound, TypeOK,
         PublishedWhole, CopyIsOwn
<1> QED BY <1>1, PlacingInvariant, PTL

\* A file that was put in place is known to a row; and what an item leaves to
\* seeding is proven, as long as no one else touched its disk and the owner of
\* the directory's row was not deleted (_mark_materialized).
THEOREM PlacedRowsAreTrue == Spec => []RowsAreTrue
<1>1. ASSUME PlacingInv PROVE EffectIsRecorded
  BY <1>1 DEF PlacingInv, DiskInv, ItemInv, EffectIsRecorded
<1>2. ASSUME PlacingInv, NEW i \in Items,
             status[i] = "FILES_MATERIALIZED", i \notin disturbed,
             mode # "COPY" \/ Cardinality(Workers) = 1, ~dirRow.gone
      PROVE  JournalsApplied(i) /\ TargetsCurrent(i)
  <2>1. ItemInv(i) /\ (dirRow.st = "APPLIED" => dir # "absent")
    BY <1>2 DEF PlacingInv, DiskInv
  <2>2. JournalsApplied(i)
    BY <1>2, <2>1 DEF ItemInv, Alone
  <2>3. dir = "own"
    BY <1>2, <2>1, <2>2 DEF ItemInv, JournalsApplied, PlacingInv, DataType
  <2> QED BY <1>2, <2>1, <2>2, <2>3 DEF ItemInv, JournalsApplied, TargetsCurrent, SourceOk
<1>3. PlacingInv => RowsAreTrue
  BY <1>1, <1>2 DEF RowsAreTrue, ProofStands
<1> QED BY <1>3, PlacingInvariant, PTL

-----------------------------------------------------------------------------
(* What no step does. *)

LEMMA TargetsStand ==
  ASSUME PlacingInv, [Next]_vars, ~Meddled, NEW i \in Items, target[i] # "absent"
  PROVE  target'[i] = target[i]
<1>1. ASSUME NEW w \in Workers, Publish(w) PROVE target'[i] = target[i]
  BY <1>1 DEF Publish, Renames, PlacingInv, DataType
<1>2. ASSUME NEW w \in Workers, WorkerStep(w), ~Publish(w) PROVE UNCHANGED target
  BY <1>2 DEF WorkerStep, Reserve, LookAtDirectory, RecordDirectoryIntent, MakeDirectory,
              ConfirmDirectory, RecordFileIntent, LookAtApplied, Recover, Place, Fill,
              CheckAgain, Rescue, Reuse, ConfirmFile, MarkReconcile, Finish, MarkError, diskVars
<1>3. ASSUME NEW w \in Workers, NEW j \in Items, List(w, j) PROVE UNCHANGED target
  BY <1>3 DEF List, diskVars
<1>4. CASE World
  BY <1>4 DEF World, Meddled, Seed, Retry, Delete, Crash, diskVars
<1>5. CASE UNCHANGED vars
  BY <1>5 DEF vars
<1> QED BY <1>1, <1>2, <1>3, <1>4, <1>5 DEF Next

\* The program never changes or removes what it finds under a final name
\* (_rename_noreplace): whatever step is not a user's leaves every file alone.
THEOREM NothingIsReplaced == Spec => NothingReplaced
<1>1. PlacingInv /\ [Next]_vars =>
        [~Meddled => \A i \in Items : target[i] # "absent" => target'[i] = target[i]]_vars
  BY TargetsStand
<1> QED BY <1>1, PlacingInvariant, PTL DEF Spec, NothingReplaced

-----------------------------------------------------------------------------
(* The refinement: placing a file keeps the promise of ExternalOperation. *)

\* A write of one journal row that follows the protocol.
LEMMA RowPromise ==
  ASSUME PlacingInv, UNCHANGED made, NEW i \in Items, NEW s, row' = [row EXCEPT ![i] = s],
         \/ row[i] = "NONE" /\ s = "INTENT_RECORDED"
         \/ row[i] = "INTENT_RECORDED" /\ s = "APPLIED"
         \/ row[i] \in {"INTENT_RECORDED", "APPLIED"} /\ s = "RECONCILE_REQUIRED"
         \/ s = row[i]
  PROVE  [Promise!Next]_(Promise!vars)
<1>1. CASE row[i] = "NONE" /\ s = "INTENT_RECORDED"
  BY <1>1 DEF Promise!Next, Promise!RecordIntent
<1>2. CASE row[i] = "INTENT_RECORDED" /\ s = "APPLIED"
  BY <1>2 DEF Promise!Next, Promise!Confirm
<1>3. CASE row[i] \in {"INTENT_RECORDED", "APPLIED"} /\ s = "RECONCILE_REQUIRED"
  BY <1>3 DEF Promise!Next, Promise!Escalate
<1>4. CASE s = row[i]
  <2>1. UNCHANGED row
    BY <1>4 DEF PlacingInv, DataType
  <2> QED BY <2>1 DEF Promise!vars
<1> QED BY <1>1, <1>2, <1>3, <1>4

LEMMA PublishPromise ==
  ASSUME PlacingInv, NEW w \in Workers, Publish(w) PROVE [Promise!Next]_(Promise!vars)
<1> PICK i \in Items : i = local[w].item
  BY WorkerFacts
<1>1. UNCHANGED row /\ row[i] # "NONE" /\ (made' = made \/ made' = made \cup {i})
  BY WorkerFacts DEF Publish, rowVars, Fits, Announced
<1>2. CASE made' = made
  BY <1>1, <1>2 DEF Promise!vars
<1>3. CASE i \notin made /\ made' = made \cup {i}
  BY <1>1, <1>3 DEF Promise!Next, Promise!Dispatch
<1> QED BY <1>1, <1>2, <1>3

LEMMA RecordFileIntentPromise ==
  ASSUME PlacingInv, NEW w \in Workers, RecordFileIntent(w)
  PROVE  [Promise!Next]_(Promise!vars)
<1> PICK i \in Items : i = local[w].item
  BY WorkerFacts
<1>1. UNCHANGED made
  BY DEF RecordFileIntent, diskVars
<1>2. CASE UNCHANGED row
  BY <1>1, <1>2 DEF Promise!vars
<1>3. CASE row[i] = "NONE" /\ row' = [row EXCEPT ![i] = "INTENT_RECORDED"]
  BY <1>1, <1>3, RowPromise
<1> QED BY <1>2, <1>3 DEF RecordFileIntent

LEMMA ConfirmFilePromise ==
  ASSUME PlacingInv, NEW w \in Workers, ConfirmFile(w)
  PROVE  [Promise!Next]_(Promise!vars)
<1> PICK i \in Items : i = local[w].item
  BY WorkerFacts
<1>1. UNCHANGED made
  BY DEF ConfirmFile, diskVars
<1>2. CASE UNCHANGED row
  BY <1>1, <1>2 DEF Promise!vars
<1>3. CASE row[i] = "INTENT_RECORDED" /\ row' = [row EXCEPT ![i] = "APPLIED"]
  BY <1>1, <1>3, RowPromise
<1> QED BY <1>2, <1>3 DEF ConfirmFile, Applied, RowOf

LEMMA MarkReconcilePromise ==
  ASSUME PlacingInv, NEW w \in Workers, MarkReconcile(w)
  PROVE  [Promise!Next]_(Promise!vars)
<1> PICK i \in Items : i = local[w].item
  BY WorkerFacts
<1> DEFINE s == Reopened(row[i], local[w].mark = "fileDrift")
<1>1. UNCHANGED made
  BY DEF MarkReconcile, diskVars
<1>2. CASE UNCHANGED row
  BY <1>1, <1>2 DEF Promise!vars
<1>3. CASE row' = [row EXCEPT ![i] = s]
  <2>1. \/ row[i] \in {"INTENT_RECORDED", "APPLIED"} /\ s = "RECONCILE_REQUIRED"
        \/ s = row[i]
    BY DEF Reopened
  <2> HIDE DEF s
  <2> QED BY <1>1, <1>3, <2>1, RowPromise
<1> QED BY <1>2, <1>3 DEF MarkReconcile

LEMMA StepKeepsPromise == PlacingInv /\ [Next]_vars => [Promise!Next]_(Promise!vars)
<1> SUFFICES ASSUME PlacingInv, [Next]_vars PROVE [Promise!Next]_(Promise!vars)
  OBVIOUS
<1>1. ASSUME NEW w \in Workers,
             Publish(w) \/ RecordFileIntent(w) \/ ConfirmFile(w) \/ MarkReconcile(w)
      PROVE  [Promise!Next]_(Promise!vars)
  BY <1>1, PublishPromise, RecordFileIntentPromise, ConfirmFilePromise, MarkReconcilePromise
<1>2. ASSUME NEW w \in Workers, WorkerStep(w),
             ~(Publish(w) \/ RecordFileIntent(w) \/ ConfirmFile(w) \/ MarkReconcile(w))
      PROVE  UNCHANGED <<row, made>>
  BY <1>2 DEF WorkerStep, Reserve, LookAtDirectory, RecordDirectoryIntent, MakeDirectory,
              ConfirmDirectory, LookAtApplied, Recover, Place, Fill, CheckAgain, Rescue,
              Reuse, Finish, MarkError, diskVars, rowVars
<1>3. ASSUME NEW w \in Workers, NEW j \in Items, List(w, j) PROVE UNCHANGED <<row, made>>
  BY <1>3 DEF List, diskVars, rowVars
<1>4. CASE World
  <2>1. UNCHANGED <<row, made>>
    BY <1>4 DEF World, Seed, Retry, Delete, Crash, MeddleFile, MeddleSource, MeddleDirectory,
                diskVars, rowVars
  <2> QED BY <2>1 DEF Promise!vars
<1>5. CASE UNCHANGED <<row, made>>
  BY <1>5 DEF Promise!vars
<1> QED BY <1>1, <1>2, <1>3, <1>4, <1>5 DEF Next, vars

LEMMA InitKeepsPromise == Init => Promise!Init
BY DEF Init, Promise!Init

\* Placing a file implements ExternalOperation: the row is there before the
\* rename, the file is put in place at most once under it, then the row is
\* confirmed or escalated for good.
THEOREM PlacingKeepsPromise == Spec => KeepsPromise
BY InitKeepsPromise, StepKeepsPromise, PlacingInvariant, PTL
   DEF Spec, KeepsPromise, Promise!Spec

\* A row that says APPLIED is left alone while no user touches the files of its
\* item: what the comment at _APPLIED_FILESYSTEM_DRIFT_CODES says holds in every
\* storage mode but COPY.
AppliedIsKeptUnlessCopied ==
  [][mode # "COPY" =>
       \A i \in Items :
         row[i] = "APPLIED" /\ i \notin disturbed' => row'[i] = "APPLIED"]_vars

THEOREM AppliedStays == Spec => AppliedIsKeptUnlessCopied
<1> DEFINE Kept == mode # "COPY" => \A i \in Items :
                     row[i] = "APPLIED" /\ i \notin disturbed' => row'[i] = "APPLIED"
<1>1. ASSUME PlacingInv, PlacingInv', mode' = mode,
             Next, NEW i \in Items, mode # "COPY", row[i] = "APPLIED", i \notin disturbed'
      PROVE  row'[i] = "APPLIED"
  <2>1. ASSUME NEW w \in Workers, RecordFileIntent(w) \/ ConfirmFile(w)
        PROVE  row'[i] = "APPLIED"
    BY <1>1, <2>1 DEF RecordFileIntent, ConfirmFile, Applied, PlacingInv, DataType
  <2>2. ASSUME NEW w \in Workers, MarkReconcile(w) PROVE row'[i] = "APPLIED"
    <3>1. local[w].mark = "fileDrift" => local[w].item \in disturbed
      BY <1>1, WorkerFacts DEF Fits
    <3>2. disturbed' = disturbed
      BY <2>2 DEF MarkReconcile, diskVars
    <3> QED BY <1>1, <2>2, <3>1, <3>2 DEF MarkReconcile, Reopened, PlacingInv, DataType
  <2>3. ASSUME NEW w \in Workers, WorkerStep(w),
               ~(RecordFileIntent(w) \/ ConfirmFile(w) \/ MarkReconcile(w))
        PROVE  UNCHANGED row
    BY <2>3 DEF WorkerStep, Reserve, LookAtDirectory, RecordDirectoryIntent, MakeDirectory,
                ConfirmDirectory, LookAtApplied, Recover, Place, Fill, CheckAgain, Publish,
                Rescue, Reuse, Finish, MarkError, rowVars
  <2>4. ASSUME NEW w \in Workers, NEW j \in Items, List(w, j) PROVE UNCHANGED row
    BY <2>4 DEF List, rowVars
  <2>5. CASE World
    BY <1>1, <2>5 DEF World, Seed, Retry, Delete, Crash, MeddleFile, MeddleSource,
                      MeddleDirectory, rowVars
  <2> QED BY <1>1, <2>1, <2>2, <2>3, <2>4, <2>5 DEF Next
<1>2. ASSUME PlacingInv, Next PROVE PlacingInv' /\ mode' = mode
  <2>1. ASSUME NEW w \in Workers, WorkerStep(w) PROVE mode' = mode
    BY <2>1 DEF WorkerStep, Reserve, LookAtDirectory, RecordDirectoryIntent, MakeDirectory,
       ConfirmDirectory, RecordFileIntent, LookAtApplied, Recover, Place, Fill, CheckAgain,
       Publish, Rescue, Reuse, ConfirmFile, MarkReconcile, Finish, MarkError
  <2> QED BY <1>2, <2>1, NextPlacing DEF Next, List, World, Seed, Retry, Delete, Crash,
             MeddleFile, MeddleSource, MeddleDirectory
<1>3. PlacingInv /\ [Next]_vars => [Kept]_vars
  BY <1>1, <1>2
<1> QED BY <1>3, PlacingInvariant, PTL DEF Spec, AppliedIsKeptUnlessCopied
=============================================================================
