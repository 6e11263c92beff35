------------------------ MODULE OutsideProofs ------------------------
(***************************************************************************)
(* Proofs about the services of MCServices that change files on disk, for  *)
(* every value of their constants: links, isolating copies and rollback of *)
(* a task, and the replacement of duplicate movies.  A run follows one     *)
(* service; each section proves the invariant of one of them from its own  *)
(* initial states and steps.                                               *)
(***************************************************************************)
EXTENDS MCServices, TLAPS

-----------------------------------------------------------------------------
(* The files of a task *)

\* The link of a file has not been recorded, or not been made.
Early(f) == filesJournal[<<"link", f>>].status \in {"NONE", "INTENT_RECORDED"}

\* The directory and the links are what a rollback undoes.
Undoable(r) == r = Filesystem!DirRow \/ r[1] = "link"

\* Which row a call works on, and what it has found out or done by its step.
FilesCallInv ==
    /\ filesCall.op = "none" => filesCall = Filesystem!Idle
    /\ filesCall.op \in {"link", "isolate", "cleanup"} => \E f \in Files : filesCall.row = <<filesCall.op, f>>
    /\ filesCall.op = "rollback" => Undoable(filesCall.row) /\ filesCall.row \in filesEffects
    /\ filesCall.op = "cleanup" => filesGone
    /\ filesCall.step = "mkdir_done" => Filesystem!DirRow \in filesEffects
    /\ filesCall.step = "publish_done" => filesCall.row \in filesEffects
    /\ Filesystem!At("link", "temp") \/ Filesystem!At("link", "publish") => Filesystem!Is(filesCall.row, "INTENT_RECORDED")
    /\ filesCall.op = "isolate" => ~Early(Filesystem!F)
    /\ Filesystem!At("isolate", "mark") => filesSpare[Filesystem!F] = "bare"
    /\ Filesystem!At("isolate", "fill") => filesSpare[Filesystem!F] \in {"owned", "full"} /\ Filesystem!Owned
    /\ Filesystem!At("isolate", "swap") => filesSpare[Filesystem!F] = "full" /\ Filesystem!Owned
    /\ Filesystem!At("isolate", "swap_done") => filesAt[Filesystem!F] # "link"
    /\ Filesystem!At("rollback", "remove_done") /\ filesCall.row # Filesystem!DirRow => filesAt[Filesystem!F] # "link"

\* What a row says was put there here, and a file is isolated only after it was linked.
FilesRowInv ==
    /\ \A r \in Filesystem!Rows : /\ Undoable(r)
                       /\ \/ filesJournal[r].proof
                          \/ filesJournal[r].status \in {"APPLIED", "ROLLBACK_PENDING", "ROLLED_BACK"}
                       => r \in filesEffects
    /\ \A f \in Files : ~Filesystem!Is(<<"isolate", f>>, "NONE") => ~Early(f)

FilesInv ==
    /\ Filesystem!TypeOK /\ FilesCallInv /\ FilesRowInv /\ Filesystem!IsolatedStaysApart
    /\ Filesystem!CopyHasOwner /\ Filesystem!RolledBackIsGone

FilesCall == [op : Filesystem!Ops, step : Filesystem!Steps, row : Filesystem!Rows]

\* What a step does to one row, the others staying as they are.
RowBecomes(r, status, proof) ==
    /\ filesJournal' \in [Filesystem!Rows -> Filesystem!Row]
    /\ filesJournal'[r].status = status /\ filesJournal'[r].proof = proof
    /\ \A q \in Filesystem!Rows \ {r} : filesJournal'[q] = filesJournal[q]

LEMMA FilesNames ==
  /\ Filesystem!DirRow \in Filesystem!Rows
  /\ \A f \in Files : /\ <<"link", f>> \in Filesystem!Rows /\ <<"isolate", f>> \in Filesystem!Rows /\ <<"cleanup", f>> \in Filesystem!Rows
                      /\ Undoable(<<"link", f>>) /\ ~Undoable(<<"isolate", f>>) /\ ~Undoable(<<"cleanup", f>>)
                      /\ <<"link", f>> # Filesystem!DirRow
  /\ \A f, g \in Files : /\ <<"link", f>> # <<"isolate", g>>
                         /\ <<"link", f>> = <<"link", g>> => f = g
                         /\ <<"isolate", f>> = <<"isolate", g>> => f = g
                         /\ <<"link", f>> # <<"cleanup", g>> /\ <<"isolate", f>> # <<"cleanup", g>>
                         /\ <<"isolate", f>> # Filesystem!DirRow /\ <<"cleanup", f>> # Filesystem!DirRow
  /\ \A r \in Filesystem!Rows : Undoable(r) => r = Filesystem!DirRow \/ \E f \in Files : r = <<"link", f>>
  BY DEF Filesystem!Rows, Filesystem!DirRow, Undoable

LEMMA FilesSet ==
  ASSUME Filesystem!TypeOK, NEW r \in Filesystem!Rows, NEW s \in Filesystem!Status, Filesystem!Set(r, s)
  PROVE  RowBecomes(r, s, filesJournal[r].proof)
<1>1. filesJournal' = [filesJournal EXCEPT ![r].status = s] /\ filesJournal \in [Filesystem!Rows -> Filesystem!Row]
      /\ filesJournal[r] \in Filesystem!Row
  BY DEF Filesystem!Set, Filesystem!TypeOK
<1>2. [filesJournal[r] EXCEPT !.status = s] \in Filesystem!Row
  BY <1>1 DEF Filesystem!Row
<1>3. filesJournal' \in [Filesystem!Rows -> Filesystem!Row]
  BY <1>1, <1>2
<1>4. filesJournal'[r] = [filesJournal[r] EXCEPT !.status = s]
  BY <1>1
<1>5. filesJournal'[r].status = s /\ filesJournal'[r].proof = filesJournal[r].proof
  BY <1>1, <1>4 DEF Filesystem!Row
<1>6. \A q \in Filesystem!Rows \ {r} : filesJournal'[q] = filesJournal[q]
  BY <1>1
<1> QED BY <1>3, <1>5, <1>6 DEF RowBecomes

LEMMA FilesSetApplied ==
  ASSUME Filesystem!TypeOK, NEW r \in Filesystem!Rows, Filesystem!SetApplied(r)
  PROVE  RowBecomes(r, "APPLIED", TRUE)
  BY DEF Filesystem!SetApplied, Filesystem!TypeOK, Filesystem!Row, Filesystem!Status, RowBecomes

LEMMA FilesRecorded ==
  ASSUME Filesystem!TypeOK, NEW r \in Filesystem!Rows, Filesystem!RecordIntent(r)
  PROVE  \/ UNCHANGED filesJournal /\ ~Filesystem!Is(r, "NONE")
         \/ RowBecomes(r, "INTENT_RECORDED", filesJournal[r].proof) /\ Filesystem!Is(r, "NONE")
<1>1. Filesystem!Is(r, "NONE") => Filesystem!Set(r, "INTENT_RECORDED")
  BY DEF Filesystem!RecordIntent, Filesystem!Set
<1>2. "INTENT_RECORDED" \in Filesystem!Status
  BY DEF Filesystem!Status
<1> QED BY <1>1, <1>2, FilesSet DEF Filesystem!RecordIntent

\* What the properties say of the disk and the rows.
FilesSafe == FilesRowInv /\ Filesystem!IsolatedStaysApart /\ Filesystem!CopyHasOwner /\ Filesystem!RolledBackIsGone

\* A row changes and the disk does not.
LEMMA FilesRows ==
  ASSUME Filesystem!TypeOK, FilesSafe, UNCHANGED Filesystem!disk, NEW r \in Filesystem!Rows,
         NEW s \in Filesystem!Status, NEW p \in BOOLEAN,
         RowBecomes(r, s, p), filesJournal[r].proof => p,
         Undoable(r) /\ (p \/ s \in {"APPLIED", "ROLLBACK_PENDING", "ROLLED_BACK"}) => r \in filesEffects,
         \A f \in Files : /\ r = <<"isolate", f>> /\ s # "NONE" => ~Early(f)
                          /\ r = <<"isolate", f>> /\ s = "APPLIED" => filesAt[f] # "link"
                          /\ r = <<"link", f>> /\ s \in {"NONE", "INTENT_RECORDED"} => Early(f)
                          /\ r = <<"link", f>> /\ s = "ROLLED_BACK" => filesAt[f] # "link"
  PROVE  FilesSafe'
<1>1. UNCHANGED <<filesDir, filesAt, filesTemp, filesSpare, filesSource, filesEffects>>
  BY DEF Filesystem!disk
<1>2. ASSUME NEW q \in Filesystem!Rows
      PROVE  /\ q = r => filesJournal'[q].status = s /\ filesJournal'[q].proof = p
             /\ q # r => filesJournal'[q] = filesJournal[q]
  BY DEF RowBecomes
<1>3. ASSUME NEW q \in Filesystem!Rows, Undoable(q),
             \/ filesJournal'[q].proof
             \/ filesJournal'[q].status \in {"APPLIED", "ROLLBACK_PENDING", "ROLLED_BACK"}
      PROVE  q \in filesEffects'
  BY <1>1, <1>2, <1>3 DEF FilesSafe, FilesRowInv
<1>4. ASSUME NEW f \in Files PROVE (Early(f))' => Early(f)
  BY <1>2, FilesNames DEF Early
<1>5. ASSUME NEW f \in Files, ~(Filesystem!Is(<<"isolate", f>>, "NONE"))' PROVE ~(Early(f))'
  <2>1. ~Early(f)
    BY <1>2, <1>5, FilesNames DEF FilesSafe, FilesRowInv, Filesystem!Is
  <2> QED BY <1>4, <2>1
<1>6. Filesystem!IsolatedStaysApart'
  BY <1>1, <1>2, FilesNames DEF FilesSafe, Filesystem!IsolatedStaysApart, Filesystem!Is
<1>7. Filesystem!CopyHasOwner'
  BY <1>1, <1>2, FilesNames DEF FilesSafe, Filesystem!CopyHasOwner
<1>8. Filesystem!RolledBackIsGone'
  BY <1>1, <1>2, FilesNames DEF FilesSafe, Filesystem!RolledBackIsGone, Filesystem!Is, Filesystem!There
<1>9. FilesRowInv'
  BY <1>3, <1>5 DEF FilesRowInv, Undoable
<1> QED BY <1>6, <1>7, <1>8, <1>9 DEF FilesSafe

LEMMA FilesQuiet ==
  ASSUME FilesSafe, UNCHANGED <<Filesystem!disk, filesJournal>> PROVE FilesSafe'
  BY DEF FilesSafe, FilesRowInv, Filesystem!IsolatedStaysApart, Filesystem!CopyHasOwner, Filesystem!RolledBackIsGone,
     Filesystem!disk, Early, Filesystem!Is, Filesystem!There, Undoable

\* A call that is over leaves nothing to remember.
LEMMA FilesEnded == ASSUME Filesystem!End PROVE FilesCallInv' /\ filesCall' \in FilesCall
<1>1. filesCall' = [op |-> "none", step |-> "none", row |-> Filesystem!DirRow] /\ Filesystem!Idle \in FilesCall
  BY FilesNames DEF Filesystem!End, Filesystem!Idle, FilesCall, Filesystem!Ops, Filesystem!Steps
<1> QED BY <1>1 DEF FilesCallInv, Filesystem!At, Filesystem!Idle, FilesCall

LEMMA FilesGoto ==
  ASSUME Filesystem!TypeOK, NEW s \in Filesystem!Steps, Filesystem!Goto(s)
  PROVE  /\ filesCall' \in FilesCall /\ filesCall'.op = filesCall.op /\ filesCall'.step = s
            /\ filesCall'.row = filesCall.row
         /\ filesCall \in FilesCall
<1>1. filesCall \in FilesCall /\ filesCall' = [filesCall EXCEPT !.step = s]
  BY DEF Filesystem!TypeOK, FilesCall, Filesystem!Goto
<1> QED BY <1>1 DEF FilesCall

\* A step of a call that writes at most the row of r, and goes on or ends.
LEMMA FilesBook ==
  ASSUME FilesInv, UNCHANGED <<Filesystem!disk, filesGone, filesBudget>>, filesCall' \in FilesCall, FilesCallInv',
         FilesSafe',
         filesJournal' \in [Filesystem!Rows -> Filesystem!Row]
  PROVE  FilesInv'
  BY DEF FilesInv, FilesSafe, Filesystem!TypeOK, Filesystem!disk, FilesCall

\* What a call that goes on has to have found, for the rows and files of now.
FilesGoesOn(step) ==
    /\ filesCall.op # "none"
    /\ step = "mkdir_done" => Filesystem!DirRow \in filesEffects'
    /\ step = "publish_done" => filesCall.row \in filesEffects'
    /\ filesCall.op = "link" /\ step \in {"temp", "publish"} => filesJournal'[filesCall.row].status = "INTENT_RECORDED"
    /\ filesCall.op = "isolate" /\ step = "mark" => filesSpare'[Filesystem!F] = "bare"
    /\ filesCall.op = "isolate" /\ step = "fill" => filesSpare'[Filesystem!F] \in {"owned", "full"} /\ filesJournal'[filesCall.row].proof
    /\ filesCall.op = "isolate" /\ step = "swap" => filesSpare'[Filesystem!F] = "full" /\ filesJournal'[filesCall.row].proof
    /\ filesCall.op = "isolate" /\ step = "swap_done" => filesAt'[Filesystem!F] # "link"
    /\ filesCall.op = "rollback" /\ step = "remove_done" /\ filesCall.row # Filesystem!DirRow => filesAt'[Filesystem!F] # "link"

LEMMA FilesMoves ==
  ASSUME FilesInv, NEW s \in Filesystem!Steps, Filesystem!Goto(s), FilesGoesOn(s),
         filesEffects \subseteq filesEffects', filesGone => filesGone',
         \A f \in Files : ~Early(f) => ~(Early(f))'
  PROVE  FilesCallInv' /\ filesCall' \in FilesCall
<1>1. /\ filesCall' \in FilesCall /\ filesCall'.op = filesCall.op /\ filesCall'.step = s
         /\ filesCall'.row = filesCall.row
      /\ FilesCallInv
  BY FilesGoto DEF FilesInv
<1>2. filesCall.op = "isolate" => \E f \in Files : filesCall.row = <<"isolate", f>> /\ Filesystem!F = f
  BY <1>1 DEF FilesCallInv, Filesystem!F
<1>3. filesCall'.op = "isolate" => ~(Early(Filesystem!F))'
  <2>1. filesCall.op = "isolate" => ~Early(Filesystem!F) /\ Filesystem!F \in Files /\ Filesystem!F' = Filesystem!F
    BY <1>1, <1>2 DEF FilesCallInv, Filesystem!F
  <2>2. ASSUME NEW f \in Files, Filesystem!F' = f, ~(Early(f))' PROVE ~(Early(Filesystem!F))'
    BY <2>2 DEF Early
  <2> QED BY <1>1, <2>1, <2>2
<1>4. Filesystem!F' = Filesystem!F
  BY <1>1 DEF Filesystem!F
<1>5. filesCall'.op \in {"link", "isolate", "cleanup"} => \E f \in Files : filesCall'.row = <<filesCall'.op, f>>
  BY <1>1 DEF FilesCallInv
<1>6. /\ filesCall'.op = "rollback" => (Undoable(filesCall.row))' /\ filesCall'.row \in filesEffects'
      /\ filesCall'.op = "cleanup" => filesGone'
  BY <1>1 DEF FilesCallInv, Undoable, Filesystem!DirRow
<1>7. /\ (Filesystem!At("link", "temp") \/ Filesystem!At("link", "publish") => Filesystem!Is(filesCall.row, "INTENT_RECORDED"))'
      /\ filesCall'.step = "mkdir_done" => Filesystem!DirRow \in filesEffects'
      /\ filesCall'.step = "publish_done" => filesCall'.row \in filesEffects'
  BY <1>1 DEF FilesGoesOn, Filesystem!At, Filesystem!Is
<1>8. /\ (Filesystem!At("isolate", "mark") => filesSpare[Filesystem!F] = "bare")'
      /\ (Filesystem!At("isolate", "fill") => filesSpare[Filesystem!F] \in {"owned", "full"} /\ Filesystem!Owned)'
      /\ (Filesystem!At("isolate", "swap") => filesSpare[Filesystem!F] = "full" /\ Filesystem!Owned)'
      /\ (Filesystem!At("isolate", "swap_done") => filesAt[Filesystem!F] # "link")'
      /\ (Filesystem!At("rollback", "remove_done") /\ filesCall.row # Filesystem!DirRow => filesAt[Filesystem!F] # "link")'
  BY <1>1, <1>4 DEF FilesGoesOn, Filesystem!At, Filesystem!Owned
<1>9. (filesCall.op = "none" => filesCall = Filesystem!Idle)'
  BY <1>1 DEF FilesGoesOn
<1> QED BY <1>1, <1>3, <1>5, <1>6, <1>7, <1>8, <1>9 DEF FilesCallInv, Undoable, Filesystem!DirRow

\* A call that works on a file.
LEMMA FilesOfCall ==
  ASSUME FilesInv, NEW op \in {"link", "isolate", "cleanup"}, filesCall.op = op
  PROVE  /\ Filesystem!F \in Files /\ filesCall.row = <<op, Filesystem!F>> /\ filesCall.row \in Filesystem!Rows
         /\ op # "link" => ~Undoable(filesCall.row)
         /\ op = "link" => Undoable(filesCall.row) /\ filesCall.row # Filesystem!DirRow
<1>1. PICK f \in Files : filesCall.row = <<op, f>>
  BY DEF FilesInv, FilesCallInv
<1>2. Filesystem!F = f
  BY <1>1 DEF Filesystem!F
<1> QED BY <1>1, <1>2, FilesNames

LEMMA FilesParts ==
  ASSUME FilesInv
  PROVE  /\ Filesystem!TypeOK /\ FilesSafe /\ FilesCallInv /\ filesCall \in FilesCall
         /\ filesJournal \in [Filesystem!Rows -> Filesystem!Row] /\ filesCall.row \in Filesystem!Rows
            /\ filesCall.step \in Filesystem!Steps /\ filesCall.op \in Filesystem!Ops
         /\ \A r \in Filesystem!Rows : filesJournal[r] \in Filesystem!Row /\ filesJournal[r].proof \in BOOLEAN /\ filesJournal[r].status \in Filesystem!Status
  BY DEF FilesInv, FilesSafe, Filesystem!TypeOK, FilesCall, Filesystem!Row

LEMMA FilesBegin ==
  ASSUME FilesInv,
         NEW op \in Filesystem!Ops \ {"none"}, NEW r \in Filesystem!Rows, Filesystem!Begin(op, r),
         op = "rollback" \/ \E f \in Files : r = <<op, f>>,
         op = "rollback" => Undoable(r) /\ r \in filesEffects,
         op = "cleanup" => filesGone,
         op = "isolate" => ~Early(r[2])
  PROVE  FilesInv'
<1>1. /\ filesCall' = [op |-> op, step |-> "start", row |-> r] /\ UNCHANGED <<Filesystem!disk, filesJournal, filesGone>>
      /\ filesCall' \in FilesCall
      /\ filesBudget.calls < FsCalls /\ filesBudget' = [filesBudget EXCEPT !.calls = @ + 1]
  BY DEF Filesystem!Begin, FilesCall, Filesystem!Ops, Filesystem!Steps
<1>2. filesBudget' \in [calls : 0..FsCalls, faults : 0..FsFaults, meddling : 0..FsMeddling]
  BY <1>1, FilesAssumption DEF FilesInv, Filesystem!TypeOK
<1>3. FilesSafe'
  BY <1>1, FilesParts, FilesQuiet
<1>4. /\ filesCall'.op = op /\ filesCall'.step = "start" /\ filesCall'.row = r
      /\ UNCHANGED <<filesJournal, filesEffects, filesGone>>
  BY <1>1 DEF Filesystem!disk
<1>5. FilesCallInv'
  BY <1>4 DEF FilesCallInv, Early, Filesystem!F, Filesystem!At, Undoable, Filesystem!DirRow
<1>6. Filesystem!TypeOK'
  BY <1>1, <1>2 DEF FilesInv, Filesystem!TypeOK, Filesystem!disk, FilesCall
<1> QED BY <1>3, <1>5, <1>6 DEF FilesInv, FilesSafe

LEMMA FilesBegins ==
  ASSUME FilesInv,
         \/ \E f \in Files : Filesystem!ExecuteHardlink(f) \/ Filesystem!Isolate(f) \/ Filesystem!Cleanup(f)
         \/ \E r \in Filesystem!Rows : Filesystem!Rollback(r)
  PROVE  FilesInv'
<1>1. ASSUME NEW f \in Files, Filesystem!ExecuteHardlink(f) PROVE FilesInv'
  BY <1>1, FilesBegin, FilesNames DEF Filesystem!ExecuteHardlink, Filesystem!Ops
<1>2. ASSUME NEW f \in Files, Filesystem!Isolate(f) PROVE FilesInv'
  BY <1>2, FilesBegin, FilesNames DEF Filesystem!Isolate, Filesystem!Ops, Early, Filesystem!Is
<1>3. ASSUME NEW f \in Files, Filesystem!Cleanup(f) PROVE FilesInv'
  BY <1>3, FilesBegin, FilesNames DEF Filesystem!Cleanup, Filesystem!Ops
<1>4. ASSUME NEW r \in Filesystem!Rows, Filesystem!Rollback(r) PROVE FilesInv'
  <2>1. Undoable(r) /\ r \in filesEffects /\ Filesystem!Begin("rollback", r)
    BY <1>4 DEF Filesystem!Rollback, FilesInv, FilesRowInv, Undoable
  <2> QED BY <2>1, FilesBegin DEF Filesystem!Ops
<1> QED BY <1>1, <1>2, <1>3, <1>4

\* A row may be written so that it says no more than before, and goes on saying whose it is.
FilesMay(r, s) ==
    /\ r \in Filesystem!Rows /\ s \in Filesystem!Status
    /\ Undoable(r) /\ s \in {"APPLIED", "ROLLBACK_PENDING", "ROLLED_BACK"} => r \in filesEffects
    /\ \A f \in Files : /\ r = <<"isolate", f>> /\ s # "NONE" => ~Early(f)
                        /\ r = <<"isolate", f>> /\ s = "APPLIED" => filesAt[f] # "link"
                        /\ r = <<"link", f>> /\ s \in {"NONE", "INTENT_RECORDED"} => Early(f)
                        /\ r = <<"link", f>> /\ s = "ROLLED_BACK" => filesAt[f] # "link"

LEMMA FilesWritten ==
  ASSUME FilesInv, UNCHANGED Filesystem!disk, NEW r, NEW s, FilesMay(r, s),
         NEW p \in BOOLEAN, RowBecomes(r, s, p), filesJournal[r].proof => p,
         Undoable(r) /\ p => r \in filesEffects
  PROVE  /\ FilesSafe' /\ filesJournal' \in [Filesystem!Rows -> Filesystem!Row]
         /\ \A f \in Files : ~Early(f) => ~(Early(f))'
         /\ filesJournal'[r].status = s /\ filesJournal'[r].proof = p
<1>1. /\ r \in Filesystem!Rows /\ s \in Filesystem!Status /\ filesJournal' \in [Filesystem!Rows -> Filesystem!Row]
      /\ filesJournal'[r].status = s /\ filesJournal'[r].proof = p
      /\ \A q \in Filesystem!Rows \ {r} : filesJournal'[q] = filesJournal[q]
  BY DEF FilesMay, RowBecomes
<1>2. \A f \in Files : ~Early(f) => ~(Early(f))'
  BY <1>1, FilesNames DEF FilesMay, Early
<1>3. FilesSafe'
  BY <1>1, FilesRows, FilesParts DEF FilesMay
<1> QED BY <1>1, <1>2, <1>3

\* What an undoable row has proven was put there here.
LEMMA FilesSetTo ==
  ASSUME FilesInv, UNCHANGED Filesystem!disk, NEW r, NEW s, FilesMay(r, s), Filesystem!Set(r, s)
  PROVE  /\ FilesSafe' /\ filesJournal' \in [Filesystem!Rows -> Filesystem!Row]
         /\ \A f \in Files : ~Early(f) => ~(Early(f))'
         /\ filesJournal'[r].status = s /\ filesJournal'[r].proof = filesJournal[r].proof
<1>1. r \in Filesystem!Rows /\ s \in Filesystem!Status /\ Filesystem!TypeOK /\ filesJournal[r].proof \in BOOLEAN
  BY FilesParts DEF FilesMay
<1>2. RowBecomes(r, s, filesJournal[r].proof)
  BY <1>1, FilesSet
<1>3. Undoable(r) /\ filesJournal[r].proof => r \in filesEffects
  BY <1>1 DEF FilesInv, FilesRowInv
<1> HIDE DEF RowBecomes
<1> QED BY <1>1, <1>2, <1>3, FilesWritten

LEMMA FilesApplied ==
  ASSUME FilesInv, UNCHANGED Filesystem!disk, NEW r, FilesMay(r, "APPLIED"), Filesystem!SetApplied(r)
  PROVE  /\ FilesSafe' /\ filesJournal' \in [Filesystem!Rows -> Filesystem!Row]
         /\ \A f \in Files : ~Early(f) => ~(Early(f))'
<1>1. r \in Filesystem!Rows /\ Filesystem!TypeOK /\ Undoable(r) => r \in filesEffects
  BY FilesParts DEF FilesMay
<1>2. RowBecomes(r, "APPLIED", TRUE)
  BY <1>1, FilesParts, FilesSetApplied DEF FilesMay
<1>3. Undoable(r) => r \in filesEffects
  BY DEF FilesMay
<1> QED BY <1>2, <1>3, FilesWritten

LEMMA FilesIntent ==
  ASSUME FilesInv, UNCHANGED Filesystem!disk, NEW r, FilesMay(r, "INTENT_RECORDED") \/ ~Filesystem!Is(r, "NONE"),
         r \in Filesystem!Rows, Filesystem!RecordIntent(r)
  PROVE  /\ FilesSafe' /\ filesJournal' \in [Filesystem!Rows -> Filesystem!Row]
         /\ \A f \in Files : ~Early(f) => ~(Early(f))'
         /\ filesJournal[r].status \in {"NONE", "INTENT_RECORDED"} => filesJournal'[r].status = "INTENT_RECORDED"
         /\ filesJournal'[r].proof = filesJournal[r].proof
<1>1. CASE Filesystem!Is(r, "NONE")
  <2>1. Filesystem!Set(r, "INTENT_RECORDED")
    BY <1>1 DEF Filesystem!RecordIntent, Filesystem!Set
  <2> QED BY <1>1, <2>1, FilesSetTo
<1>2. CASE ~Filesystem!Is(r, "NONE")
  <2>1. UNCHANGED filesJournal
    BY <1>2 DEF Filesystem!RecordIntent
  <2> QED BY <1>2, <2>1, FilesQuiet, FilesParts DEF Filesystem!Is, Early
<1> QED BY <1>1, <1>2

\* A step that ends the call, whatever it writes of its row.
LEMMA FilesEnds ==
  ASSUME FilesInv, UNCHANGED <<Filesystem!disk, filesGone, filesBudget>>, Filesystem!End,
         \/ UNCHANGED filesJournal
         \/ \E s \in Filesystem!Status : FilesMay(filesCall.row, s) /\ Filesystem!Set(filesCall.row, s)
         \/ \E s \in Filesystem!Status : FilesMay(Filesystem!DirRow, s) /\ Filesystem!Set(Filesystem!DirRow, s)
         \/ FilesMay(filesCall.row, "APPLIED") /\ Filesystem!SetApplied(filesCall.row)
  PROVE  FilesInv'
<1>1. UNCHANGED Filesystem!disk
  OBVIOUS
<1>2. FilesCallInv' /\ filesCall' \in FilesCall
  BY FilesEnded
<1>3. FilesSafe' /\ filesJournal' \in [Filesystem!Rows -> Filesystem!Row]
  <2>1. CASE UNCHANGED filesJournal
    BY <2>1, FilesQuiet, FilesParts
  <2>2. ASSUME NEW s \in Filesystem!Status, FilesMay(filesCall.row, s) /\ Filesystem!Set(filesCall.row, s) PROVE <1>3!:
    BY <1>1, <2>2, FilesSetTo
  <2>3. ASSUME NEW s \in Filesystem!Status,
               FilesMay(Filesystem!DirRow, s) /\ Filesystem!Set(Filesystem!DirRow, s) PROVE <1>3!:
    BY <1>1, <2>3, FilesSetTo
  <2>4. CASE FilesMay(filesCall.row, "APPLIED") /\ Filesystem!SetApplied(filesCall.row)
    BY <1>1, <2>4, FilesApplied
  <2> QED BY <2>1, <2>2, <2>3, <2>4
<1> QED BY <1>2, <1>3, FilesBook

\* What is refused or contradicted says nothing of the disk.
LEMMA FilesMayDoubt ==
  ASSUME FilesInv, NEW r \in Filesystem!Rows,
         NEW s \in {"RECONCILE_REQUIRED", "ROLLBACK_BLOCKED"},
         \A f \in Files : r = <<"isolate", f>> => ~Early(f)
  PROVE  FilesMay(r, s)
  BY FilesNames DEF FilesMay, Filesystem!Status

LEMMA FilesGoesOnTo ==
  ASSUME FilesInv, UNCHANGED <<Filesystem!disk, filesGone, filesBudget>>, NEW s \in Filesystem!Steps,
         Filesystem!Goto(s), FilesGoesOn(s),
         FilesSafe', filesJournal' \in [Filesystem!Rows -> Filesystem!Row],
         \A f \in Files : ~Early(f) => ~(Early(f))'
  PROVE  FilesInv'
<1>1. filesEffects \subseteq filesEffects' /\ (filesGone => filesGone')
  BY DEF Filesystem!disk
<1>2. FilesCallInv' /\ filesCall' \in FilesCall
  BY <1>1, FilesMoves
<1> QED BY <1>2, FilesBook

\* The row of a link, or of the directory, is opened, closed, or left.
LEMMA FilesLinkRows ==
  ASSUME FilesInv, filesCall.op = "link"
  PROVE  /\ FilesMay(Filesystem!DirRow, "RECONCILE_REQUIRED") /\ FilesMay(filesCall.row, "RECONCILE_REQUIRED")
         /\ FilesMay(Filesystem!DirRow, "INTENT_RECORDED")
         /\ Early(Filesystem!F) => FilesMay(filesCall.row, "INTENT_RECORDED")
         /\ Filesystem!DirRow \in filesEffects => FilesMay(Filesystem!DirRow, "APPLIED")
         /\ filesCall.row \in filesEffects => FilesMay(filesCall.row, "APPLIED")
<1>1. Filesystem!F \in Files /\ filesCall.row = <<"link", Filesystem!F>> /\ Filesystem!DirRow \in Filesystem!Rows
      /\ filesCall.row \in Filesystem!Rows
  BY FilesOfCall, FilesNames
<1>2. FilesMay(Filesystem!DirRow, "RECONCILE_REQUIRED") /\ FilesMay(filesCall.row, "RECONCILE_REQUIRED")
  BY <1>1, FilesMayDoubt, FilesNames
<1> QED BY <1>1, <1>2, FilesNames DEF FilesMay, Filesystem!Status

LEMMA FilesConflict ==
  ASSUME FilesInv, filesCall.op = "link", Filesystem!ConflictAtTarget,
         UNCHANGED <<Filesystem!disk, filesGone, filesBudget>>
  PROVE  FilesInv'
<1>1. Filesystem!End /\ (UNCHANGED filesJournal \/ Filesystem!Set(filesCall.row, "RECONCILE_REQUIRED"))
  BY DEF Filesystem!ConflictAtTarget
<1>2. FilesMay(filesCall.row, "RECONCILE_REQUIRED")
  BY FilesLinkRows
<1> QED BY <1>1, <1>2, FilesEnds DEF Filesystem!Status

LEMMA FilesOn ==
  ASSUME FilesInv, UNCHANGED <<Filesystem!disk, filesGone, filesBudget>>, UNCHANGED filesJournal,
         NEW s \in Filesystem!Steps, Filesystem!Goto(s), FilesGoesOn(s)
  PROVE  FilesInv'
<1>1. FilesSafe' /\ filesJournal' \in [Filesystem!Rows -> Filesystem!Row] /\ \A f \in Files : ~Early(f) => ~(Early(f))'
  BY FilesParts, FilesQuiet DEF Early
<1> QED BY <1>1, FilesGoesOnTo

LEMMA FilesValidate == ASSUME FilesInv, Filesystem!ValidateDirectory PROVE FilesInv'
<1>1. filesCall.op = "link" /\ UNCHANGED <<Filesystem!disk, filesGone, filesBudget>>
  BY DEF Filesystem!ValidateDirectory, Filesystem!At
<1>2. CASE Filesystem!Set(Filesystem!DirRow, "RECONCILE_REQUIRED") /\ Filesystem!End
  BY <1>1, <1>2, FilesLinkRows, FilesEnds DEF Filesystem!Status
<1>3. CASE Filesystem!Goto("look") /\ UNCHANGED filesJournal
  BY <1>1, <1>3, FilesOn DEF FilesGoesOn, Filesystem!Steps
<1> QED BY <1>2, <1>3 DEF Filesystem!ValidateDirectory

LEMMA FilesLook == ASSUME FilesInv, Filesystem!LookAtTarget PROVE FilesInv'
<1>1. filesCall.op = "link" /\ UNCHANGED <<Filesystem!disk, filesGone, filesBudget>>
  BY DEF Filesystem!LookAtTarget, Filesystem!At
<1>2. CASE Filesystem!ProveLink
  <2>1. Filesystem!End /\ (UNCHANGED filesJournal \/ Filesystem!Set(filesCall.row, "RECONCILE_REQUIRED"))
    BY <1>2 DEF Filesystem!ProveLink
  <2> QED BY <1>1, <2>1, FilesLinkRows, FilesEnds DEF Filesystem!Status
<1>3. CASE Filesystem!ConflictAtTarget
  BY <1>1, <1>3, FilesConflict
<1>4. CASE Filesystem!End /\ UNCHANGED filesJournal
  BY <1>1, <1>4, FilesEnds
<1>5. CASE Filesystem!Goto("parents") /\ UNCHANGED filesJournal
  BY <1>1, <1>5, FilesOn DEF FilesGoesOn, Filesystem!Steps
<1> QED BY <1>2, <1>3, <1>4, <1>5 DEF Filesystem!LookAtTarget

LEMMA FilesPrepare == ASSUME FilesInv, Filesystem!PrepareDirectory PROVE FilesInv'
<1>1. filesCall.op = "link" /\ UNCHANGED <<Filesystem!disk, filesGone, filesBudget>> /\ UNCHANGED Filesystem!disk
      /\ Filesystem!DirRow \in Filesystem!Rows
  BY FilesNames DEF Filesystem!PrepareDirectory, Filesystem!At
<1>2. CASE Filesystem!Goto("ready") /\ UNCHANGED filesJournal
  BY <1>1, <1>2, FilesOn DEF FilesGoesOn, Filesystem!Steps
<1>3. CASE Filesystem!Set(Filesystem!DirRow, "RECONCILE_REQUIRED") /\ Filesystem!End
  BY <1>1, <1>3, FilesLinkRows, FilesEnds DEF Filesystem!Status
<1>4. CASE Filesystem!RecordIntent(Filesystem!DirRow) /\ Filesystem!Goto("mkdir")
  <2>1. /\ FilesSafe' /\ filesJournal' \in [Filesystem!Rows -> Filesystem!Row]
        /\ \A f \in Files : ~Early(f) => ~(Early(f))'
    BY <1>1, <1>4, FilesLinkRows, FilesIntent
  <2>2. FilesGoesOn("mkdir") /\ "mkdir" \in Filesystem!Steps
    BY <1>1 DEF FilesGoesOn, Filesystem!Steps
  <2> QED BY <1>1, <1>4, <2>1, <2>2, FilesGoesOnTo
<1>5. CASE Filesystem!End /\ UNCHANGED filesJournal
  BY <1>1, <1>5, FilesEnds
<1> QED BY <1>2, <1>3, <1>4, <1>5 DEF Filesystem!PrepareDirectory

LEMMA FilesDirApplied == ASSUME FilesInv, Filesystem!DirectoryApplied PROVE FilesInv'
<1>1. /\ filesCall.op = "link" /\ UNCHANGED <<Filesystem!disk, filesGone, filesBudget>> /\ UNCHANGED Filesystem!disk
      /\ Filesystem!DirRow \in filesEffects
  BY DEF Filesystem!DirectoryApplied, Filesystem!At, FilesInv, FilesCallInv
<1>2. CASE Filesystem!SetApplied(Filesystem!DirRow) /\ Filesystem!Goto("ready")
  <2>1. /\ FilesSafe' /\ filesJournal' \in [Filesystem!Rows -> Filesystem!Row]
        /\ \A f \in Files : ~Early(f) => ~(Early(f))'
    BY <1>1, <1>2, FilesLinkRows, FilesApplied
  <2>2. FilesGoesOn("ready") /\ "ready" \in Filesystem!Steps
    BY <1>1 DEF FilesGoesOn, Filesystem!Steps
  <2> QED BY <1>1, <1>2, <2>1, <2>2, FilesGoesOnTo
<1>3. CASE Filesystem!End /\ UNCHANGED filesJournal
  BY <1>1, <1>3, FilesEnds
<1> QED BY <1>2, <1>3 DEF Filesystem!DirectoryApplied

LEMMA FilesRecordLink == ASSUME FilesInv, Filesystem!RecordLink PROVE FilesInv'
<1>1. /\ filesCall.op = "link" /\ UNCHANGED <<Filesystem!disk, filesGone, filesBudget>> /\ UNCHANGED Filesystem!disk
      /\ filesCall.row \in Filesystem!Rows /\ filesCall.row = <<"link", Filesystem!F>>
  BY FilesOfCall DEF Filesystem!RecordLink, Filesystem!At
<1>2. CASE Filesystem!RecordIntent(filesCall.row) /\ Filesystem!Goto("temp")
           /\ filesJournal[filesCall.row].status \in {"NONE", "INTENT_RECORDED"}
  <2>1. Early(Filesystem!F)
    BY <1>1, <1>2 DEF Early
  <2>2. /\ FilesSafe' /\ filesJournal' \in [Filesystem!Rows -> Filesystem!Row]
        /\ \A f \in Files : ~Early(f) => ~(Early(f))'
        /\ filesJournal'[filesCall.row].status = "INTENT_RECORDED"
    BY <1>1, <1>2, <2>1, FilesLinkRows, FilesIntent
  <2>3. FilesGoesOn("temp") /\ "temp" \in Filesystem!Steps
    BY <1>1, <2>2 DEF FilesGoesOn, Filesystem!Steps
  <2> QED BY <1>1, <1>2, <2>2, <2>3, FilesGoesOnTo
<1>3. CASE Filesystem!End /\ UNCHANGED filesJournal
  BY <1>1, <1>3, FilesEnds
<1> QED BY <1>2, <1>3 DEF Filesystem!RecordLink

LEMMA FilesLinkApplied == ASSUME FilesInv, Filesystem!LinkApplied PROVE FilesInv'
<1>1. /\ filesCall.op = "link" /\ UNCHANGED <<Filesystem!disk, filesGone, filesBudget>>
         /\ Filesystem!SetApplied(filesCall.row) /\ Filesystem!End
      /\ filesCall.row \in filesEffects
  BY DEF Filesystem!LinkApplied, Filesystem!At, FilesInv, FilesCallInv
<1> QED BY <1>1, FilesLinkRows, FilesEnds

\* A step of a call that changes the disk but no row.
LEMMA FilesActs ==
  ASSUME FilesInv, UNCHANGED <<filesSource, filesJournal, filesGone, filesBudget>>,
         filesDir' \in {"absent", "made", "strange"},
         filesAt' \in [Files -> {"none", "link", "copy", "repaired", "strange"}],
         filesTemp' \in [Files -> BOOLEAN], filesSpare' \in [Files -> {"none", "bare", "owned", "full"}],
         filesEffects \subseteq filesEffects', filesEffects' \subseteq Filesystem!Rows,
         NEW s \in Filesystem!Steps, Filesystem!Goto(s), FilesGoesOn(s),
         Filesystem!IsolatedStaysApart', Filesystem!CopyHasOwner', Filesystem!RolledBackIsGone'
  PROVE  FilesInv'
<1>1. FilesCallInv' /\ filesCall' \in FilesCall
  BY FilesMoves DEF Early
<1>2. FilesRowInv'
  BY DEF FilesInv, FilesRowInv, Undoable, Filesystem!Is, Early
<1>3. Filesystem!TypeOK'
  BY <1>1 DEF FilesInv, Filesystem!TypeOK, FilesCall
<1> QED BY <1>1, <1>2, <1>3 DEF FilesInv

LEMMA FilesCreate == ASSUME FilesInv, Filesystem!CreateDirectory PROVE FilesInv'
<1>1. /\ filesCall.op = "link" /\ filesCall.step = "mkdir"
         /\ UNCHANGED <<filesAt, filesTemp, filesSpare, filesSource, filesJournal, filesGone, filesBudget>>
      /\ Filesystem!DirRow \in Filesystem!Rows
  BY FilesNames DEF Filesystem!CreateDirectory, Filesystem!At
<1>2. CASE Filesystem!There
  BY <1>1, <1>2, FilesEnds DEF Filesystem!CreateDirectory, Filesystem!disk
<1>3. CASE ~Filesystem!There
  <2>1. /\ filesDir' = "made" /\ filesEffects' = filesEffects \cup {Filesystem!DirRow} /\ Filesystem!Goto("mkdir_done")
        /\ filesEffects' \subseteq Filesystem!Rows
    BY <1>1, <1>3 DEF Filesystem!CreateDirectory, FilesInv, Filesystem!TypeOK
  <2>2. Filesystem!IsolatedStaysApart' /\ Filesystem!CopyHasOwner' /\ Filesystem!RolledBackIsGone'
    BY <1>1, <2>1 DEF FilesInv, Filesystem!IsolatedStaysApart, Filesystem!CopyHasOwner, Filesystem!RolledBackIsGone,
       Filesystem!Is, Filesystem!There
  <2>3. FilesGoesOn("mkdir_done") /\ "mkdir_done" \in Filesystem!Steps
    BY <1>1, <2>1 DEF FilesGoesOn, Filesystem!Steps
  <2> QED BY <1>1, <2>1, <2>2, <2>3, FilesActs DEF FilesInv, Filesystem!TypeOK
<1> QED BY <1>2, <1>3

LEMMA FilesRefuse ==
  ASSUME FilesInv, filesCall.op = "link", Filesystem!Refuse,
         UNCHANGED <<filesDir, filesSpare, filesSource, filesGone, filesBudget>>
  PROVE  FilesInv'
<1>1. UNCHANGED <<Filesystem!disk, filesGone, filesBudget>>
  BY DEF Filesystem!Refuse, Filesystem!disk
<1> QED BY <1>1, FilesConflict, FilesEnds DEF Filesystem!Refuse

LEMMA FilesTemporary == ASSUME FilesInv, Filesystem!LinkTemporary PROVE FilesInv'
<1>1. /\ filesCall.op = "link" /\ filesCall.step = "temp"
         /\ UNCHANGED <<filesDir, filesSpare, filesSource, filesGone, filesBudget>>
      /\ Filesystem!Is(filesCall.row, "INTENT_RECORDED") /\ Filesystem!F \in Files
  BY FilesOfCall DEF Filesystem!LinkTemporary, Filesystem!At, FilesInv, FilesCallInv
<1>2. CASE Filesystem!Refuse
  BY <1>1, <1>2, FilesRefuse
<1>3. CASE /\ Filesystem!There /\ filesTemp' = [filesTemp EXCEPT ![Filesystem!F] = TRUE] /\ Filesystem!Goto("publish")
           /\ UNCHANGED <<filesAt, filesEffects, filesJournal>>
  <2>1. Filesystem!IsolatedStaysApart' /\ Filesystem!CopyHasOwner' /\ Filesystem!RolledBackIsGone'
    BY <1>1, <1>3 DEF FilesInv, Filesystem!IsolatedStaysApart, Filesystem!CopyHasOwner, Filesystem!RolledBackIsGone,
       Filesystem!Is, Filesystem!There
  <2>2. FilesGoesOn("publish") /\ "publish" \in Filesystem!Steps
    BY <1>1, <1>3 DEF FilesGoesOn, Filesystem!Steps, Filesystem!Is
  <2> QED BY <1>1, <1>3, <2>1, <2>2, FilesActs DEF FilesInv, Filesystem!TypeOK
<1> QED BY <1>2, <1>3 DEF Filesystem!LinkTemporary

LEMMA FilesPublish == ASSUME FilesInv, Filesystem!Publish PROVE FilesInv'
<1>1. /\ filesCall.op = "link" /\ filesCall.step = "publish"
         /\ UNCHANGED <<filesDir, filesSpare, filesSource, filesGone, filesBudget>>
      /\ Filesystem!Is(filesCall.row, "INTENT_RECORDED") /\ Filesystem!F \in Files
         /\ filesCall.row = <<"link", Filesystem!F>> /\ filesCall.row \in Filesystem!Rows
  BY FilesOfCall DEF Filesystem!Publish, Filesystem!At, FilesInv, FilesCallInv
<1>2. CASE Filesystem!Refuse
  BY <1>1, <1>2, FilesRefuse
<1>3. CASE /\ Filesystem!There /\ filesTemp' = [filesTemp EXCEPT ![Filesystem!F] = FALSE]
              /\ Filesystem!Goto("publish_done")
           /\ filesAt' = [filesAt EXCEPT ![Filesystem!F] = "link"]
           /\ filesEffects' = filesEffects \cup {filesCall.row} /\ UNCHANGED filesJournal
  <2>1. /\ filesAt' \in [Files -> {"none", "link", "copy", "repaired", "strange"}] /\ filesAt'[Filesystem!F] = "link"
        /\ \A f \in Files \ {Filesystem!F} : filesAt'[f] = filesAt[f]
        /\ filesEffects' \subseteq Filesystem!Rows /\ filesTemp' \in [Files -> BOOLEAN]
    BY <1>1, <1>3 DEF FilesInv, Filesystem!TypeOK
  <2>2. Filesystem!Is(<<"isolate", Filesystem!F>>, "NONE") /\ ~Filesystem!Is(<<"link", Filesystem!F>>, "ROLLED_BACK")
    BY <1>1 DEF FilesInv, FilesRowInv, Early, Filesystem!Is
  <2>3. Filesystem!IsolatedStaysApart' /\ Filesystem!CopyHasOwner' /\ Filesystem!RolledBackIsGone'
    BY <1>1, <1>3, <2>1, <2>2 DEF FilesInv, Filesystem!IsolatedStaysApart, Filesystem!CopyHasOwner,
       Filesystem!RolledBackIsGone, Filesystem!Is, Filesystem!There
  <2>4. FilesGoesOn("publish_done") /\ "publish_done" \in Filesystem!Steps
    BY <1>1, <1>3 DEF FilesGoesOn, Filesystem!Steps
  <2> QED BY <1>1, <1>3, <2>1, <2>3, <2>4, FilesActs DEF FilesInv, Filesystem!TypeOK
<1> QED BY <1>2, <1>3 DEF Filesystem!Publish

-----------------------------------------------------------------------------

LEMMA FilesIsolateRows ==
  ASSUME FilesInv, filesCall.op = "isolate"
  PROVE  /\ Filesystem!F \in Files /\ filesCall.row = <<"isolate", Filesystem!F>> /\ filesCall.row \in Filesystem!Rows
            /\ ~Early(Filesystem!F)
         /\ ~Undoable(filesCall.row)
         /\ FilesMay(filesCall.row, "RECONCILE_REQUIRED") /\ FilesMay(filesCall.row, "INTENT_RECORDED")
         /\ filesAt[Filesystem!F] # "link" => FilesMay(filesCall.row, "APPLIED")
<1>1. Filesystem!F \in Files /\ filesCall.row = <<"isolate", Filesystem!F>> /\ filesCall.row \in Filesystem!Rows
      /\ ~Early(Filesystem!F) /\ ~Undoable(filesCall.row)
  BY FilesOfCall DEF FilesInv, FilesCallInv
<1>2. FilesMay(filesCall.row, "RECONCILE_REQUIRED")
  BY <1>1, FilesMayDoubt, FilesNames
<1> QED BY <1>1, <1>2, FilesNames DEF FilesMay, Filesystem!Status

LEMMA FilesDoubts ==
  ASSUME FilesInv, filesCall.op = "isolate", Filesystem!Reconcile, UNCHANGED <<Filesystem!disk, filesGone, filesBudget>>
  PROVE  FilesInv'
  BY FilesIsolateRows, FilesEnds DEF Filesystem!Reconcile, Filesystem!Status

LEMMA FilesRecordIsolation == ASSUME FilesInv, Filesystem!RecordIsolation PROVE FilesInv'
<1>1. filesCall.op = "isolate" /\ UNCHANGED <<Filesystem!disk, filesGone, filesBudget>> /\ UNCHANGED Filesystem!disk
  BY DEF Filesystem!RecordIsolation, Filesystem!At
<1>2. CASE Filesystem!RecordIntent(filesCall.row) /\ Filesystem!Goto("copy")
  <2>1. /\ FilesSafe' /\ filesJournal' \in [Filesystem!Rows -> Filesystem!Row]
        /\ \A f \in Files : ~Early(f) => ~(Early(f))'
    BY <1>1, <1>2, FilesIsolateRows, FilesIntent
  <2>2. FilesGoesOn("copy") /\ "copy" \in Filesystem!Steps
    BY <1>1 DEF FilesGoesOn, Filesystem!Steps
  <2> QED BY <1>1, <1>2, <2>1, <2>2, FilesGoesOnTo
<1>3. CASE Filesystem!Goto("copy") /\ UNCHANGED filesJournal
  BY <1>1, <1>3, FilesOn DEF FilesGoesOn, Filesystem!Steps
<1>4. CASE Filesystem!End /\ UNCHANGED filesJournal
  BY <1>1, <1>4, FilesEnds
<1> QED BY <1>2, <1>3, <1>4 DEF Filesystem!RecordIsolation

LEMMA FilesTake == ASSUME FilesInv, Filesystem!TakeTemporary PROVE FilesInv'
<1>1. /\ filesCall.op = "isolate"
         /\ UNCHANGED <<filesDir, filesAt, filesTemp, filesSource, filesEffects, filesGone, filesBudget>>
      /\ Filesystem!F \in Files /\ filesAt \in [Files -> {"none", "link", "copy", "repaired", "strange"}]
      /\ filesSpare \in [Files -> {"none", "bare", "owned", "full"}]
  BY FilesIsolateRows DEF Filesystem!TakeTemporary, Filesystem!At, FilesInv, Filesystem!TypeOK
<1>2. CASE filesAt[Filesystem!F] = "copy" /\ Filesystem!Goto("swap_done") /\ UNCHANGED <<filesSpare, filesJournal>>
  BY <1>1, <1>2, FilesOn DEF FilesGoesOn, Filesystem!Steps, Filesystem!disk
<1>3. CASE /\ Filesystem!LinkMatches(Filesystem!F) /\ filesSpare[Filesystem!F] = "none"
              /\ filesSpare' = [filesSpare EXCEPT ![Filesystem!F] = "bare"]
           /\ Filesystem!Goto("mark") /\ UNCHANGED filesJournal
  <2>1. /\ filesSpare' \in [Files -> {"none", "bare", "owned", "full"}] /\ filesSpare'[Filesystem!F] = "bare"
        /\ \A f \in Files \ {Filesystem!F} : filesSpare'[f] = filesSpare[f]
    BY <1>1, <1>3
  <2>2. Filesystem!IsolatedStaysApart' /\ Filesystem!CopyHasOwner' /\ Filesystem!RolledBackIsGone'
    BY <1>1, <1>3, <2>1 DEF FilesInv, Filesystem!IsolatedStaysApart, Filesystem!CopyHasOwner,
       Filesystem!RolledBackIsGone, Filesystem!Is, Filesystem!There, Filesystem!LinkMatches
  <2>3. FilesGoesOn("mark") /\ "mark" \in Filesystem!Steps
    BY <1>1, <2>1 DEF FilesGoesOn, Filesystem!Steps
  <2> QED BY <1>1, <1>3, <2>1, <2>2, <2>3, FilesActs DEF FilesInv, Filesystem!TypeOK
<1>4. CASE Filesystem!Owned /\ filesSpare[Filesystem!F] \in {"owned", "full"} /\ Filesystem!Goto("fill")
           /\ UNCHANGED <<filesSpare, filesJournal>>
  BY <1>1, <1>4, FilesOn DEF FilesGoesOn, Filesystem!Steps, Filesystem!disk, Filesystem!Owned
<1>5. CASE Filesystem!Reconcile /\ UNCHANGED filesSpare
  BY <1>1, <1>5, FilesDoubts DEF Filesystem!disk
<1> QED BY <1>2, <1>3, <1>4, <1>5 DEF Filesystem!TakeTemporary

LEMMA FilesMark == ASSUME FilesInv, Filesystem!MarkTemporary PROVE FilesInv'
<1>1. /\ filesCall.op = "isolate" /\ filesCall.step = "mark" /\ filesSpare[Filesystem!F] = "bare"
      /\ UNCHANGED <<filesDir, filesAt, filesTemp, filesSource, filesEffects, filesGone, filesBudget>>
      /\ Filesystem!F \in Files /\ filesCall.row = <<"isolate", Filesystem!F>> /\ filesCall.row \in Filesystem!Rows
         /\ ~Undoable(filesCall.row) /\ ~Early(Filesystem!F)
      /\ filesSpare' = [filesSpare EXCEPT ![Filesystem!F] = "owned"]
         /\ filesSpare \in [Files -> {"none", "bare", "owned", "full"}]
      /\ filesJournal' = [filesJournal EXCEPT ![filesCall.row].proof = TRUE] /\ Filesystem!Goto("fill")
      /\ filesJournal \in [Filesystem!Rows -> Filesystem!Row]
  BY FilesIsolateRows DEF Filesystem!MarkTemporary, Filesystem!At, FilesInv, Filesystem!TypeOK, FilesCallInv
<1>2. /\ filesSpare' \in [Files -> {"none", "bare", "owned", "full"}] /\ filesSpare'[Filesystem!F] = "owned"
      /\ \A f \in Files \ {Filesystem!F} : filesSpare'[f] = filesSpare[f]
  BY <1>1
<1>3. [filesJournal[filesCall.row] EXCEPT !.proof = TRUE] \in Filesystem!Row
  BY <1>1 DEF Filesystem!Row
<1>4. filesJournal' \in [Filesystem!Rows -> Filesystem!Row]
      /\ filesJournal'[filesCall.row] = [filesJournal[filesCall.row] EXCEPT !.proof = TRUE]
  BY <1>1, <1>3
<1>5. /\ \A q \in Filesystem!Rows : filesJournal'[q].status = filesJournal[q].status
      /\ \A q \in Filesystem!Rows \ {filesCall.row} : filesJournal'[q] = filesJournal[q]
      /\ filesJournal'[filesCall.row].proof = TRUE
  BY <1>1, <1>4 DEF Filesystem!Row
<1>6. FilesRowInv' /\ \A f \in Files : (Early(f))' = Early(f)
  BY <1>1, <1>5, FilesNames DEF FilesInv, FilesRowInv, Undoable, Early, Filesystem!Is
<1>7. Filesystem!IsolatedStaysApart' /\ Filesystem!CopyHasOwner' /\ Filesystem!RolledBackIsGone'
  <2>1. \A f \in Files : /\ filesJournal'[<<"isolate", f>>].status = filesJournal[<<"isolate", f>>].status
                        /\ filesJournal'[<<"link", f>>].status = filesJournal[<<"link", f>>].status
                        /\ filesJournal[<<"isolate", f>>].proof => filesJournal'[<<"isolate", f>>].proof
    BY <1>5, FilesNames
  <2>2. Filesystem!IsolatedStaysApart'
    BY <1>1, <2>1 DEF FilesInv, Filesystem!IsolatedStaysApart, Filesystem!Is
  <2>3. Filesystem!CopyHasOwner'
    BY <1>1, <1>2, <1>5, <2>1 DEF FilesInv, Filesystem!CopyHasOwner
  <2>4. Filesystem!There
    BY <1>1 DEF FilesInv, Filesystem!RolledBackIsGone
  <2>5. Filesystem!RolledBackIsGone'
    BY <1>1, <2>1, <2>4 DEF FilesInv, Filesystem!RolledBackIsGone, Filesystem!Is, Filesystem!There
  <2> QED BY <2>2, <2>3, <2>5
<1>8. FilesGoesOn("fill") /\ "fill" \in Filesystem!Steps
  BY <1>1, <1>2, <1>5 DEF FilesGoesOn, Filesystem!Steps
<1>9. FilesCallInv' /\ filesCall' \in FilesCall
  BY <1>1, <1>6, <1>8, FilesMoves
<1>10. Filesystem!TypeOK'
  BY <1>1, <1>2, <1>4, <1>9 DEF FilesInv, Filesystem!TypeOK, FilesCall
<1> QED BY <1>6, <1>7, <1>9, <1>10 DEF FilesInv

LEMMA FilesCopy == ASSUME FilesInv, Filesystem!CopySource PROVE FilesInv'
<1>1. /\ filesCall.op = "isolate"
         /\ UNCHANGED <<filesDir, filesAt, filesTemp, filesSource, filesEffects, filesGone, filesBudget, filesJournal>>
      /\ filesSpare' = [filesSpare EXCEPT ![Filesystem!F] = "full"] /\ Filesystem!Goto("swap")
      /\ filesSpare[Filesystem!F] \in {"owned", "full"} /\ Filesystem!Owned
      /\ Filesystem!F \in Files /\ filesCall.row = <<"isolate", Filesystem!F>>
      /\ filesSpare \in [Files -> {"none", "bare", "owned", "full"}]
  BY FilesIsolateRows DEF Filesystem!CopySource, Filesystem!At, FilesInv, Filesystem!TypeOK, FilesCallInv
<1>2. /\ filesSpare' \in [Files -> {"none", "bare", "owned", "full"}] /\ filesSpare'[Filesystem!F] = "full"
      /\ \A f \in Files \ {Filesystem!F} : filesSpare'[f] = filesSpare[f]
  BY <1>1
<1>3. Filesystem!IsolatedStaysApart' /\ Filesystem!CopyHasOwner' /\ Filesystem!RolledBackIsGone'
  BY <1>1, <1>2 DEF FilesInv, Filesystem!IsolatedStaysApart, Filesystem!CopyHasOwner, Filesystem!RolledBackIsGone,
     Filesystem!Is, Filesystem!There, Filesystem!Owned
<1>4. FilesGoesOn("swap") /\ "swap" \in Filesystem!Steps
  BY <1>1, <1>2 DEF FilesGoesOn, Filesystem!Steps, Filesystem!Owned
<1> QED BY <1>1, <1>2, <1>3, <1>4, FilesActs DEF FilesInv, Filesystem!TypeOK

LEMMA FilesReplace == ASSUME FilesInv, Filesystem!ReplaceTarget PROVE FilesInv'
<1>1. /\ filesCall.op = "isolate"
         /\ UNCHANGED <<filesDir, filesTemp, filesSource, filesEffects, filesGone, filesBudget>>
      /\ Filesystem!Owned /\ Filesystem!F \in Files /\ filesCall.row = <<"isolate", Filesystem!F>>
      /\ filesSpare \in [Files -> {"none", "bare", "owned", "full"}]
      /\ filesAt \in [Files -> {"none", "link", "copy", "repaired", "strange"}]
  BY FilesIsolateRows DEF Filesystem!ReplaceTarget, Filesystem!At, FilesInv, Filesystem!TypeOK, FilesCallInv
<1>2. CASE Filesystem!Reconcile /\ UNCHANGED <<filesAt, filesSpare>>
  BY <1>1, <1>2, FilesDoubts DEF Filesystem!disk
<1>3. CASE /\ Filesystem!LinkMatches(Filesystem!F) /\ filesAt' = [filesAt EXCEPT ![Filesystem!F] = "copy"]
           /\ filesSpare' = [filesSpare EXCEPT ![Filesystem!F] = "none"] /\ Filesystem!Goto("swap_done")
              /\ UNCHANGED filesJournal
  <2>1. /\ filesSpare' \in [Files -> {"none", "bare", "owned", "full"}] /\ filesSpare'[Filesystem!F] = "none"
        /\ \A f \in Files \ {Filesystem!F} : filesSpare'[f] = filesSpare[f]
        /\ filesAt' \in [Files -> {"none", "link", "copy", "repaired", "strange"}] /\ filesAt'[Filesystem!F] = "copy"
        /\ \A f \in Files \ {Filesystem!F} : filesAt'[f] = filesAt[f]
    BY <1>1, <1>3
  <2>2. Filesystem!IsolatedStaysApart' /\ Filesystem!CopyHasOwner' /\ Filesystem!RolledBackIsGone'
    BY <1>1, <1>3, <2>1 DEF FilesInv, Filesystem!IsolatedStaysApart, Filesystem!CopyHasOwner,
       Filesystem!RolledBackIsGone, Filesystem!Is, Filesystem!There, Filesystem!Owned, Filesystem!LinkMatches
  <2>3. FilesGoesOn("swap_done") /\ "swap_done" \in Filesystem!Steps
    BY <1>1, <2>1 DEF FilesGoesOn, Filesystem!Steps
  <2> QED BY <1>1, <1>3, <2>1, <2>2, <2>3, FilesActs DEF FilesInv, Filesystem!TypeOK
<1> QED BY <1>2, <1>3 DEF Filesystem!ReplaceTarget

LEMMA FilesIsolated == ASSUME FilesInv, Filesystem!IsolationApplied PROVE FilesInv'
<1>1. filesCall.op = "isolate" /\ UNCHANGED <<Filesystem!disk, filesGone, filesBudget>>
      /\ Filesystem!SetApplied(filesCall.row) /\ Filesystem!End /\ filesAt[Filesystem!F] # "link"
  BY DEF Filesystem!IsolationApplied, Filesystem!At, FilesInv, FilesCallInv
<1> QED BY <1>1, FilesIsolateRows, FilesEnds

-----------------------------------------------------------------------------

LEMMA FilesRecordCleanup == ASSUME FilesInv, Filesystem!RecordCleanup PROVE FilesInv'
<1>1. /\ filesCall.op = "cleanup" /\ UNCHANGED <<Filesystem!disk, filesGone, filesBudget>> /\ UNCHANGED Filesystem!disk
      /\ Filesystem!F \in Files /\ filesCall.row = <<"cleanup", Filesystem!F>> /\ filesCall.row \in Filesystem!Rows
         /\ ~Undoable(filesCall.row)
  BY FilesOfCall DEF Filesystem!RecordCleanup, Filesystem!At
<1>2. CASE Filesystem!RecordIntent(filesCall.row) /\ Filesystem!Goto("remove")
  <2>1. FilesMay(filesCall.row, "INTENT_RECORDED")
    BY <1>1, FilesNames DEF FilesMay, Filesystem!Status
  <2>2. /\ FilesSafe' /\ filesJournal' \in [Filesystem!Rows -> Filesystem!Row]
        /\ \A f \in Files : ~Early(f) => ~(Early(f))'
    BY <1>1, <1>2, <2>1, FilesIntent
  <2>3. FilesGoesOn("remove") /\ "remove" \in Filesystem!Steps
    BY <1>1 DEF FilesGoesOn, Filesystem!Steps
  <2> QED BY <1>1, <1>2, <2>2, <2>3, FilesGoesOnTo
<1>3. CASE Filesystem!End /\ UNCHANGED filesJournal
  BY <1>1, <1>3, FilesEnds
<1> QED BY <1>2, <1>3 DEF Filesystem!RecordCleanup

LEMMA FilesRemoveCopy == ASSUME FilesInv, Filesystem!RemoveCopy PROVE FilesInv'
<1>1. /\ filesCall.op = "cleanup"
         /\ UNCHANGED <<filesDir, filesTemp, filesSpare, filesSource, filesEffects, filesGone, filesBudget>>
      /\ Filesystem!F \in Files /\ filesCall.row = <<"cleanup", Filesystem!F>> /\ filesCall.row \in Filesystem!Rows
      /\ filesAt \in [Files -> {"none", "link", "copy", "repaired", "strange"}]
  BY FilesOfCall DEF Filesystem!RemoveCopy, Filesystem!At, FilesInv, Filesystem!TypeOK
<1>2. CASE /\ Filesystem!There /\ filesAt' = [filesAt EXCEPT ![Filesystem!F] = "none"] /\ Filesystem!Goto("remove_done")
              /\ UNCHANGED filesJournal
  <2>1. /\ filesAt' \in [Files -> {"none", "link", "copy", "repaired", "strange"}] /\ filesAt'[Filesystem!F] = "none"
        /\ \A f \in Files \ {Filesystem!F} : filesAt'[f] = filesAt[f]
    BY <1>1, <1>2
  <2>2. Filesystem!IsolatedStaysApart' /\ Filesystem!CopyHasOwner' /\ Filesystem!RolledBackIsGone'
    BY <1>1, <1>2, <2>1 DEF FilesInv, Filesystem!IsolatedStaysApart, Filesystem!CopyHasOwner,
       Filesystem!RolledBackIsGone, Filesystem!Is, Filesystem!There
  <2>3. FilesGoesOn("remove_done") /\ "remove_done" \in Filesystem!Steps
    BY <1>1, <2>1 DEF FilesGoesOn, Filesystem!Steps
  <2> QED BY <1>1, <1>2, <2>1, <2>2, <2>3, FilesActs DEF FilesInv, Filesystem!TypeOK
<1>3. CASE Filesystem!Reconcile /\ UNCHANGED filesAt
  <2>1. FilesMay(filesCall.row, "RECONCILE_REQUIRED")
    BY <1>1, FilesMayDoubt, FilesNames
  <2> QED BY <1>1, <1>3, <2>1, FilesEnds DEF Filesystem!disk, Filesystem!Reconcile, Filesystem!Status
<1> QED BY <1>2, <1>3 DEF Filesystem!RemoveCopy

LEMMA FilesCleaned == ASSUME FilesInv, Filesystem!CleanupApplied PROVE FilesInv'
<1>1. /\ filesCall.op = "cleanup" /\ UNCHANGED <<Filesystem!disk, filesGone, filesBudget>>
         /\ Filesystem!SetApplied(filesCall.row) /\ Filesystem!End
      /\ Filesystem!F \in Files /\ filesCall.row = <<"cleanup", Filesystem!F>> /\ filesCall.row \in Filesystem!Rows
         /\ ~Undoable(filesCall.row)
  BY FilesOfCall DEF Filesystem!CleanupApplied, Filesystem!At
<1>2. FilesMay(filesCall.row, "APPLIED")
  BY <1>1, FilesNames DEF FilesMay, Filesystem!Status
<1> QED BY <1>1, <1>2, FilesEnds

-----------------------------------------------------------------------------

LEMMA FilesRollbackRows ==
  ASSUME FilesInv, filesCall.op = "rollback"
  PROVE  /\ filesCall.row \in Filesystem!Rows /\ filesCall.row \in filesEffects
         /\ filesCall.row # Filesystem!DirRow => Filesystem!F \in Files /\ filesCall.row = <<"link", Filesystem!F>>
         /\ FilesMay(filesCall.row, "ROLLBACK_PENDING") /\ FilesMay(filesCall.row, "ROLLBACK_BLOCKED")
         /\ (filesCall.row # Filesystem!DirRow => filesAt[Filesystem!F] # "link") => FilesMay(filesCall.row, "ROLLED_BACK")
<1>1. Undoable(filesCall.row) /\ filesCall.row \in filesEffects /\ filesCall.row \in Filesystem!Rows
  BY FilesParts DEF FilesCallInv
<1>2. filesCall.row # Filesystem!DirRow => Filesystem!F \in Files /\ filesCall.row = <<"link", Filesystem!F>>
  BY <1>1, FilesNames DEF Filesystem!F
<1>3. ASSUME NEW f \in Files
      PROVE  filesCall.row # <<"isolate", f>>
             /\ (filesCall.row = <<"link", f>> => f = Filesystem!F /\ filesCall.row # Filesystem!DirRow)
  <2>1. filesCall.row # <<"isolate", f>>
    BY <1>1, FilesNames
  <2>2. filesCall.row = <<"link", f>> => f = Filesystem!F
    BY DEF Filesystem!F
  <2>3. filesCall.row = <<"link", f>> => filesCall.row # Filesystem!DirRow
    BY FilesNames
  <2> QED BY <2>1, <2>2, <2>3
<1> QED BY <1>1, <1>2, <1>3 DEF FilesMay, Filesystem!Status

LEMMA FilesPending == ASSUME FilesInv, Filesystem!RollbackPending PROVE FilesInv'
<1>1. /\ filesCall.op = "rollback" /\ UNCHANGED <<Filesystem!disk, filesGone, filesBudget>> /\ UNCHANGED Filesystem!disk
      /\ Filesystem!Set(filesCall.row, "ROLLBACK_PENDING") /\ Filesystem!Goto("remove")
  BY DEF Filesystem!RollbackPending, Filesystem!At
<1>2. /\ FilesSafe' /\ filesJournal' \in [Filesystem!Rows -> Filesystem!Row]
      /\ \A f \in Files : ~Early(f) => ~(Early(f))'
  BY <1>1, FilesRollbackRows, FilesSetTo
<1>3. FilesGoesOn("remove") /\ "remove" \in Filesystem!Steps
  BY <1>1 DEF FilesGoesOn, Filesystem!Steps
<1> QED BY <1>1, <1>2, <1>3, FilesGoesOnTo

LEMMA FilesRemoveLink == ASSUME FilesInv, Filesystem!RemoveLink PROVE FilesInv'
<1>1. /\ filesCall.op = "rollback"
         /\ UNCHANGED <<filesDir, filesTemp, filesSpare, filesSource, filesEffects, filesGone, filesBudget>>
      /\ Filesystem!F \in Files /\ filesAt \in [Files -> {"none", "link", "copy", "repaired", "strange"}]
  BY FilesRollbackRows DEF Filesystem!RemoveLink, Filesystem!At, FilesInv, Filesystem!TypeOK
<1>2. CASE Filesystem!End /\ UNCHANGED <<filesAt, filesJournal>>
  BY <1>1, <1>2, FilesEnds DEF Filesystem!disk
<1>3. CASE /\ Filesystem!There /\ filesAt' = [filesAt EXCEPT ![Filesystem!F] = "none"] /\ Filesystem!Goto("remove_done")
              /\ UNCHANGED filesJournal
  <2>1. /\ filesAt' \in [Files -> {"none", "link", "copy", "repaired", "strange"}] /\ filesAt'[Filesystem!F] = "none"
        /\ \A f \in Files \ {Filesystem!F} : filesAt'[f] = filesAt[f]
    BY <1>1, <1>3
  <2>2. Filesystem!IsolatedStaysApart' /\ Filesystem!CopyHasOwner' /\ Filesystem!RolledBackIsGone'
    BY <1>1, <1>3, <2>1 DEF FilesInv, Filesystem!IsolatedStaysApart, Filesystem!CopyHasOwner,
       Filesystem!RolledBackIsGone, Filesystem!Is, Filesystem!There
  <2>3. FilesGoesOn("remove_done") /\ "remove_done" \in Filesystem!Steps
    BY <1>1, <2>1 DEF FilesGoesOn, Filesystem!Steps
  <2> QED BY <1>1, <1>3, <2>1, <2>2, <2>3, FilesActs DEF FilesInv, Filesystem!TypeOK
<1>4. CASE Filesystem!Set(filesCall.row, "ROLLBACK_BLOCKED") /\ Filesystem!End /\ UNCHANGED filesAt
  BY <1>1, <1>4, FilesRollbackRows, FilesEnds DEF Filesystem!disk, Filesystem!Status
<1> QED BY <1>2, <1>3, <1>4 DEF Filesystem!RemoveLink

LEMMA FilesRemoveDirectory == ASSUME FilesInv, Filesystem!RemoveDirectory PROVE FilesInv'
<1>1. /\ filesCall.op = "rollback"
         /\ UNCHANGED <<filesAt, filesTemp, filesSpare, filesSource, filesEffects, filesGone, filesBudget>>
      /\ filesCall.row = Filesystem!DirRow
  BY DEF Filesystem!RemoveDirectory, Filesystem!At
<1>2. CASE /\ ~Filesystem!There \/ (Filesystem!DirMatches /\ Filesystem!Empty)
           /\ filesDir' = "absent" /\ Filesystem!Goto("remove_done") /\ UNCHANGED filesJournal
  <2>1. Filesystem!IsolatedStaysApart' /\ Filesystem!CopyHasOwner' /\ Filesystem!RolledBackIsGone'
    BY <1>1, <1>2 DEF FilesInv, Filesystem!IsolatedStaysApart, Filesystem!CopyHasOwner, Filesystem!RolledBackIsGone,
       Filesystem!Is, Filesystem!There, Filesystem!Empty
  <2>2. FilesGoesOn("remove_done") /\ "remove_done" \in Filesystem!Steps
    BY <1>1 DEF FilesGoesOn, Filesystem!Steps
  <2> QED BY <1>1, <1>2, <2>1, <2>2, FilesActs DEF FilesInv, Filesystem!TypeOK
<1>3. CASE Filesystem!Set(filesCall.row, "ROLLBACK_BLOCKED") /\ Filesystem!End /\ UNCHANGED filesDir
  BY <1>1, <1>3, FilesRollbackRows, FilesEnds DEF Filesystem!disk, Filesystem!Status
<1> QED BY <1>2, <1>3 DEF Filesystem!RemoveDirectory

LEMMA FilesRolledBack == ASSUME FilesInv, Filesystem!RolledBack PROVE FilesInv'
<1>1. /\ filesCall.op = "rollback" /\ UNCHANGED <<Filesystem!disk, filesGone, filesBudget>>
      /\ Filesystem!Set(filesCall.row, "ROLLED_BACK") /\ Filesystem!End
         /\ (filesCall.row # Filesystem!DirRow => filesAt[Filesystem!F] # "link")
  BY DEF Filesystem!RolledBack, Filesystem!At, FilesInv, FilesCallInv
<1> QED BY <1>1, FilesRollbackRows, FilesEnds DEF Filesystem!Status

-----------------------------------------------------------------------------

\* A row whose effect is proven again is applied.
LEMMA FilesReconcile == ASSUME FilesInv, NEW r \in Filesystem!Rows, Filesystem!ReconcileJournal(r) PROVE FilesInv'
<1>1. /\ filesCall = Filesystem!Idle /\ UNCHANGED <<Filesystem!disk, filesGone, filesCall>> /\ UNCHANGED Filesystem!disk
         /\ Filesystem!SetApplied(r)
      /\ Undoable(r) /\ filesJournal[r].proof /\ filesBudget.calls < FsCalls
      /\ filesBudget' = [filesBudget EXCEPT !.calls = @ + 1]
  BY DEF Filesystem!ReconcileJournal, Undoable
<1>2. r \in filesEffects
  BY <1>1 DEF FilesInv, FilesRowInv
<1>3. FilesMay(r, "APPLIED")
  BY <1>1, <1>2, FilesNames DEF FilesMay, Filesystem!Status
<1>4. FilesSafe' /\ filesJournal' \in [Filesystem!Rows -> Filesystem!Row]
  BY <1>1, <1>3, FilesApplied
<1>5. filesBudget' \in [calls : 0..FsCalls, faults : 0..FsFaults, meddling : 0..FsMeddling]
  BY <1>1, FilesAssumption DEF FilesInv, Filesystem!TypeOK
<1>6. FilesCallInv'
  BY <1>1 DEF FilesCallInv, Filesystem!At, Filesystem!Idle
<1> QED BY <1>1, <1>4, <1>5, <1>6 DEF FilesInv, FilesSafe, Filesystem!TypeOK, Filesystem!disk

LEMMA FilesBudget ==
  ASSUME FilesInv, filesBudget.faults < FsFaults, filesBudget' = [filesBudget EXCEPT !.faults = @ + 1]
  PROVE  filesBudget' \in [calls : 0..FsCalls, faults : 0..FsFaults, meddling : 0..FsMeddling]
  BY FilesAssumption DEF FilesInv, Filesystem!TypeOK

LEMMA FilesFaults == ASSUME FilesInv, Filesystem!Interrupted \/ Filesystem!Failed PROVE FilesInv'
<1>1. /\ Filesystem!End /\ UNCHANGED <<Filesystem!disk, filesGone>> /\ UNCHANGED Filesystem!disk
      /\ filesBudget' \in [calls : 0..FsCalls, faults : 0..FsFaults, meddling : 0..FsMeddling]
  BY FilesBudget DEF Filesystem!Interrupted, Filesystem!Failed
<1>2. FilesCallInv' /\ filesCall' \in FilesCall
  BY <1>1, FilesEnded
<1>3. FilesSafe' /\ filesJournal' \in [Filesystem!Rows -> Filesystem!Row]
  <2>1. CASE Filesystem!Interrupted
    BY <2>1, FilesParts, FilesQuiet DEF Filesystem!Interrupted
  <2>2. CASE Filesystem!Failed
    <3>1. CASE filesCall.op = "isolate" /\ Filesystem!Set(filesCall.row, "RECONCILE_REQUIRED")
      BY <1>1, <3>1, FilesIsolateRows, FilesSetTo
    <3>2. CASE filesCall.op = "cleanup" /\ Filesystem!Set(filesCall.row, "RECONCILE_REQUIRED")
      <4>1. FilesMay(filesCall.row, "RECONCILE_REQUIRED")
        BY <3>2, FilesOfCall, FilesMayDoubt, FilesNames
      <4> QED BY <1>1, <3>2, <4>1, FilesSetTo
    <3>3. CASE filesCall.op = "rollback" /\ Filesystem!Set(filesCall.row, "ROLLBACK_BLOCKED")
      BY <1>1, <3>3, FilesRollbackRows, FilesSetTo
    <3> QED BY <2>2, <3>1, <3>2, <3>3 DEF Filesystem!Failed, Filesystem!At
  <2> QED BY <2>1, <2>2
<1> QED BY <1>1, <1>2, <1>3 DEF FilesInv, FilesSafe, Filesystem!TypeOK, Filesystem!disk, FilesCall

\* Others change the disk, and the call under way finds out.
LEMMA FilesMeddled ==
  ASSUME FilesInv, UNCHANGED <<filesJournal, filesGone, filesCall, filesEffects, filesTemp, filesSpare>>,
         filesDir' \in {"absent", "made", "strange"},
         filesAt' \in [Files -> {"none", "link", "copy", "repaired", "strange"}],
         filesSource' \in [Files -> {"intact", "edited"}],
         filesBudget' \in [calls : 0..FsCalls, faults : 0..FsFaults, meddling : 0..FsMeddling],
         \A f \in Files : /\ filesAt'[f] = "link" => filesAt[f] = "link"
                          /\ filesAt'[f] \in {"copy", "repaired"} => filesAt[f] \in {"copy", "repaired"},
         ~(Filesystem!There)' => \A f \in Files : filesAt'[f] = "none" /\ ~filesTemp[f] /\ filesSpare[f] = "none"
  PROVE  FilesInv'
<1>1. FilesRowInv'
  BY DEF FilesInv, FilesRowInv, Undoable, Filesystem!Is, Early
<1>2. /\ filesCall.op = "isolate" => Filesystem!F \in Files
      /\ filesCall.op = "rollback" /\ filesCall.row # Filesystem!DirRow => Filesystem!F \in Files
  BY FilesIsolateRows, FilesRollbackRows
<1>3. FilesCallInv'
  BY <1>2 DEF FilesInv, FilesCallInv, Filesystem!At, Filesystem!Is, Early, Filesystem!F, Filesystem!Owned, Undoable,
     Filesystem!DirRow
<1>4. Filesystem!IsolatedStaysApart' /\ Filesystem!CopyHasOwner' /\ Filesystem!RolledBackIsGone'
  BY DEF FilesInv, Filesystem!IsolatedStaysApart, Filesystem!CopyHasOwner, Filesystem!RolledBackIsGone, Filesystem!Is
<1>5. Filesystem!TypeOK'
  BY DEF FilesInv, Filesystem!TypeOK
<1> QED BY <1>1, <1>3, <1>4, <1>5 DEF FilesInv

LEMMA FilesOthers == ASSUME FilesInv, Filesystem!Meddle \/ \E f \in Files : Filesystem!ClientRepairs(f) PROVE FilesInv'
<1>1. /\ filesAt \in [Files -> {"none", "link", "copy", "repaired", "strange"}]
      /\ filesSource \in [Files -> {"intact", "edited"}] /\ filesDir \in {"absent", "made", "strange"}
      /\ filesBudget \in [calls : 0..FsCalls, faults : 0..FsFaults, meddling : 0..FsMeddling]
      /\ ~Filesystem!There => Filesystem!Empty
  BY DEF FilesInv, Filesystem!TypeOK, Filesystem!RolledBackIsGone, Filesystem!Empty
<1>2. CASE Filesystem!Meddle
  <2>1. /\ UNCHANGED <<filesJournal, filesGone, filesCall, filesEffects, filesTemp, filesSpare>>
        /\ filesBudget' \in [calls : 0..FsCalls, faults : 0..FsFaults, meddling : 0..FsMeddling]
    BY <1>1, <1>2, FilesAssumption DEF Filesystem!Meddle
  <2>2. CASE /\ UNCHANGED <<filesAt, filesSource>> /\ Filesystem!Empty /\ filesDir' \in {"absent", "strange"}
    BY <1>1, <2>1, <2>2, FilesMeddled DEF Filesystem!Empty
  <2>3. CASE \E f \in Files : /\ Filesystem!There /\ UNCHANGED <<filesDir, filesSource>>
                              /\ filesAt' = [filesAt EXCEPT ![f] = IF @ = "none" THEN "strange" ELSE "none"]
    BY <1>1, <2>1, <2>3, FilesMeddled DEF Filesystem!There
  <2>4. CASE \E f \in Files : /\ filesAt[f] \in {"link", "copy", "repaired"} /\ UNCHANGED <<filesDir, filesSource>>
                              /\ filesAt' = [filesAt EXCEPT ![f] = "strange"]
    BY <1>1, <2>1, <2>4, FilesMeddled DEF Filesystem!There, Filesystem!Empty
  <2>5. CASE \E f \in Files : filesSource' = [filesSource EXCEPT ![f] = "edited"] /\ UNCHANGED <<filesDir, filesAt>>
    BY <1>1, <2>1, <2>5, FilesMeddled DEF Filesystem!There, Filesystem!Empty
  <2>6. CASE filesDir = "absent" /\ filesDir' = "strange" /\ UNCHANGED <<filesAt, filesSource>>
    BY <1>1, <2>1, <2>6, FilesMeddled DEF Filesystem!There
  <2> QED BY <1>2, <2>2, <2>3, <2>4, <2>5, <2>6 DEF Filesystem!Meddle
<1>3. ASSUME NEW f \in Files, Filesystem!ClientRepairs(f) PROVE FilesInv'
  <2>1. /\ filesAt' = [filesAt EXCEPT ![f] = "repaired"] /\ filesAt[f] = "copy"
        /\ UNCHANGED <<filesDir, filesTemp, filesSpare, filesSource, filesEffects, filesJournal, filesGone, filesCall, filesBudget>>
    BY <1>3 DEF Filesystem!ClientRepairs
  <2> QED BY <1>1, <2>1, FilesMeddled DEF Filesystem!There, Filesystem!Empty
<1> QED BY <1>2, <1>3

LEMMA FilesLetGo == ASSUME FilesInv, Filesystem!ClientLetsGo \/ UNCHANGED Filesystem!vars PROVE FilesInv'
<1>1. UNCHANGED <<filesDir, filesAt, filesTemp, filesSpare, filesSource, filesJournal, filesCall, filesEffects, filesBudget>> /\ filesGone' \in BOOLEAN /\ (filesGone => filesGone')
  BY DEF Filesystem!ClientLetsGo, Filesystem!vars, Filesystem!disk, FilesInv, Filesystem!TypeOK
<1>2. FilesCallInv'
  BY <1>1 DEF FilesInv, FilesCallInv, Filesystem!At, Filesystem!Is, Early, Filesystem!F, Filesystem!Owned, Undoable,
     Filesystem!DirRow
<1>3. FilesRowInv' /\ Filesystem!IsolatedStaysApart' /\ Filesystem!CopyHasOwner' /\ Filesystem!RolledBackIsGone'
  BY <1>1 DEF FilesInv, FilesRowInv, Undoable, Filesystem!Is, Early, Filesystem!IsolatedStaysApart,
     Filesystem!CopyHasOwner, Filesystem!RolledBackIsGone, Filesystem!There
<1> QED BY <1>1, <1>2, <1>3 DEF FilesInv, Filesystem!TypeOK

LEMMA FilesBeginning == Filesystem!Init => FilesInv
<1> SUFFICES ASSUME Filesystem!Init PROVE FilesInv
  OBVIOUS
<1>1. /\ \A r \in Filesystem!Rows : filesJournal[r].status = "NONE" /\ ~filesJournal[r].proof
      /\ filesJournal \in [Filesystem!Rows -> Filesystem!Row]
      /\ \A f \in Files : filesAt[f] = "none" /\ filesTemp[f] = FALSE /\ filesSpare[f] = "none"
      /\ filesCall = [op |-> "none", step |-> "none", row |-> Filesystem!DirRow]
  BY DEF Filesystem!Init, Filesystem!Row, Filesystem!Status, Filesystem!Idle
<1>2. Filesystem!TypeOK
  <2>1. filesBudget \in [calls : 0..FsCalls, faults : 0..FsFaults, meddling : 0..FsMeddling]
    BY FilesAssumption DEF Filesystem!Init
  <2>2. filesCall \in FilesCall
    BY <1>1, FilesNames DEF FilesCall, Filesystem!Ops, Filesystem!Steps
  <2>3. /\ filesAt \in [Files -> {"none", "link", "copy", "repaired", "strange"}]
        /\ filesTemp \in [Files -> BOOLEAN] /\ filesSpare \in [Files -> {"none", "bare", "owned", "full"}]
        /\ filesSource \in [Files -> {"intact", "edited"}]
    BY DEF Filesystem!Init
  <2> QED BY <1>1, <2>1, <2>2, <2>3 DEF Filesystem!Init, Filesystem!TypeOK, FilesCall
<1>3. FilesCallInv
  BY <1>1 DEF Filesystem!Init, FilesCallInv, Filesystem!At
<1>4. FilesRowInv
  BY <1>1, FilesNames DEF FilesRowInv, Filesystem!Is
<1>5. Filesystem!IsolatedStaysApart /\ Filesystem!CopyHasOwner /\ Filesystem!RolledBackIsGone
  BY <1>1, FilesNames DEF Filesystem!IsolatedStaysApart, Filesystem!CopyHasOwner, Filesystem!RolledBackIsGone,
     Filesystem!Is
<1> QED BY <1>2, <1>3, <1>4, <1>5 DEF FilesInv

LEMMA FilesStep == FilesInv /\ [Filesystem!Next]_(Filesystem!vars) => FilesInv'
<1> SUFFICES ASSUME FilesInv, [Filesystem!Next]_(Filesystem!vars) PROVE FilesInv'
  OBVIOUS
<1>1. CASE Filesystem!Step
  BY <1>1, FilesValidate, FilesLook, FilesPrepare, FilesCreate, FilesDirApplied, FilesRecordLink,
     FilesTemporary, FilesPublish, FilesLinkApplied, FilesRecordIsolation, FilesTake, FilesMark,
     FilesCopy, FilesReplace, FilesIsolated, FilesRecordCleanup, FilesRemoveCopy, FilesCleaned,
     FilesPending, FilesRemoveLink, FilesRemoveDirectory, FilesRolledBack DEF Filesystem!Step
<1>2. CASE \/ \E f \in Files : Filesystem!ExecuteHardlink(f) \/ Filesystem!Isolate(f) \/ Filesystem!Cleanup(f)
           \/ \E r \in Filesystem!Rows : Filesystem!Rollback(r)
  BY <1>2, FilesBegins
<1>3. CASE \E r \in Filesystem!Rows : Filesystem!ReconcileJournal(r)
  BY <1>3, FilesReconcile
<1>4. CASE Filesystem!Interrupted \/ Filesystem!Failed
  BY <1>4, FilesFaults
<1>5. CASE Filesystem!Meddle \/ \E f \in Files : Filesystem!ClientRepairs(f)
  BY <1>5, FilesOthers
<1>6. CASE Filesystem!ClientLetsGo \/ UNCHANGED Filesystem!vars
  BY <1>6, FilesLetGo
<1>7. \/ Filesystem!Step \/ Filesystem!Interrupted \/ Filesystem!Failed \/ Filesystem!Meddle \/ Filesystem!ClientLetsGo
         \/ UNCHANGED Filesystem!vars
      \/ \E f \in Files : Filesystem!ExecuteHardlink(f) \/ Filesystem!Isolate(f) \/ Filesystem!Cleanup(f)
      \/ \E r \in Filesystem!Rows : Filesystem!Rollback(r) \/ Filesystem!ReconcileJournal(r)
      \/ \E f \in Files : Filesystem!ClientRepairs(f)
  BY DEF Filesystem!Next
<1>8. CASE \E r \in Filesystem!Rows : Filesystem!Rollback(r) \/ Filesystem!ReconcileJournal(r)
  BY <1>2, <1>3, <1>8
<1> QED BY <1>1, <1>2, <1>4, <1>5, <1>6, <1>7, <1>8

LEMMA FilesAreOurs ==
  FilesInv => Filesystem!TypeOK /\ Filesystem!IsolatedStaysApart /\ Filesystem!CopyHasOwner /\ Filesystem!RolledBackIsGone /\ Filesystem!AppliedIsOurs
  BY DEF FilesInv, FilesRowInv, Filesystem!AppliedIsOurs, Undoable

\* What is not the task's keeps its place in every step but one of others.
OthersStay ==
    /\ filesDir = "strange" => filesDir' = "strange"
    /\ \A f \in Files : /\ filesAt[f] = "strange" => filesAt'[f] = "strange"
                        /\ filesAt[f] \in {"copy", "repaired"} /\ ~filesGone => filesAt'[f] # "none"

LEMMA FilesOthersStay == FilesInv /\ [Filesystem!Next]_(Filesystem!vars) /\ filesBudget'.meddling = filesBudget.meddling => OthersStay
<1> SUFFICES ASSUME FilesInv, [Filesystem!Next]_(Filesystem!vars),
                    filesBudget'.meddling = filesBudget.meddling PROVE OthersStay
  OBVIOUS
<1>1. /\ filesAt \in [Files -> {"none", "link", "copy", "repaired", "strange"}]
      /\ filesBudget \in [calls : 0..FsCalls, faults : 0..FsFaults, meddling : 0..FsMeddling]
      /\ filesCall.op \in {"link", "isolate", "cleanup"} => Filesystem!F \in Files
      /\ filesCall.op = "cleanup" => filesGone
  BY FilesOfCall DEF FilesInv, Filesystem!TypeOK, FilesCallInv
<1>2. ~Filesystem!Meddle
  BY <1>1, FilesAssumption DEF Filesystem!Meddle
<1>3. CASE UNCHANGED <<filesDir, filesAt>>
  BY <1>3 DEF OthersStay
<1>4. CASE Filesystem!CreateDirectory \/ Filesystem!RemoveDirectory
  <2>1. UNCHANGED filesAt /\ (filesDir' = "made" \/ filesDir' = "absent" \/ UNCHANGED filesDir)
        /\ (filesDir = "strange" => UNCHANGED filesDir)
    BY <1>4 DEF Filesystem!CreateDirectory, Filesystem!RemoveDirectory, Filesystem!There, Filesystem!DirMatches
  <2> QED BY <2>1 DEF OthersStay
<1>5. CASE Filesystem!Publish \/ Filesystem!ReplaceTarget \/ Filesystem!RemoveCopy \/ Filesystem!RemoveLink
  <2>1. /\ UNCHANGED filesDir
        /\ \/ UNCHANGED filesAt
           \/ filesAt' = [filesAt EXCEPT ![Filesystem!F] = "link"] /\ filesAt[Filesystem!F] = "none"
           \/ filesAt' = [filesAt EXCEPT ![Filesystem!F] = "copy"] /\ filesAt[Filesystem!F] = "link"
           \/ filesAt' = [filesAt EXCEPT ![Filesystem!F] = "none"]
              /\ (filesAt[Filesystem!F] \in {"none", "link"} \/ (filesGone /\ filesAt[Filesystem!F] \in {"copy", "repaired"}))
    <3>1. CASE Filesystem!Publish
      BY <3>1 DEF Filesystem!Publish, Filesystem!Refuse, Filesystem!TargetFree
    <3>2. CASE Filesystem!ReplaceTarget
      BY <3>2 DEF Filesystem!ReplaceTarget, Filesystem!LinkMatches
    <3>3. CASE Filesystem!RemoveCopy
      BY <1>1, <3>3 DEF Filesystem!RemoveCopy, Filesystem!TargetFree, Filesystem!OwnCopy, Filesystem!At
    <3>4. CASE Filesystem!RemoveLink
      BY <3>4 DEF Filesystem!RemoveLink, Filesystem!TargetFree, Filesystem!LinkMatches
    <3> QED BY <1>5, <3>1, <3>2, <3>3, <3>4
  <2> QED BY <1>1, <2>1 DEF OthersStay
<1>6. CASE \E f \in Files : Filesystem!ClientRepairs(f)
  BY <1>1, <1>6 DEF Filesystem!ClientRepairs, OthersStay
<1>7. CASE \/ Filesystem!ValidateDirectory \/ Filesystem!LookAtTarget \/ Filesystem!PrepareDirectory
              \/ Filesystem!DirectoryApplied
           \/ Filesystem!RecordLink \/ Filesystem!LinkTemporary \/ Filesystem!LinkApplied
  <2>1. UNCHANGED <<filesDir, filesAt>>
    BY <1>7 DEF Filesystem!ValidateDirectory, Filesystem!LookAtTarget, Filesystem!PrepareDirectory,
       Filesystem!DirectoryApplied, Filesystem!RecordLink,
       Filesystem!LinkTemporary, Filesystem!Refuse, Filesystem!LinkApplied, Filesystem!disk
  <2> QED BY <1>3, <2>1
<1>8. CASE \/ Filesystem!RecordIsolation \/ Filesystem!TakeTemporary \/ Filesystem!MarkTemporary
              \/ Filesystem!CopySource \/ Filesystem!IsolationApplied
           \/ Filesystem!RecordCleanup \/ Filesystem!CleanupApplied \/ Filesystem!RollbackPending
              \/ Filesystem!RolledBack
  <2>1. UNCHANGED <<filesDir, filesAt>>
    BY <1>8 DEF Filesystem!RecordIsolation, Filesystem!TakeTemporary, Filesystem!MarkTemporary, Filesystem!CopySource,
       Filesystem!IsolationApplied,
       Filesystem!RecordCleanup, Filesystem!CleanupApplied, Filesystem!RollbackPending, Filesystem!RolledBack,
       Filesystem!disk
  <2> QED BY <1>3, <2>1
<1>9. CASE \/ \E f \in Files : Filesystem!ExecuteHardlink(f) \/ Filesystem!Isolate(f) \/ Filesystem!Cleanup(f)
           \/ \E r \in Filesystem!Rows : Filesystem!Rollback(r) \/ Filesystem!ReconcileJournal(r)
           \/ Filesystem!Interrupted \/ Filesystem!Failed \/ Filesystem!ClientLetsGo \/ UNCHANGED Filesystem!vars
  <2>1. UNCHANGED <<filesDir, filesAt>>
    BY <1>9 DEF Filesystem!ExecuteHardlink, Filesystem!Isolate, Filesystem!Cleanup, Filesystem!Rollback,
       Filesystem!Begin, Filesystem!ReconcileJournal, Filesystem!Interrupted,
       Filesystem!Failed, Filesystem!ClientLetsGo, Filesystem!disk, Filesystem!vars
  <2> QED BY <1>3, <2>1
<1>10. \/ Filesystem!Step \/ Filesystem!Interrupted \/ Filesystem!Failed \/ Filesystem!Meddle \/ Filesystem!ClientLetsGo
          \/ UNCHANGED Filesystem!vars
       \/ \E f \in Files : Filesystem!ExecuteHardlink(f) \/ Filesystem!Isolate(f) \/ Filesystem!Cleanup(f)
       \/ \E r \in Filesystem!Rows : Filesystem!Rollback(r) \/ Filesystem!ReconcileJournal(r)
       \/ \E f \in Files : Filesystem!ClientRepairs(f)
  BY DEF Filesystem!Next
<1>11. CASE Filesystem!Step
  BY <1>4, <1>5, <1>7, <1>8, <1>11 DEF Filesystem!Step
<1> QED BY <1>2, <1>6, <1>9, <1>10, <1>11

\* What a task does on disk is its own: an isolated file never again shares the inode of
\* its source, the row knows a copy before a byte is in it, what is reported as rolled
\* back is gone, and no stop or repeated call makes a strange file ours
\* (filesystem_operations.py).
THEOREM EffectsStayOurs == Spec => []EffectsAreOurs
<1> DEFINE Inv == subject = "files" => FilesInv
<1>1. Init => Inv
  BY FilesBeginning DEF Init
<1>2. Inv /\ [Next]_vars => Inv'
  <2> SUFFICES ASSUME Inv, [Next]_vars, subject' = "files" PROVE FilesInv'
    OBVIOUS
  <2>1. subject = "files" /\ [Filesystem!Next]_(Filesystem!vars)
    BY DEF Next, vars, Others, files, Filesystem!vars
  <2>2. FilesInv
    BY <2>1
  <2> HIDE DEF Inv
  <2> QED BY <2>1, <2>2, FilesStep
<1>3. Inv => EffectsAreOurs
  BY FilesAreOurs DEF EffectsAreOurs
<1> QED BY <1>1, <1>2, <1>3, PTL DEF Spec

-----------------------------------------------------------------------------
(* The replacement of duplicate movies *)

\* The steps of a call before the exchange, those that found it done, and those behind
\* the verification.
Preparing(w, p) == Movies!P(w) = p /\ movieWorker[w].step \in {"source", "temp", "link", "look", "swap"}
Confirming(w, p) == Movies!P(w) = p /\ movieWorker[w].step \in {"exchanged", "verify", "verified"}
Clearing(w, p) == Movies!P(w) = p /\ movieWorker[w].step \in {"clean", "unlink", "final"}
Swapping(w, t) == Movies!At(w, "swap") /\ Movies!Tgt(w) = t

\* Where the original of a file of B is: at its place, beside the link of its pair,
\* beside something else, or gone.
InPlace(t) == movieAt[t] = "original"
Beside(p) == movieTemp[p] = "original"
Swapped(p) == movieAt[p.b] = p.a /\ Beside(p)
Past(t) == ~InPlace(t) /\ \A p \in Pairs : p.b = t => ~Swapped(p)

\* The original is in place, or a thread is about to bring it back there.
Live(p) ==
    \/ InPlace(p.b)
    \/ \E q \in Pairs \ {p} : q.b = p.b /\ Swapped(q) /\ \E d \in Movies!Threads : Movies!At(d, "swap") /\ Movies!P(d) = q

\* A pair that nobody takes up before its exchange again.
Closed(p) == movieJournal[p] = "VERIFIED" \/ moviePair[p] # "VERIFIED_DUPLICATE"

\* Which pair a thread works on.
MovieWorkInv ==
    /\ \A w \in Movies!Threads : movieWorker[w].step \in {"idle", "load"} <=> Movies!P(w) = Movies!NoPair
    /\ ~movieCrossed => \A w, d \in Movies!Threads : w # d /\ Movies!P(w) # Movies!NoPair => Movies!Tgt(w) # Movies!Tgt(d)
    /\ ~movieCrossed => \A w \in Movies!Threads : Movies!At(w, "unlink") => movieTemp[Movies!P(w)] = "original"
    /\ \A p \in Pairs : movieJournal[p] \in {"COMMITTED", "RECOVERY_REQUIRED"} => moviePair[p] # "VERIFIED_DUPLICATE"

\* The names that belong to one file of B hold its original once at most.
MovieNamesAt(t) ==
    /\ movieAt[t] \in {"original"} \cup Movies!Sources
    /\ \A p \in Pairs : p.b = t =>
           /\ movieTemp[p] # "strange"
           /\ InPlace(t) => movieTemp[p] \in {"none", p.a}
           /\ \A q \in Pairs \ {p} : q.b = t /\ Beside(p) => ~Beside(q)
           /\ \A q \in Pairs \ {p} : q.b = t /\ Swapped(p) => movieTemp[q] \in {"none", q.a}

\* Who is about to exchange the two names.
MovieSwapAt(t) ==
    \A p \in Pairs : p.b = t =>
        /\ Swapped(p) => \E w \in Movies!Threads : ~Swapping(w, t)
        /\ \A w \in Movies!Threads : Movies!P(w) = p /\ movieWorker[w].step \in {"look", "swap"} /\ Live(p) => movieTemp[p] = p.a
        /\ Beside(p) /\ ~Swapped(p) => \A w \in Movies!Threads : ~Swapping(w, t)

\* What a thread that goes to the end knows.
MovieLateAt(t) ==
    \A w, d \in Movies!Threads : \A p \in Pairs : w # d /\ p.b = t =>
        /\ Live(p) /\ Clearing(w, p) /\ (movieWorker[w].step = "clean" => movieTemp[p] = "none") =>
               ~Preparing(d, p) /\ ~Confirming(d, p) /\ Closed(p)
        /\ Live(p) /\ movieTemp[p] = "none" => ~Confirming(d, p) /\ (Closed(p) => ~Preparing(d, p))
        /\ Live(p) /\ movieTemp[p] = "none" /\ Movies!P(d) = p /\ Movies!At(d, "check") => Closed(p)
        /\ Swapped(p) /\ Clearing(w, p) /\ Swapping(d, t) => Closed(p)

MovieDoneAt(t) ==
    \A p \in Pairs : p.b = t =>
        /\ \A w \in Movies!Threads : Movies!P(w) = p =>
               /\ Movies!At(w, "final") => ~Beside(p)
               /\ Movies!At(w, "commit") => ~Beside(p) /\ Past(t)
        /\ moviePair[p] = "COMPLETED" => ~Beside(p) /\ Past(t)

MovieQuietAt(t) == MovieNamesAt(t) /\ MovieSwapAt(t) /\ MovieLateAt(t) /\ MovieDoneAt(t)
MovieQuietInv == (\A p \in Pairs : movieSource[p.a] = "intact") /\ \A t \in Movies!Targets : MovieQuietAt(t)

MovieInv == Movies!TypeOK /\ MovieWorkInv /\ (movieBudget.meddling = 0 => MovieQuietInv)

MovieWorker == [step : Movies!Steps, todo : SUBSET Pairs, pair : Pairs \cup {Movies!NoPair}]
MovieStatuses == Movies!Active \cup {"NONE", "COMMITTED", "RECOVERY_REQUIRED"}

\* The temporary link of a pair is found by its two paths, and no path has the name of
\* one of the marks.  Nothing else is used of the pairs.
LEMMA MoviePairs ==
  /\ \A p \in Pairs : p.a \notin {"none", "original", "strange"} /\ p.b # "none" /\ p # Movies!NoPair
  /\ \A p, q \in Pairs : p.a = q.a /\ p.b = q.b => p = q
  BY DEF Pairs, Movies!NoPair

LEMMA MovieNames ==
  /\ Movies!Idle \in MovieWorker /\ Movies!Idle.step = "idle" /\ Movies!Idle.pair = Movies!NoPair
     /\ Movies!Idle.todo = {}
  /\ \A p \in Pairs : p.a \in Movies!Sources /\ p.b \in Movies!Targets /\ p.a \in Movies!Entry
  /\ "original" \in Movies!Entry /\ "none" \in Movies!Entry /\ "strange" \in Movies!Entry
  BY DEF Movies!Idle, MovieWorker, Movies!Steps, Movies!Sources, Movies!Targets, Movies!Entry

LEMMA MovieTypes ==
  ASSUME Movies!TypeOK
  PROVE  /\ movieWorker \in [Movies!Threads -> MovieWorker]
            /\ moviePair \in [Pairs -> {"VERIFIED_DUPLICATE", "COMPLETED", "FAILED"}]
         /\ movieJournal \in [Pairs -> MovieStatuses] /\ movieAt \in [Movies!Targets -> Movies!Entry]
            /\ movieTemp \in [Pairs -> Movies!Entry]
         /\ \A w \in Movies!Threads : /\ movieWorker[w] \in MovieWorker /\ movieWorker[w].todo \subseteq Pairs
                                      /\ Movies!P(w) \in Pairs \cup {Movies!NoPair}
                                         /\ movieWorker[w].step \in Movies!Steps
  BY DEF Movies!TypeOK, MovieWorker, MovieStatuses, Movies!P

\* A thread's record changes, the other's does not.
LEMMA MovieRecord ==
  ASSUME Movies!TypeOK, NEW w \in Movies!Threads, NEW v \in MovieWorker, movieWorker' = [movieWorker EXCEPT ![w] = v]
  PROVE  /\ movieWorker' \in [Movies!Threads -> MovieWorker] /\ movieWorker'[w] = v
         /\ \A d \in Movies!Threads \ {w} : movieWorker'[d] = movieWorker[d]
  BY MovieTypes

LEMMA MovieGoto ==
  ASSUME Movies!TypeOK, NEW w \in Movies!Threads, NEW s \in Movies!Steps, Movies!Goto(w, s)
  PROVE  /\ movieWorker' \in [Movies!Threads -> MovieWorker]
         /\ movieWorker'[w].step = s /\ movieWorker'[w].pair = Movies!P(w) /\ movieWorker'[w].todo = movieWorker[w].todo
         /\ \A d \in Movies!Threads \ {w} : movieWorker'[d] = movieWorker[d]
<1>1. movieWorker[w] \in MovieWorker /\ movieWorker \in [Movies!Threads -> MovieWorker]
      /\ movieWorker' = [movieWorker EXCEPT ![w].step = s]
  BY MovieTypes DEF Movies!Goto
<1>2. [movieWorker[w] EXCEPT !.step = s] \in MovieWorker
  BY <1>1 DEF MovieWorker
<1>3. movieWorker'[w] = [movieWorker[w] EXCEPT !.step = s] /\ movieWorker' \in [Movies!Threads -> MovieWorker]
  BY <1>1, <1>2
<1> QED BY <1>1, <1>3 DEF MovieWorker, Movies!P

LEMMA MovieNext ==
  ASSUME Movies!TypeOK, NEW w \in Movies!Threads, Movies!NextPair(w)
  PROVE  /\ movieWorker' \in [Movies!Threads -> MovieWorker]
         /\ movieWorker'[w].step = "load" /\ movieWorker'[w].pair = Movies!NoPair
         /\ \A d \in Movies!Threads \ {w} : movieWorker'[d] = movieWorker[d]
<1>1. movieWorker[w] \in MovieWorker /\ movieWorker \in [Movies!Threads -> MovieWorker]
      /\ movieWorker' = [movieWorker EXCEPT ![w] = [movieWorker[w] EXCEPT !.step = "load", !.pair = Movies!NoPair]]
  BY MovieTypes DEF Movies!NextPair
<1>2. [movieWorker[w] EXCEPT !.step = "load", !.pair = Movies!NoPair] \in MovieWorker
  BY <1>1 DEF MovieWorker, Movies!Steps
<1>3. movieWorker'[w] = [movieWorker[w] EXCEPT !.step = "load", !.pair = Movies!NoPair]
      /\ movieWorker' \in [Movies!Threads -> MovieWorker]
  BY <1>1, <1>2
<1> QED BY <1>1, <1>3 DEF MovieWorker

\* A step of one thread, or its failure: only the driver's leaves something behind.
LEMMA MovieFail ==
  ASSUME Movies!TypeOK, NEW w \in Movies!Threads, Movies!P(w) \in Pairs, Movies!Fail(w)
  PROVE  /\ movieWorker' \in [Movies!Threads -> MovieWorker] /\ movieWorker'[w] = Movies!Idle
         /\ \A d \in Movies!Threads \ {w} : movieWorker'[d] = movieWorker[d]
         /\ movieJournal' \in [Pairs -> MovieStatuses]
         /\ moviePair' \in [Pairs -> {"VERIFIED_DUPLICATE", "COMPLETED", "FAILED"}]
         /\ \A p \in Pairs \ {Movies!P(w)} : movieJournal'[p] = movieJournal[p] /\ moviePair'[p] = moviePair[p]
         /\ \/ movieJournal'[Movies!P(w)] = movieJournal[Movies!P(w)]
               /\ moviePair'[Movies!P(w)] = moviePair[Movies!P(w)]
            \/ movieJournal'[Movies!P(w)] = "RECOVERY_REQUIRED" /\ moviePair'[Movies!P(w)] = "FAILED"
         /\ movieJob' \in {"RUNNING", "REVIEW_REQUIRED", "RECOVERY_REQUIRED", "COMPLETED", "PARTIAL_FAILED"}
<1>1. movieWorker' = [movieWorker EXCEPT ![w] = Movies!Idle] /\ Movies!Idle \in MovieWorker
  BY MovieNames DEF Movies!Fail
<1>2. /\ movieWorker' \in [Movies!Threads -> MovieWorker] /\ movieWorker'[w] = Movies!Idle
      /\ \A d \in Movies!Threads \ {w} : movieWorker'[d] = movieWorker[d]
  BY <1>1, MovieRecord
<1>3. CASE w = "driver"
  <2>1. /\ movieJournal' = [movieJournal EXCEPT ![Movies!P(w)] = "RECOVERY_REQUIRED"]
        /\ moviePair' = [moviePair EXCEPT ![Movies!P(w)] = "FAILED"] /\ movieJob' = "RECOVERY_REQUIRED"
    BY <1>3 DEF Movies!Fail
  <2>2. "RECOVERY_REQUIRED" \in MovieStatuses
    BY DEF MovieStatuses
  <2> QED BY <1>2, <2>1, <2>2, MovieTypes
<1>4. CASE w # "driver"
  BY <1>2, <1>4, MovieTypes DEF Movies!Fail, Movies!TypeOK
<1> QED BY <1>3, <1>4

LEMMA MovieStepTypes ==
  ASSUME Movies!TypeOK, MovieWorkInv, NEW w \in Movies!Threads, movieWorker[w].step \notin {"idle", "load"}
  PROVE  Movies!P(w) \in Pairs /\ Movies!Src(w) \in Movies!Sources /\ Movies!Tgt(w) \in Movies!Targets
         /\ Movies!P(w) # Movies!NoPair
         /\ Movies!Src(w) \in Movies!Entry /\ Movies!Src(w) \notin {"none", "original", "strange"}
<1>1. Movies!P(w) # Movies!NoPair /\ Movies!P(w) \in Pairs \cup {Movies!NoPair}
  BY MovieTypes DEF MovieWorkInv
<1>2. Movies!P(w) \in Pairs
  BY <1>1
<1> QED BY <1>1, <1>2, MovieNames, MoviePairs DEF Movies!Src, Movies!Tgt

LEMMA MovieTypesStay == ASSUME Movies!TypeOK, MovieWorkInv, [Movies!Next]_(Movies!vars) PROVE Movies!TypeOK'
<1> DEFINE Jobs == {"RUNNING", "REVIEW_REQUIRED", "RECOVERY_REQUIRED", "COMPLETED", "PARTIAL_FAILED"}
           Pair == {"VERIFIED_DUPLICATE", "COMPLETED", "FAILED"}
           Budget == [calls : 0..MovieCalls, stops : 0..MaxStops, meddling : 0..MovieMeddling]
<1>1. ASSUME UNCHANGED <<movieMode, movieSource>>, movieAt' \in [Movies!Targets -> Movies!Entry],
             movieTemp' \in [Pairs -> Movies!Entry],
             movieStale' \subseteq Movies!Sources \cup Movies!Targets, moviePair' \in [Pairs -> Pair],
             movieJournal' \in [Pairs -> MovieStatuses], movieJob' \in Jobs,
             movieWorker' \in [Movies!Threads -> MovieWorker], movieCrossed' \in BOOLEAN, movieBudget' \in Budget
      PROVE  Movies!TypeOK'
  BY <1>1 DEF Movies!TypeOK, MovieStatuses, MovieWorker
<1>2. /\ movieAt \in [Movies!Targets -> Movies!Entry] /\ movieTemp \in [Pairs -> Movies!Entry]
         /\ movieStale \subseteq Movies!Sources \cup Movies!Targets
      /\ moviePair \in [Pairs -> Pair] /\ movieJournal \in [Pairs -> MovieStatuses] /\ movieJob \in Jobs
      /\ movieWorker \in [Movies!Threads -> MovieWorker] /\ movieCrossed \in BOOLEAN /\ movieBudget \in Budget
  BY DEF Movies!TypeOK, MovieStatuses, MovieWorker
<1>3. Movies!Summary \in Jobs
  BY DEF Movies!Summary
<1>4. ASSUME NEW selection \in SUBSET Pairs, Movies!Execute(selection) PROVE Movies!TypeOK'
  <2>1. /\ movieWorker' = [movieWorker EXCEPT !["call"] = [Movies!Idle EXCEPT !.step = "load", !.todo = selection]]
        /\ UNCHANGED <<movieMode, movieSource, movieAt, movieTemp, movieStale, moviePair, movieJournal, movieJob, movieCrossed>>
        /\ movieBudget' \in Budget
    BY <1>2, <1>4, MovieAssumption DEF Movies!Execute, Movies!files
  <2>2. [Movies!Idle EXCEPT !.step = "load", !.todo = selection] \in MovieWorker
    BY DEF Movies!Idle, MovieWorker, Movies!Steps
  <2>3. movieWorker' \in [Movies!Threads -> MovieWorker]
    BY <1>2, <2>1, <2>2
  <2> QED BY <1>1, <1>2, <2>1, <2>3
<1>5. ASSUME NEW p \in Pairs, Movies!Resume(p) PROVE Movies!TypeOK'
  <2>1. [Movies!Idle EXCEPT !.step = "load", !.todo = {p}] \in MovieWorker
    BY DEF Movies!Idle, MovieWorker, Movies!Steps
  <2>2. movieWorker' \in [Movies!Threads -> MovieWorker]
    BY <1>2, <1>5, <2>1 DEF Movies!Resume
  <2> QED BY <1>1, <1>2, <1>5, <2>2 DEF Movies!Resume, Movies!files
<1>6. CASE Movies!Settle
  BY <1>1, <1>2, <1>3, <1>6 DEF Movies!Settle, Movies!files
<1>7. CASE Movies!Stop
  <2>1. movieWorker' \in [Movies!Threads -> MovieWorker] /\ movieBudget' \in Budget
    BY <1>2, <1>7, MovieNames, MovieAssumption DEF Movies!Stop
  <2> QED BY <1>1, <1>2, <1>7, <2>1 DEF Movies!Stop, Movies!files
<1>8. CASE Movies!Meddle
  <2>1. movieBudget' \in Budget /\ movieAt' \in [Movies!Targets -> Movies!Entry]
        /\ movieSource' \in [Movies!Sources -> {"intact", "gone"}]
    BY <1>2, <1>8, MovieAssumption, MovieNames DEF Movies!Meddle, Movies!TypeOK
  <2> QED BY <1>8, <2>1 DEF Movies!Meddle, Movies!TypeOK
<1>9. ASSUME NEW w \in Movies!Threads, Movies!Step(w) PROVE Movies!TypeOK'
  <2>1. ASSUME NEW p \in movieWorker[w].todo, Movies!Load(w, p) PROVE Movies!TypeOK'
    <3>1. p \in Pairs /\ movieWorker[w] \in MovieWorker /\ movieWorker[w].todo \ {p} \subseteq Pairs
      BY <2>1, MovieTypes
    <3>2. \A s \in Movies!Steps : [step |-> s, todo |-> movieWorker[w].todo \ {p}, pair |-> p] \in MovieWorker
      BY <3>1 DEF MovieWorker
    <3>3. [movieWorker[w] EXCEPT !.todo = @ \ {p}] \in MovieWorker
      BY <3>1 DEF MovieWorker
    <3>4. ASSUME NEW s \in Movies!Steps, Movies!Take(w, p, s)
          PROVE  movieWorker' \in [Movies!Threads -> MovieWorker] /\ movieCrossed' \in BOOLEAN
      BY <1>2, <3>2, <3>4 DEF Movies!Take
    <3>5. /\ movieWorker' \in [Movies!Threads -> MovieWorker] /\ movieCrossed' \in BOOLEAN
          /\ movieJournal' \in [Pairs -> MovieStatuses] /\ movieJob' \in Jobs /\ UNCHANGED moviePair
      <4>1. CASE movieWorker' = [movieWorker EXCEPT ![w].todo = @ \ {p}]
                 /\ UNCHANGED <<movieJournal, moviePair, movieJob, movieCrossed>>
        BY <1>2, <3>3, <4>1
      <4>2. CASE Movies!Take(w, p, IF movieJournal[p] = "VERIFIED" THEN "clean" ELSE "source")
                 /\ UNCHANGED <<movieJournal, moviePair, movieJob>>
        BY <1>2, <3>4, <4>2 DEF Movies!Steps
      <4>3. CASE Movies!Take(w, p, "source") /\ movieJournal' = [movieJournal EXCEPT ![p] = "INTENT_RECORDED"]
                 /\ movieJob' = "RUNNING" /\ UNCHANGED moviePair
        BY <1>2, <3>4, <4>3 DEF Movies!Steps, MovieStatuses, Movies!Active
      <4>4. CASE movieWorker' = [movieWorker EXCEPT ![w] = Movies!Idle]
                 /\ UNCHANGED <<movieJournal, moviePair, movieJob, movieCrossed>>
        BY <1>2, <4>4, MovieNames
      <4> QED BY <2>1, <4>1, <4>2, <4>3, <4>4 DEF Movies!Load
    <3> QED BY <1>1, <1>2, <2>1, <3>5 DEF Movies!Load, Movies!files
  <2>2. CASE Movies!Finish(w)
    BY <1>1, <1>2, <1>3, <2>2, MovieNames, MovieRecord DEF Movies!Finish, Movies!files
  <2> DEFINE Moved == /\ movieWorker' \in [Movies!Threads -> MovieWorker] /\ movieJournal' \in [Pairs -> MovieStatuses]
                      /\ moviePair' \in [Pairs -> Pair] /\ movieJob' \in Jobs
  <2>3. movieWorker[w].step \notin {"idle", "load"} => Movies!P(w) \in Pairs /\ Movies!Src(w) \in Movies!Sources /\ Movies!Tgt(w) \in Movies!Targets /\ Movies!Src(w) \in Movies!Entry
    BY MovieStepTypes
  <2>4. ASSUME NEW s \in Movies!Steps, Movies!Pass(w, s) PROVE Moved
    BY <1>2, <2>4, MovieGoto DEF Movies!Pass
  <2>5. ASSUME movieWorker[w].step \notin {"idle", "load"}, Movies!Fail(w) PROVE Moved
    BY <2>3, <2>5, MovieFail
  <2>6. ASSUME movieWorker[w].step \notin {"idle", "load"}, NEW s \in Movies!Steps, NEW b,
               Movies!Check(w, b, s) PROVE Moved
    BY <2>4, <2>5, <2>6 DEF Movies!Check
  <2>7. CASE Movies!LookAtSource(w) \/ Movies!LookAtTemporary(w) \/ Movies!LookAtTarget(w) \/ Movies!CheckExchange(w)
             \/ Movies!Verify(w)
             \/ Movies!VerifyAgain(w) \/ Movies!LookAtOriginal(w)
    <3>1. movieWorker[w].step \notin {"idle", "load"}
          /\ UNCHANGED <<movieMode, Movies!files, movieBudget, movieCrossed>>
      BY <2>7 DEF Movies!LookAtSource, Movies!LookAtTemporary, Movies!LookAtTarget, Movies!CheckExchange, Movies!Verify,
         Movies!VerifyAgain, Movies!LookAtOriginal, Movies!At
    <3>2. Moved
      BY <2>4, <2>6, <2>7, <3>1 DEF Movies!LookAtSource, Movies!LookAtTemporary, Movies!LookAtTarget,
         Movies!CheckExchange, Movies!Verify,
         Movies!VerifyAgain, Movies!LookAtOriginal, Movies!Steps
    <3> QED BY <1>1, <1>2, <3>1, <3>2 DEF Movies!files
  <2>8. CASE Movies!LinkTemporary(w) \/ Movies!Exchange(w) \/ Movies!Unlink(w)
    <3>1. /\ movieWorker[w].step \notin {"idle", "load"}
             /\ UNCHANGED <<movieMode, movieSource, movieBudget, movieCrossed>>
          /\ Movies!P(w) \in Pairs /\ Movies!Src(w) \in Movies!Sources /\ Movies!Tgt(w) \in Movies!Targets
             /\ Movies!Src(w) \in Movies!Entry
      BY <2>3, <2>8 DEF Movies!LinkTemporary, Movies!Exchange, Movies!Unlink, Movies!At
    <3>2. Moved
      BY <2>4, <2>5, <2>8, <3>1 DEF Movies!LinkTemporary, Movies!Exchange, Movies!Unlink, Movies!Steps
    <3>3. movieAt' \in [Movies!Targets -> Movies!Entry] /\ movieTemp' \in [Pairs -> Movies!Entry]
          /\ movieStale' \subseteq Movies!Sources \cup Movies!Targets
      BY <1>2, <2>8, <3>1, MovieNames DEF Movies!LinkTemporary, Movies!Exchange, Movies!Unlink, Movies!Touched
    <3> QED BY <1>1, <1>2, <3>1, <3>2, <3>3
  <2>9. CASE Movies!MarkExchanged(w) \/ Movies!MarkVerified(w)
    <3>1. /\ UNCHANGED <<movieMode, Movies!files, moviePair, movieJob, movieBudget, movieCrossed>>
          /\ \E s \in Movies!Steps : Movies!Goto(w, s)
          /\ \E j \in MovieStatuses : movieJournal' = [movieJournal EXCEPT ![Movies!P(w)] = j]
      BY <2>9 DEF Movies!MarkExchanged, Movies!MarkVerified, Movies!Mark, Movies!Steps, MovieStatuses, Movies!Active
    <3>2. movieWorker' \in [Movies!Threads -> MovieWorker] /\ movieJournal' \in [Pairs -> MovieStatuses]
      BY <1>2, <3>1, MovieGoto
    <3> QED BY <1>1, <1>2, <3>1, <3>2 DEF Movies!files
  <2>10. CASE Movies!Commit(w)
    <3>1. movieJournal' \in [Pairs -> MovieStatuses] /\ moviePair' \in [Pairs -> Pair]
      BY <1>2, <2>10 DEF Movies!Commit, MovieStatuses
    <3> QED BY <1>1, <1>2, <2>10, <3>1, MovieNext DEF Movies!Commit, Movies!files
  <2> QED BY <1>9, <2>1, <2>2, <2>7, <2>8, <2>9, <2>10 DEF Movies!Step
<1>10. CASE UNCHANGED Movies!vars
  BY <1>1, <1>2, <1>10 DEF Movies!vars
<1> QED BY <1>4, <1>5, <1>6, <1>7, <1>8, <1>9, <1>10 DEF Movies!Next

LEMMA MovieTurnWork ==
  ASSUME Movies!TypeOK, MovieWorkInv, NEW w \in Movies!Threads,
         \A d \in Movies!Threads \ {w} : movieWorker'[d] = movieWorker[d],
         movieWorker'[w].step \in {"idle", "load"} <=> movieWorker'[w].pair = Movies!NoPair,
         movieCrossed => movieCrossed',
         ~movieCrossed' => \/ movieWorker'[w].pair \in {Movies!NoPair, Movies!P(w)}
                           \/ movieWorker'[w].pair \in Pairs /\ \A d \in Movies!Threads \ {w} : Movies!Tgt(d) # movieWorker'[w].pair.b,
         ~movieCrossed' /\ movieWorker'[w].step = "unlink" => movieTemp'[movieWorker'[w].pair] = "original",
         \A p \in Pairs \ {Movies!P(w)} : movieTemp'[p] = movieTemp[p],
         \A p \in Pairs : movieJournal'[p] \in {"COMMITTED", "RECOVERY_REQUIRED"} => moviePair'[p] # "VERIFIED_DUPLICATE"
  PROVE  MovieWorkInv'
<1>1. \A d \in Movies!Threads : movieWorker'[d].step \in {"idle", "load"} <=> Movies!P(d)' = Movies!NoPair
  BY DEF MovieWorkInv, Movies!P
<1>2. \A d \in Movies!Threads : Movies!P(d) \in Pairs \cup {Movies!NoPair}
  BY MovieTypes
<1>3. ASSUME ~movieCrossed', NEW d \in Movies!Threads, NEW e \in Movies!Threads, d # e,
             Movies!P(d)' # Movies!NoPair PROVE Movies!Tgt(d)' # Movies!Tgt(e)'
  <2>1. Movies!NoPair.b = "none" /\ \A p \in Pairs : p.b # "none"
    BY MoviePairs DEF Movies!NoPair
  <2>2. \A x, y \in Movies!Threads : x # y /\ Movies!P(x) # Movies!NoPair => Movies!Tgt(x) # Movies!Tgt(y)
    BY <1>3 DEF MovieWorkInv
  <2>3. CASE d = w
    <3>1. Movies!P(e)' = Movies!P(e) /\ Movies!Tgt(e)' = Movies!Tgt(e) /\ e \in Movies!Threads \ {w}
      BY <1>3, <2>3 DEF Movies!P, Movies!Tgt
    <3>2. Movies!P(d)' = Movies!P(d) \/ Movies!Tgt(e) # Movies!P(d)'.b
      BY <1>3, <2>3, <3>1 DEF Movies!P
    <3> QED BY <1>3, <2>2, <3>1, <3>2 DEF Movies!Tgt
  <2>4. CASE e = w
    <3>1. Movies!P(d)' = Movies!P(d) /\ Movies!Tgt(d)' = Movies!Tgt(d) /\ d \in Movies!Threads \ {w}
          /\ Movies!P(d) \in Pairs
      BY <1>2, <1>3, <2>4 DEF Movies!P, Movies!Tgt
    <3>2. Movies!P(e)' \in {Movies!NoPair, Movies!P(e)} \/ Movies!Tgt(d) # Movies!P(e)'.b
      BY <1>3, <2>4, <3>1 DEF Movies!P
    <3> QED BY <1>3, <2>1, <2>2, <3>1, <3>2 DEF Movies!Tgt
  <2>5. CASE d # w /\ e # w
    BY <1>3, <2>2, <2>5 DEF Movies!P, Movies!Tgt
  <2> QED BY <2>3, <2>4, <2>5
<1>4. ASSUME ~movieCrossed', NEW d \in Movies!Threads,
             movieWorker'[d].step = "unlink" PROVE movieTemp'[Movies!P(d)'] = "original"
  <2>1. CASE d = w
    BY <1>4, <2>1 DEF Movies!P
  <2>2. CASE d # w
    <3>1. movieWorker'[d] = movieWorker[d] /\ Movies!P(d)' = Movies!P(d) /\ Movies!At(d, "unlink")
          /\ Movies!P(d) # Movies!NoPair
      BY <1>4, <2>2 DEF Movies!P, Movies!At, MovieWorkInv
    <3>2. Movies!P(d) # Movies!P(w) /\ Movies!P(d) \in Pairs /\ movieTemp[Movies!P(d)] = "original"
      BY <1>2, <1>4, <2>2, <3>1 DEF MovieWorkInv, Movies!Tgt
    <3> QED BY <3>1, <3>2
  <2> QED BY <2>1, <2>2
<1> QED BY <1>1, <1>3, <1>4 DEF MovieWorkInv, Movies!At

\* A thread goes on, or its failure ends its call.
LEMMA MoviePassWork ==
  ASSUME Movies!TypeOK, MovieWorkInv, NEW w \in Movies!Threads, NEW s \in Movies!Steps \ {"idle", "load"},
         movieWorker[w].step \notin {"idle", "load"}, movieCrossed' = movieCrossed,
         \A p \in Pairs \ {Movies!P(w)} : movieTemp'[p] = movieTemp[p],
         \/ Movies!Pass(w, s) /\ (~movieCrossed /\ s = "unlink" => movieTemp'[Movies!P(w)] = "original")
         \/ Movies!Fail(w)
  PROVE  MovieWorkInv'
<1>1. Movies!P(w) \in Pairs /\ Movies!P(w) # Movies!NoPair
  BY MovieStepTypes
<1>2. CASE Movies!Pass(w, s) /\ (~movieCrossed /\ s = "unlink" => movieTemp'[Movies!P(w)] = "original")
  <2>1. /\ movieWorker'[w].step = s /\ movieWorker'[w].pair = Movies!P(w)
        /\ \A d \in Movies!Threads \ {w} : movieWorker'[d] = movieWorker[d]
    BY <1>2, MovieGoto DEF Movies!Pass
  <2>2. \A p \in Pairs : movieJournal'[p] \in {"COMMITTED", "RECOVERY_REQUIRED"} => moviePair'[p] # "VERIFIED_DUPLICATE"
    BY <1>2 DEF Movies!Pass, MovieWorkInv
  <2> QED BY <1>1, <1>2, <2>1, <2>2, MovieTurnWork
<1>3. CASE Movies!Fail(w)
  <2>1. /\ movieWorker'[w] = Movies!Idle /\ \A d \in Movies!Threads \ {w} : movieWorker'[d] = movieWorker[d]
        /\ \A p \in Pairs \ {Movies!P(w)} : movieJournal'[p] = movieJournal[p] /\ moviePair'[p] = moviePair[p]
        /\ \/ movieJournal'[Movies!P(w)] = movieJournal[Movies!P(w)] /\ moviePair'[Movies!P(w)] = moviePair[Movies!P(w)]
           \/ movieJournal'[Movies!P(w)] = "RECOVERY_REQUIRED" /\ moviePair'[Movies!P(w)] = "FAILED"
    BY <1>1, <1>3, MovieFail
  <2>2. \A p \in Pairs : movieJournal'[p] \in {"COMMITTED", "RECOVERY_REQUIRED"} => moviePair'[p] # "VERIFIED_DUPLICATE"
    BY <2>1 DEF MovieWorkInv
  <2> QED BY <2>1, <2>2, MovieNames, MovieTurnWork
<1> QED BY <1>2, <1>3

LEMMA MovieWorkStays == ASSUME Movies!TypeOK, MovieWorkInv, [Movies!Next]_(Movies!vars) PROVE MovieWorkInv'
<1>1. \A p \in Pairs : movieJournal[p] \in {"COMMITTED", "RECOVERY_REQUIRED"} => moviePair[p] # "VERIFIED_DUPLICATE"
  BY DEF MovieWorkInv
<1>2. ASSUME NEW w \in Movies!Threads, NEW v \in MovieWorker, movieWorker[w] = Movies!Idle,
             movieWorker' = [movieWorker EXCEPT ![w] = v],
             v.step = "load", v.pair = Movies!NoPair, UNCHANGED <<movieTemp, moviePair, movieJournal, movieCrossed>>
      PROVE  MovieWorkInv'
  <2>1. movieWorker'[w] = v /\ \A d \in Movies!Threads \ {w} : movieWorker'[d] = movieWorker[d]
    BY <1>2, MovieRecord
  <2> QED BY <1>1, <1>2, <2>1, MovieTurnWork
<1>3. ASSUME NEW selection \in SUBSET Pairs, Movies!Execute(selection) PROVE MovieWorkInv'
  <2> DEFINE v == [Movies!Idle EXCEPT !.step = "load", !.todo = selection]
  <2>1. v \in MovieWorker /\ v.step = "load" /\ v.pair = Movies!NoPair /\ "call" \in Movies!Threads
    BY DEF Movies!Idle, MovieWorker, Movies!Steps, Movies!Threads
  <2> QED BY <1>2, <1>3, <2>1 DEF Movies!Execute, Movies!files
<1>4. ASSUME NEW p \in Pairs, Movies!Resume(p) PROVE MovieWorkInv'
  <2> DEFINE v == [Movies!Idle EXCEPT !.step = "load", !.todo = {p}]
  <2>1. v \in MovieWorker /\ v.step = "load" /\ v.pair = Movies!NoPair /\ "driver" \in Movies!Threads
    BY DEF Movies!Idle, MovieWorker, Movies!Steps, Movies!Threads
  <2> QED BY <1>2, <1>4, <2>1 DEF Movies!Resume, Movies!files
<1>5. CASE Movies!Settle \/ Movies!Meddle \/ UNCHANGED Movies!vars
  BY <1>5 DEF Movies!Settle, Movies!Meddle, Movies!vars, Movies!files, MovieWorkInv, Movies!At, Movies!P, Movies!Tgt
<1>6. CASE Movies!Stop
  <2>1. \A w \in Movies!Threads : movieWorker'[w] = Movies!Idle
    BY <1>6 DEF Movies!Stop
  <2>2. UNCHANGED <<moviePair, movieJournal>>
    BY <1>6 DEF Movies!Stop
  <2> QED BY <1>1, <2>1, <2>2, MovieNames DEF MovieWorkInv, Movies!At, Movies!P, Movies!Tgt
<1>7. ASSUME NEW w \in Movies!Threads, Movies!Step(w) PROVE MovieWorkInv'
  <2>1. ASSUME NEW p \in movieWorker[w].todo, Movies!Load(w, p) PROVE MovieWorkInv'
    <3>1. p \in Pairs /\ p # Movies!NoPair /\ movieWorker[w] \in MovieWorker
          /\ movieWorker[w].todo \ {p} \subseteq Pairs /\ movieWorker[w].step = "load"
          /\ UNCHANGED <<movieTemp, moviePair>>
      BY <2>1, MovieTypes, MoviePairs DEF Movies!Load, Movies!At, Movies!files
    <3>2. ASSUME NEW s \in Movies!Steps \ {"idle", "load", "unlink"}, Movies!Take(w, p, s),
                 \A q \in Pairs : movieJournal'[q] \in {"COMMITTED", "RECOVERY_REQUIRED"} => moviePair'[q] # "VERIFIED_DUPLICATE"
          PROVE  MovieWorkInv'
      <4>1. [step |-> s, todo |-> movieWorker[w].todo \ {p}, pair |-> p] \in MovieWorker
        BY <3>1 DEF MovieWorker
      <4>2. /\ movieWorker'[w] = [step |-> s, todo |-> movieWorker[w].todo \ {p}, pair |-> p]
            /\ \A d \in Movies!Threads \ {w} : movieWorker'[d] = movieWorker[d]
        BY <3>2, <4>1, MovieRecord DEF Movies!Take
      <4>3. /\ movieCrossed => movieCrossed'
            /\ ~movieCrossed' => \A d \in Movies!Threads \ {w} : Movies!Tgt(d) # p.b
        BY <3>2 DEF Movies!Take, Movies!Tgt
      <4> QED BY <3>1, <3>2, <4>2, <4>3, MovieTurnWork
    <3>3. CASE movieWorker' = [movieWorker EXCEPT ![w].todo = @ \ {p}]
               /\ UNCHANGED <<movieJournal, moviePair, movieJob, movieCrossed>>
      <4>1. [movieWorker[w] EXCEPT !.todo = @ \ {p}] \in MovieWorker
        BY <3>1 DEF MovieWorker
      <4>2. movieWorker' = [movieWorker EXCEPT ![w] = [movieWorker[w] EXCEPT !.todo = @ \ {p}]]
        BY <3>3
      <4>3. movieWorker'[w] = [movieWorker[w] EXCEPT !.todo = @ \ {p}] /\ \A d \in Movies!Threads \ {w} : movieWorker'[d] = movieWorker[d]
        BY <4>1, <4>2, MovieRecord
      <4>4. movieWorker'[w].step = "load" /\ movieWorker'[w].pair = Movies!P(w) /\ Movies!P(w) = Movies!NoPair
        BY <3>1, <4>3 DEF Movies!P, MovieWorker, MovieWorkInv
      <4> QED BY <1>1, <3>1, <3>3, <4>3, <4>4, MovieTurnWork
    <3>4. CASE Movies!Take(w, p, IF movieJournal[p] = "VERIFIED" THEN "clean" ELSE "source")
               /\ UNCHANGED <<movieJournal, moviePair, movieJob>>
      BY <1>1, <3>2, <3>4 DEF Movies!Steps
    <3>5. CASE /\ moviePair[p] = "VERIFIED_DUPLICATE" /\ Movies!Take(w, p, "source")
               /\ movieJournal' = [movieJournal EXCEPT ![p] = "INTENT_RECORDED"]
      <4>1. \A q \in Pairs : movieJournal'[q] \in {"COMMITTED", "RECOVERY_REQUIRED"} => moviePair'[q] # "VERIFIED_DUPLICATE"
        BY <1>1, <3>1, <3>5, MovieTypes
      <4> QED BY <3>2, <3>5, <4>1 DEF Movies!Steps
    <3>6. CASE movieWorker' = [movieWorker EXCEPT ![w] = Movies!Idle]
               /\ UNCHANGED <<movieJournal, moviePair, movieJob, movieCrossed>>
      <4>1. movieWorker'[w] = Movies!Idle /\ \A d \in Movies!Threads \ {w} : movieWorker'[d] = movieWorker[d]
        BY <3>6, MovieNames, MovieRecord
      <4> QED BY <1>1, <3>1, <3>6, <4>1, MovieNames, MovieTurnWork
    <3> QED BY <2>1, <3>3, <3>4, <3>5, <3>6 DEF Movies!Load
  <2>2. CASE Movies!Finish(w)
    <3>1. movieWorker'[w] = Movies!Idle /\ (\A d \in Movies!Threads \ {w} : movieWorker'[d] = movieWorker[d])
          /\ UNCHANGED <<movieTemp, moviePair, movieJournal, movieCrossed>>
      BY <2>2, MovieNames, MovieRecord DEF Movies!Finish, Movies!files
    <3> QED BY <1>1, <3>1, MovieNames, MovieTurnWork
  <2>3. CASE Movies!LookAtSource(w) \/ Movies!LookAtTemporary(w) \/ Movies!LookAtTarget(w) \/ Movies!CheckExchange(w)
             \/ Movies!Verify(w) \/ Movies!VerifyAgain(w)
    <3>1. movieWorker[w].step \notin {"idle", "load"} /\ movieCrossed' = movieCrossed /\ movieTemp' = movieTemp
      BY <2>3 DEF Movies!LookAtSource, Movies!LookAtTemporary, Movies!LookAtTarget, Movies!CheckExchange, Movies!Verify,
         Movies!VerifyAgain, Movies!At, Movies!files
    <3>2. \/ Movies!Fail(w)
          \/ \E s \in Movies!Steps \ {"idle", "load", "unlink"} : Movies!Pass(w, s)
      BY <2>3 DEF Movies!LookAtSource, Movies!LookAtTemporary, Movies!LookAtTarget, Movies!CheckExchange, Movies!Verify,
         Movies!VerifyAgain, Movies!Check, Movies!Steps
    <3> QED BY <3>1, <3>2, MoviePassWork DEF Movies!Steps
  <2>4. CASE Movies!LookAtOriginal(w)
    <3>1. movieWorker[w].step \notin {"idle", "load"} /\ movieCrossed' = movieCrossed /\ movieTemp' = movieTemp
      BY <2>4 DEF Movies!LookAtOriginal, Movies!At, Movies!files
    <3>2. Movies!Pass(w, "final") \/ (Movies!Pass(w, "unlink") /\ movieTemp[Movies!P(w)] = "original") \/ Movies!Fail(w)
      BY <2>4 DEF Movies!LookAtOriginal, Movies!Check
    <3> QED BY <3>1, <3>2, MoviePassWork DEF Movies!Steps
  <2>5. CASE Movies!LinkTemporary(w) \/ Movies!Exchange(w) \/ Movies!Unlink(w)
    <3>1. movieWorker[w].step \notin {"idle", "load"} /\ movieCrossed' = movieCrossed
      BY <2>5 DEF Movies!LinkTemporary, Movies!Exchange, Movies!Unlink, Movies!At
    <3>2. \/ Movies!Fail(w)
          \/ \E s \in Movies!Steps \ {"idle", "load", "unlink"} : Movies!Pass(w, s)
      BY <2>5 DEF Movies!LinkTemporary, Movies!Exchange, Movies!Unlink, Movies!Steps
    <3>3. \A p \in Pairs \ {Movies!P(w)} : movieTemp'[p] = movieTemp[p]
      BY <2>5, MovieTypes DEF Movies!LinkTemporary, Movies!Exchange, Movies!Unlink
    <3> QED BY <3>1, <3>2, <3>3, MoviePassWork DEF Movies!Steps
  <2>6. CASE Movies!MarkExchanged(w) \/ Movies!MarkVerified(w)
    <3>1. movieWorker[w].step \notin {"idle", "load"} /\ UNCHANGED <<movieTemp, moviePair, movieCrossed>>
      BY <2>6 DEF Movies!MarkExchanged, Movies!MarkVerified, Movies!Mark, Movies!At, Movies!files
    <3>2. Movies!P(w) \in Pairs /\ Movies!P(w) # Movies!NoPair
      BY <3>1, MovieStepTypes
    <3>3. /\ movieWorker'[w].step \in {"verify", "clean"} /\ movieWorker'[w].pair = Movies!P(w)
          /\ \A d \in Movies!Threads \ {w} : movieWorker'[d] = movieWorker[d]
      BY <2>6, MovieGoto DEF Movies!MarkExchanged, Movies!MarkVerified, Movies!Mark, Movies!Steps
    <3>4. \A p \in Pairs : movieJournal'[p] \in {"COMMITTED", "RECOVERY_REQUIRED"} => moviePair'[p] # "VERIFIED_DUPLICATE"
      <4>1. \A p \in Pairs : movieJournal'[p] \in {"EXCHANGED", "VERIFIED", movieJournal[p]}
        BY <2>6, MovieTypes DEF Movies!MarkExchanged, Movies!MarkVerified, Movies!Mark
      <4> QED BY <1>1, <3>1, <4>1
    <3> QED BY <3>1, <3>2, <3>3, <3>4, MovieTurnWork
  <2>7. CASE Movies!Commit(w)
    <3>1. UNCHANGED <<movieTemp, movieCrossed>> /\ movieWorker'[w].step = "load" /\ movieWorker'[w].pair = Movies!NoPair
          /\ \A d \in Movies!Threads \ {w} : movieWorker'[d] = movieWorker[d]
      BY <2>7, MovieNext DEF Movies!Commit, Movies!files
    <3>2. Movies!P(w) \in Pairs
      BY <2>7, MovieStepTypes DEF Movies!Commit, Movies!At
    <3>3. \A p \in Pairs : movieJournal'[p] \in {"COMMITTED", "RECOVERY_REQUIRED"} => moviePair'[p] # "VERIFIED_DUPLICATE"
      BY <1>1, <2>7, <3>2, MovieTypes DEF Movies!Commit
    <3> QED BY <3>1, <3>3, MovieTurnWork
  <2> QED BY <1>7, <2>1, <2>2, <2>3, <2>4, <2>5, <2>6, <2>7 DEF Movies!Step
<1> QED BY <1>3, <1>4, <1>5, <1>6, <1>7 DEF Movies!Next

\* What a user put at a path of B stays, at the path or at the temporary name.
LEMMA MovieStrangersStay ==
  ASSUME Movies!TypeOK, MovieWorkInv, [Movies!Next]_(Movies!vars), ~movieCrossed
  PROVE  /\ \A t \in Movies!Targets : movieAt[t] = "strange" =>
              movieAt'[t] = "strange" \/ \E p \in Pairs : p.b = t /\ movieTemp'[p] = "strange"
         /\ \A p \in Pairs : movieTemp[p] = "strange" => "strange" \in {movieTemp'[p], movieAt'[p.b]}
<1>1. CASE \E w \in Movies!Threads : Movies!Exchange(w)
  <2>1. PICK w \in Movies!Threads : Movies!Exchange(w)
    BY <1>1
  <2>2. Movies!P(w) \in Pairs /\ Movies!Tgt(w) = Movies!P(w).b /\ Movies!Tgt(w) \in Movies!Targets
    BY <2>1, MovieStepTypes DEF Movies!Exchange, Movies!At, Movies!Tgt
  <2> QED BY <2>1, <2>2, MovieTypes DEF Movies!Exchange
<1>2. CASE \E w \in Movies!Threads : Movies!Unlink(w)
  <2>1. PICK w \in Movies!Threads : Movies!Unlink(w)
    BY <1>2
  <2>2. Movies!P(w) \in Pairs /\ movieTemp[Movies!P(w)] = "original"
    BY <2>1, MovieStepTypes DEF Movies!Unlink, Movies!At, MovieWorkInv
  <2> QED BY <2>1, <2>2, MovieTypes DEF Movies!Unlink
<1>3. CASE \E w \in Movies!Threads : Movies!LinkTemporary(w)
  <2>1. PICK w \in Movies!Threads : Movies!LinkTemporary(w)
    BY <1>3
  <2>2. Movies!P(w) \in Pairs
    BY <2>1, MovieStepTypes DEF Movies!LinkTemporary, Movies!At
  <2> QED BY <2>1, <2>2, MovieTypes DEF Movies!LinkTemporary
<1>4. CASE Movies!Meddle
  BY <1>4, MovieTypes DEF Movies!Meddle
<1>5. CASE UNCHANGED <<movieAt, movieTemp>>
  BY <1>5
<1>6. ASSUME NEW w \in Movies!Threads, Movies!Step(w), ~Movies!LinkTemporary(w), ~Movies!Exchange(w),
             ~Movies!Unlink(w) PROVE UNCHANGED <<movieAt, movieTemp>>
  BY <1>6 DEF Movies!Step, Movies!Finish, Movies!Load, Movies!LookAtSource, Movies!LookAtTemporary, Movies!LookAtTarget,
     Movies!CheckExchange, Movies!MarkExchanged,
     Movies!MarkVerified, Movies!Mark, Movies!Verify, Movies!VerifyAgain, Movies!LookAtOriginal, Movies!Commit,
     Movies!files
<1> QED BY <1>1, <1>2, <1>3, <1>4, <1>5, <1>6 DEF Movies!Next, Movies!Execute, Movies!Resume, Movies!Settle,
   Movies!Stop, Movies!files, Movies!vars

\* What a thread that goes on with a pair must know, and what it may do to the journal,
\* when it moves no file.
MovieCame(w, d, p) ==
    /\ movieWorker'[w].step = "swap" => InPlace(p.b)
    /\ movieWorker'[w].step \in {"look", "swap"} /\ Live(p) => movieTemp[p] = p.a
    /\ movieWorker'[w].step \in {"clean", "unlink", "final"} =>
          /\ Live(p) /\ (movieWorker'[w].step = "clean" => movieTemp[p] = "none") =>
                 ~Preparing(d, p) /\ ~Confirming(d, p) /\ Closed(p)'
          /\ Swapped(p) /\ Swapping(d, p.b) => Closed(p)'
    /\ movieWorker'[w].step \in {"source", "temp", "link", "look", "swap"} /\ Live(p) =>
          /\ movieTemp[p] = "none" => ~Closed(p)'
          /\ Clearing(d, p) => movieWorker[d].step = "clean" /\ movieTemp[p] # "none"
    /\ movieWorker'[w].step \in {"exchanged", "verify", "verified"} /\ Live(p) =>
          movieTemp[p] # "none" /\ (Clearing(d, p) => movieWorker[d].step = "clean")
    /\ movieWorker'[w].step = "check" /\ Live(p) /\ movieTemp[p] = "none" => Closed(p)'
    /\ movieWorker'[w].step = "final" => ~Beside(p)
    /\ movieWorker'[w].step = "commit" => ~Beside(p) /\ Past(p.b)

MovieKept(w, d, p) ==
    /\ Closed(p) /\ ~Closed(p)' => Confirming(w, p)
    /\ ~Closed(p) /\ Closed(p)' /\ Live(p) /\ movieTemp[p] = "none" => ~Preparing(d, p)
    /\ moviePair'[p] = "COMPLETED" => moviePair[p] = "COMPLETED" \/ (~Beside(p) /\ Past(p.b))

MovieTurned(w, d) ==
    /\ movieWorker'[d] = movieWorker[d] /\ UNCHANGED <<movieSource, movieAt, movieTemp>>
    /\ movieWorker'[w].pair \in Pairs \cup {Movies!NoPair}
    /\ \A p \in Pairs : MovieKept(w, d, p) /\ (movieWorker'[w].pair = p => MovieCame(w, d, p))

LEMMA MovieTurn ==
  ASSUME Movies!TypeOK, MovieQuietInv, NEW w \in Movies!Threads, NEW d \in Movies!Threads \ {w}, MovieTurned(w, d)
  PROVE  MovieQuietInv'
<1>1. Movies!Threads = {w, d} /\ w # d
  BY DEF Movies!Threads
<1>2. movieWorker'[d] = movieWorker[d] /\ UNCHANGED <<movieSource, movieAt, movieTemp>>
      /\ movieWorker'[w].pair \in Pairs \cup {Movies!NoPair}
      /\ \A p \in Pairs : MovieKept(w, d, p) /\ (movieWorker'[w].pair = p => MovieCame(w, d, p))
  BY DEF MovieTurned
<1>3. SUFFICES ASSUME NEW t \in Movies!Targets PROVE MovieQuietAt(t)'
  BY <1>2 DEF MovieQuietInv
<1>4. MovieNamesAt(t) /\ MovieSwapAt(t) /\ MovieLateAt(t) /\ MovieDoneAt(t)
  BY DEF MovieQuietInv, MovieQuietAt
<1>5. ASSUME NEW p \in Pairs, Live(p)' PROVE Live(p)
  <2>1. CASE InPlace(p.b)'
    BY <1>2, <2>1 DEF Live, InPlace
  <2>2. CASE ~InPlace(p.b)'
    <3>1. PICK q \in Pairs \ {p} : q.b = p.b /\ Swapped(q)' /\ \E e \in Movies!Threads : Movies!At(e, "swap")' /\ Movies!P(e)' = q
      BY <1>5, <2>2 DEF Live
    <3>2. PICK e \in Movies!Threads : Movies!At(e, "swap")' /\ Movies!P(e)' = q
      BY <3>1
    <3>3. Swapped(q)
      BY <1>2, <3>1 DEF Swapped, Beside
    <3>4. e # w
      BY <1>2, <2>2, <3>1, <3>2 DEF MovieCame, Movies!At, Movies!P, InPlace
    <3>5. Movies!At(e, "swap") /\ Movies!P(e) = q
      BY <1>1, <1>2, <3>2, <3>4 DEF Movies!At, Movies!P
    <3> QED BY <3>1, <3>3, <3>5 DEF Live
  <2> QED BY <2>1, <2>2
<1>6. MovieNamesAt(t)'
  BY <1>2, <1>4 DEF MovieNamesAt, InPlace, Beside, Swapped
<1>7. ASSUME NEW p \in Pairs, p.b = t
      PROVE  /\ Swapped(p)' <=> Swapped(p)
             /\ Beside(p)' <=> Beside(p)
             /\ InPlace(t)' <=> InPlace(t)
             /\ Past(t)' <=> Past(t)
             /\ MovieKept(w, d, p) /\ (Movies!P(w)' = p => MovieCame(w, d, p))
             /\ Movies!At(d, "swap")' <=> Movies!At(d, "swap")
             /\ Swapping(d, t)' <=> Swapping(d, t)
             /\ Swapping(w, t)' => InPlace(t)
             /\ InPlace(t) => ~Beside(p) /\ ~Swapped(p)
  <2>1. ASSUME Swapping(w, t)' PROVE InPlace(t)
    <3>1. PICK q \in Pairs \cup {Movies!NoPair} : movieWorker'[w].pair = q /\ movieWorker'[w].step = "swap" /\ q.b = t
      BY <2>1, <1>2 DEF Swapping, Movies!At, Movies!Tgt, Movies!P
    <3> QED BY <1>2, <3>1, MoviePairs DEF MovieCame, Movies!Targets, Movies!NoPair
  <2> QED BY <1>2, <1>4, <1>7, <2>1, MovieNames, MoviePairs
         DEF Swapped, Beside, InPlace, Past, Movies!P, Movies!At, Swapping, Movies!Tgt, MovieNamesAt
<1>8. MovieSwapAt(t)'
  <2> SUFFICES ASSUME NEW p \in Pairs, p.b = t
      PROVE  /\ Swapped(p)' => \E e \in Movies!Threads : ~Swapping(e, t)'
             /\ \A e \in Movies!Threads : Movies!P(e)' = p /\ movieWorker'[e].step \in {"look", "swap"} /\ Live(p)' => movieTemp'[p] = p.a
             /\ Beside(p)' /\ ~Swapped(p)' => \A e \in Movies!Threads : ~Swapping(e, t)'
    BY DEF MovieSwapAt
  <2>1. Swapped(p)' => ~Swapping(w, t)'
    BY <1>7
  <2>2. Beside(p)' /\ ~Swapped(p)' => ~Swapping(w, t)' /\ ~Swapping(d, t)'
    BY <1>4, <1>7 DEF MovieSwapAt
  <2>3. Movies!P(w)' = p /\ movieWorker'[w].step \in {"look", "swap"} /\ Live(p)' => movieTemp'[p] = p.a
    BY <1>2, <1>5, <1>7 DEF MovieCame
  <2>4. Movies!P(d)' = p /\ movieWorker'[d].step \in {"look", "swap"} /\ Live(p)' => movieTemp'[p] = p.a
    BY <1>2, <1>4, <1>5 DEF MovieSwapAt, Movies!P
  <2> QED BY <1>1, <2>1, <2>2, <2>3, <2>4
<1>9. MovieDoneAt(t)'
  <2> SUFFICES ASSUME NEW p \in Pairs, p.b = t
      PROVE  /\ \A e \in Movies!Threads : Movies!P(e)' = p =>
                   /\ Movies!At(e, "final")' => ~Beside(p)'
                   /\ Movies!At(e, "commit")' => ~Beside(p)' /\ Past(t)'
             /\ moviePair'[p] = "COMPLETED" => ~Beside(p)' /\ Past(t)'
    BY DEF MovieDoneAt
  <2>1. Movies!P(w)' = p => /\ Movies!At(w, "final")' => ~Beside(p)'
                            /\ Movies!At(w, "commit")' => ~Beside(p)' /\ Past(t)'
    BY <1>7 DEF MovieCame, Movies!At
  <2>2. Movies!P(d)' = p => /\ Movies!At(d, "final")' => ~Beside(p)'
                            /\ Movies!At(d, "commit")' => ~Beside(p)' /\ Past(t)'
    BY <1>2, <1>4, <1>7 DEF MovieDoneAt, Movies!At, Movies!P
  <2>3. moviePair'[p] = "COMPLETED" => ~Beside(p)' /\ Past(t)'
    BY <1>4, <1>7 DEF MovieDoneAt, MovieKept
  <2> QED BY <1>1, <2>1, <2>2, <2>3
<1>10. MovieLateAt(t)'
  <2> SUFFICES ASSUME NEW e \in Movies!Threads, NEW f \in Movies!Threads, NEW p \in Pairs, e # f, p.b = t
      PROVE  /\ Live(p)' /\ Clearing(e, p)' /\ (movieWorker'[e].step = "clean" => movieTemp'[p] = "none") =>
                   ~Preparing(f, p)' /\ ~Confirming(f, p)' /\ Closed(p)'
             /\ Live(p)' /\ movieTemp'[p] = "none" => ~Confirming(f, p)' /\ (Closed(p)' => ~Preparing(f, p)')
             /\ Live(p)' /\ movieTemp'[p] = "none" /\ Movies!P(f)' = p /\ Movies!At(f, "check")' => Closed(p)'
             /\ Swapped(p)' /\ Clearing(e, p)' /\ Swapping(f, t)' => Closed(p)'
    BY DEF MovieLateAt
  <2>1. /\ Live(p)' => Live(p)
        /\ movieTemp'[p] = movieTemp[p]
        /\ Swapped(p)' <=> Swapped(p)
        /\ MovieKept(w, d, p) /\ (Movies!P(w)' = p => MovieCame(w, d, p))
        /\ Preparing(d, p)' <=> Preparing(d, p)
        /\ Confirming(d, p)' <=> Confirming(d, p)
        /\ Clearing(d, p)' <=> Clearing(d, p)
        /\ Movies!At(d, "check")' <=> Movies!At(d, "check")
        /\ Movies!P(d)' = Movies!P(d) /\ movieWorker'[d].step = movieWorker[d].step
        /\ Swapping(d, t)' <=> Swapping(d, t)
        /\ Swapped(p) => ~Swapping(w, t)'
    BY <1>2, <1>5, <1>7 DEF Preparing, Confirming, Clearing, Movies!At, Movies!P
  <2>2. /\ Live(p) /\ Clearing(d, p) /\ (movieWorker[d].step = "clean" => movieTemp[p] = "none") =>
                   ~Preparing(w, p) /\ ~Confirming(w, p) /\ Closed(p)
        /\ Live(p) /\ movieTemp[p] = "none" => ~Confirming(d, p) /\ (Closed(p) => ~Preparing(d, p))
        /\ Live(p) /\ movieTemp[p] = "none" => ~Confirming(w, p)
        /\ Live(p) /\ movieTemp[p] = "none" /\ Movies!P(d) = p /\ Movies!At(d, "check") => Closed(p)
    BY <1>1, <1>4 DEF MovieLateAt
  <2>3. CASE e = w /\ f = d
    <3>1. Live(p)' /\ Clearing(w, p)' /\ (movieWorker'[w].step = "clean" => movieTemp'[p] = "none") =>
                   ~Preparing(d, p)' /\ ~Confirming(d, p)' /\ Closed(p)'
      BY <2>1 DEF MovieCame, Clearing
    <3>2. Live(p)' /\ movieTemp'[p] = "none" => ~Confirming(d, p)' /\ (Closed(p)' => ~Preparing(d, p)')
      BY <2>1, <2>2 DEF MovieKept
    <3>3. Live(p)' /\ movieTemp'[p] = "none" /\ Movies!P(d)' = p /\ Movies!At(d, "check")' => Closed(p)'
      BY <2>1, <2>2 DEF MovieKept
    <3>4. Swapped(p)' /\ Clearing(w, p)' /\ Swapping(d, t)' => Closed(p)'
      BY <2>1 DEF MovieCame, Clearing
    <3> QED BY <2>3, <3>1, <3>2, <3>3, <3>4
  <2>4. CASE e = d /\ f = w
    <3>1. Live(p)' /\ Clearing(d, p)' /\ (movieWorker'[d].step = "clean" => movieTemp'[p] = "none") =>
                   ~Preparing(w, p)' /\ ~Confirming(w, p)' /\ Closed(p)'
      BY <2>1, <2>2 DEF MovieCame, MovieKept, Preparing, Confirming
    <3>2. Live(p)' /\ movieTemp'[p] = "none" => ~Confirming(w, p)' /\ (Closed(p)' => ~Preparing(w, p)')
      BY <2>1 DEF MovieCame, Preparing, Confirming
    <3>3. Live(p)' /\ movieTemp'[p] = "none" /\ Movies!P(w)' = p /\ Movies!At(w, "check")' => Closed(p)'
      BY <2>1 DEF MovieCame, Movies!At
    <3> QED BY <2>1, <2>4, <3>1, <3>2, <3>3
  <2> QED BY <1>1, <2>3, <2>4
<1> QED BY <1>6, <1>8, <1>9, <1>10 DEF MovieQuietAt

LEMMA MovieKnown ==
  ASSUME MovieQuietInv, NEW w \in Movies!Threads, NEW d \in Movies!Threads \ {w}, NEW p \in Pairs
  PROVE  /\ movieSource[p.a] = "intact" /\ movieTemp[p] # "strange" /\ movieAt[p.b] \in {"original"} \cup Movies!Sources
         /\ Live(p) => movieTemp[p] \in {"none", p.a}
         /\ Swapped(p) => ~Live(p)
         /\ Past(p.b) => ~Live(p)
         /\ Live(p) /\ Movies!P(w) = p /\ Movies!P(d) = p => InPlace(p.b)
         /\ Live(p) /\ Clearing(w, p) /\ (movieWorker[w].step = "clean" => movieTemp[p] = "none") =>
                ~Preparing(d, p) /\ ~Confirming(d, p) /\ Closed(p)
         /\ Live(p) /\ Clearing(d, p) /\ (movieWorker[d].step = "clean" => movieTemp[p] = "none") =>
                ~Preparing(w, p) /\ ~Confirming(w, p) /\ Closed(p)
         /\ Live(p) /\ movieTemp[p] = "none" => /\ ~Confirming(w, p) /\ ~Confirming(d, p)
                                                /\ Closed(p) => ~Preparing(w, p) /\ ~Preparing(d, p)
         /\ Live(p) /\ movieTemp[p] = "none" /\ Movies!P(w) = p /\ Movies!At(w, "check") => Closed(p)
         /\ Swapped(p) /\ Clearing(w, p) /\ Swapping(d, p.b) => Closed(p)
         /\ Movies!P(w) = p /\ movieWorker[w].step \in {"look", "swap"} /\ Live(p) => movieTemp[p] = p.a
         /\ Movies!P(w) = p /\ Movies!At(w, "final") => ~Beside(p)
         /\ Movies!P(w) = p /\ Movies!At(w, "commit") => ~Beside(p) /\ Past(p.b)
<1>1. p.b \in Movies!Targets /\ Movies!Threads = {w, d} /\ w # d /\ p.a \notin {"none", "original", "strange"}
  BY MovieNames, MoviePairs DEF Movies!Threads
<1>2. MovieNamesAt(p.b) /\ MovieSwapAt(p.b) /\ MovieLateAt(p.b) /\ MovieDoneAt(p.b) /\ movieSource[p.a] = "intact"
  BY <1>1 DEF MovieQuietInv, MovieQuietAt
<1>3. movieTemp[p] # "strange" /\ movieAt[p.b] \in {"original"} \cup Movies!Sources
  BY <1>2 DEF MovieNamesAt
<1>4. ASSUME Live(p)
      PROVE  movieTemp[p] \in {"none", p.a} /\ ~Swapped(p) /\ ~Past(p.b)
             /\ (Movies!P(w) = p /\ Movies!P(d) = p => InPlace(p.b))
  <2>1. CASE InPlace(p.b)
    BY <1>1, <1>2, <2>1 DEF MovieNamesAt, InPlace, Swapped, Past
  <2>2. CASE ~InPlace(p.b)
    <3>1. PICK q \in Pairs \ {p} : q.b = p.b /\ Swapped(q) /\ \E e \in Movies!Threads : Movies!At(e, "swap") /\ Movies!P(e) = q
      BY <1>4, <2>2 DEF Live
    <3>2. movieTemp[p] \in {"none", p.a}
      BY <1>2, <3>1 DEF MovieNamesAt
    <3>3. ~Swapped(p)
      BY <3>1, MoviePairs DEF Swapped
    <3>4. ~Past(p.b)
      BY <3>1 DEF Past
    <3> QED BY <1>1, <3>1, <3>2, <3>3, <3>4
  <2> QED BY <2>1, <2>2
<1>5. /\ Live(p) /\ Clearing(w, p) /\ (movieWorker[w].step = "clean" => movieTemp[p] = "none") =>
                ~Preparing(d, p) /\ ~Confirming(d, p) /\ Closed(p)
      /\ Live(p) /\ Clearing(d, p) /\ (movieWorker[d].step = "clean" => movieTemp[p] = "none") =>
                ~Preparing(w, p) /\ ~Confirming(w, p) /\ Closed(p)
  BY <1>1, <1>2 DEF MovieLateAt
<1>6. Live(p) /\ movieTemp[p] = "none" => /\ ~Confirming(w, p) /\ ~Confirming(d, p)
                                          /\ Closed(p) => ~Preparing(w, p) /\ ~Preparing(d, p)
  BY <1>1, <1>2 DEF MovieLateAt
<1>7. /\ Live(p) /\ movieTemp[p] = "none" /\ Movies!P(w) = p /\ Movies!At(w, "check") => Closed(p)
      /\ Swapped(p) /\ Clearing(w, p) /\ Swapping(d, p.b) => Closed(p)
  BY <1>1, <1>2 DEF MovieLateAt
<1>8. Movies!P(w) = p /\ movieWorker[w].step \in {"look", "swap"} /\ Live(p) => movieTemp[p] = p.a
  BY <1>2 DEF MovieSwapAt
<1>9. /\ Movies!P(w) = p /\ Movies!At(w, "final") => ~Beside(p)
      /\ Movies!P(w) = p /\ Movies!At(w, "commit") => ~Beside(p) /\ Past(p.b)
  BY <1>2 DEF MovieDoneAt
<1> HIDE DEF MovieNamesAt
<1> QED BY <1>2, <1>3, <1>4, <1>5, <1>6, <1>7, <1>8, <1>9

LEMMA MoviePassTurn ==
  ASSUME Movies!TypeOK, NEW w \in Movies!Threads, NEW d \in Movies!Threads \ {w}, NEW s \in Movies!Steps,
         Movies!Pass(w, s),
         UNCHANGED <<movieSource, movieAt, movieTemp>>, NEW p \in Pairs, Movies!P(w) = p, MovieCame(w, d, p)
  PROVE  MovieTurned(w, d)
<1>1. movieWorker'[w].pair = Movies!P(w) /\ movieWorker'[d] = movieWorker[d]
      /\ Movies!P(w) \in Pairs \cup {Movies!NoPair}
  BY MovieGoto, MovieTypes DEF Movies!Pass
<1>2. ASSUME NEW q \in Pairs PROVE MovieKept(w, d, q)
  BY DEF Movies!Pass, MovieKept, Closed
<1> QED BY <1>1, <1>2 DEF MovieTurned

\* A thread that works on no pair after the step.
LEMMA MovieRestTurn ==
  ASSUME Movies!TypeOK, NEW w \in Movies!Threads, NEW d \in Movies!Threads \ {w}, movieWorker'[d] = movieWorker[d],
         movieWorker'[w].pair = Movies!NoPair, UNCHANGED <<movieSource, movieAt, movieTemp>>, \A p \in Pairs : MovieKept(w, d, p)
  PROVE  MovieTurned(w, d)
  BY MoviePairs DEF MovieTurned

LEMMA MovieSameKept ==
  ASSUME UNCHANGED <<moviePair, movieJournal>>, NEW w, NEW d, NEW p \in Pairs
  PROVE  MovieKept(w, d, p)
  BY DEF MovieKept, Closed

\* Whoever fails at a file that still has its original, beside no temporary link, has
\* closed its pair before: only then nobody is left who will link it again.
LEMMA MovieFailTurn ==
  ASSUME Movies!TypeOK, MovieQuietInv, NEW w \in Movies!Threads, NEW d \in Movies!Threads \ {w}, Movies!P(w) \in Pairs,
         Movies!Fail(w),
         UNCHANGED <<movieSource, movieAt, movieTemp>>,
         InPlace(Movies!Tgt(w)) /\ movieTemp[Movies!P(w)] = "none" => Closed(Movies!P(w))
  PROVE  MovieTurned(w, d)
<1>1. /\ movieWorker'[w] = Movies!Idle /\ movieWorker'[d] = movieWorker[d]
      /\ \A p \in Pairs \ {Movies!P(w)} : movieJournal'[p] = movieJournal[p] /\ moviePair'[p] = moviePair[p]
      /\ \/ movieJournal'[Movies!P(w)] = movieJournal[Movies!P(w)] /\ moviePair'[Movies!P(w)] = moviePair[Movies!P(w)]
         \/ movieJournal'[Movies!P(w)] = "RECOVERY_REQUIRED" /\ moviePair'[Movies!P(w)] = "FAILED"
  BY MovieFail
<1>2. ASSUME NEW p \in Pairs PROVE MovieKept(w, d, p)
  <2>1. CASE movieJournal'[p] = movieJournal[p] /\ moviePair'[p] = moviePair[p]
    BY <2>1 DEF MovieKept, Closed
  <2>2. CASE p = Movies!P(w) /\ movieJournal'[p] = "RECOVERY_REQUIRED" /\ moviePair'[p] = "FAILED"
    <3>1. Closed(p)'
      BY <2>2 DEF Closed
    <3>2. ~Closed(p) /\ Live(p) /\ movieTemp[p] = "none" => ~Preparing(d, p)
      <4>1. SUFFICES ASSUME ~Closed(p), Live(p), movieTemp[p] = "none", Preparing(d, p) PROVE FALSE
        OBVIOUS
      <4>2. InPlace(p.b)
        BY <2>2, <4>1, MovieKnown DEF Preparing
      <4> QED BY <2>2, <4>1, <4>2 DEF Movies!Tgt
    <3> QED BY <2>2, <3>1, <3>2 DEF MovieKept
  <2> QED BY <1>1, <2>1, <2>2
<1> QED BY <1>1, <1>2, MovieRestTurn, MovieNames

\* The steps that look at the names.
LEMMA MovieLookTurn ==
  ASSUME Movies!TypeOK, MovieWorkInv, MovieQuietInv, NEW w \in Movies!Threads, NEW d \in Movies!Threads \ {w},
         \/ Movies!LookAtSource(w) \/ Movies!LookAtTemporary(w) \/ Movies!LookAtTarget(w) \/ Movies!CheckExchange(w)
         \/ Movies!Verify(w) \/ Movies!LookAtOriginal(w) \/ Movies!VerifyAgain(w)
  PROVE  MovieTurned(w, d)
<1>1. /\ movieWorker[w].step \in {"source", "temp", "look", "check", "verify", "clean", "final"}
      /\ UNCHANGED <<movieSource, movieAt, movieTemp>>
  BY DEF Movies!LookAtSource, Movies!LookAtTemporary, Movies!LookAtTarget, Movies!CheckExchange, Movies!Verify,
     Movies!LookAtOriginal, Movies!VerifyAgain, Movies!At, Movies!files
<1>2. PICK p \in Pairs : Movies!P(w) = p /\ Movies!Src(w) = p.a /\ Movies!Tgt(w) = p.b /\ p.a \notin {"none", "original", "strange"} /\ p.a \in Movies!Sources
  BY <1>1, MovieStepTypes, MoviePairs DEF Movies!Src, Movies!Tgt
<1> DEFINE Known ==
         /\ movieSource[p.a] = "intact" /\ movieTemp[p] # "strange"
         /\ Live(p) => movieTemp[p] \in {"none", p.a}
         /\ Swapped(p) => ~Live(p)
         /\ Live(p) /\ Clearing(w, p) /\ (movieWorker[w].step = "clean" => movieTemp[p] = "none") =>
                ~Preparing(d, p) /\ ~Confirming(d, p) /\ Closed(p)
         /\ Live(p) /\ Clearing(d, p) /\ (movieWorker[d].step = "clean" => movieTemp[p] = "none") =>
                ~Preparing(w, p) /\ ~Confirming(w, p) /\ Closed(p)
         /\ Live(p) /\ movieTemp[p] = "none" => /\ ~Confirming(w, p) /\ ~Confirming(d, p)
                                                /\ Closed(p) => ~Preparing(w, p) /\ ~Preparing(d, p)
         /\ Live(p) /\ movieTemp[p] = "none" /\ Movies!P(w) = p /\ Movies!At(w, "check") => Closed(p)
         /\ Swapped(p) /\ Clearing(w, p) /\ Swapping(d, p.b) => Closed(p)
         /\ Movies!P(w) = p /\ movieWorker[w].step \in {"look", "swap"} /\ Live(p) => movieTemp[p] = p.a
         /\ Movies!P(w) = p /\ Movies!At(w, "final") => ~Beside(p)
<1>3. Known
  BY MovieKnown
<1>4. InPlace(p.b) => Live(p)
  BY DEF Live
<1>5. ASSUME NEW s \in Movies!Steps, Movies!Pass(w, s)
      PROVE  /\ movieWorker'[w].step = s
             /\ Closed(p)' <=> Closed(p)
  BY <1>5, MovieGoto DEF Movies!Pass, Closed
<1>6. ASSUME NEW s \in Movies!Steps, Movies!Pass(w, s), MovieCame(w, d, p) PROVE MovieTurned(w, d)
  BY <1>1, <1>2, <1>6, MoviePassTurn
<1>7. ASSUME Movies!Fail(w), InPlace(p.b) /\ movieTemp[p] = "none" => Closed(p) PROVE MovieTurned(w, d)
  BY <1>1, <1>2, <1>7, MovieFailTurn
<1>8. Movies!P(w) = p
  BY <1>2
<1>9. CASE Movies!LookAtSource(w)
  <2>1. CASE Movies!Pass(w, "temp")
    <3>1. Preparing(w, p) /\ "temp" \in Movies!Steps
      BY <1>8, <1>9 DEF Movies!LookAtSource, Movies!At, Preparing, Movies!Steps
    <3>2. MovieCame(w, d, p)
      BY <1>3, <1>5, <2>1, <3>1 DEF MovieCame
    <3> QED BY <1>6, <2>1, <3>1, <3>2
  <2> QED BY <1>2, <1>3, <1>9, <2>1 DEF Movies!LookAtSource, Movies!Check
<1>10. CASE Movies!LookAtTemporary(w)
  <2>1. Preparing(w, p)
    BY <1>8, <1>10 DEF Movies!LookAtTemporary, Movies!At, Preparing
  <2>2. CASE movieTemp[p] = "none" /\ Movies!Pass(w, "link")
    <3>1. MovieCame(w, d, p) /\ "link" \in Movies!Steps
      BY <1>3, <1>5, <2>1, <2>2 DEF MovieCame, Movies!Steps
    <3> QED BY <1>6, <2>2, <3>1
  <2>3. CASE movieTemp[p] # "none" /\ Movies!Pass(w, "look")
    <3>1. MovieCame(w, d, p) /\ "look" \in Movies!Steps
      BY <1>3, <1>5, <2>1, <2>3 DEF MovieCame, Movies!Steps
    <3> QED BY <1>6, <2>3, <3>1
  <2>4. CASE Movies!Fail(w) /\ movieAt[p.b] # "original"
    BY <1>7, <2>4 DEF InPlace
  <2> QED BY <1>2, <1>8, <1>10, <2>2, <2>3, <2>4 DEF Movies!LookAtTemporary, Movies!Check
<1>11. CASE Movies!LookAtTarget(w)
  <2>1. Preparing(w, p) /\ movieWorker[w].step = "look"
    BY <1>8, <1>11 DEF Movies!LookAtTarget, Movies!At, Preparing
  <2>2. CASE Movies!Pass(w, "check") /\ Movies!Exchanged(w)
    <3>1. MovieCame(w, d, p) /\ "check" \in Movies!Steps
      BY <1>2, <1>5, <1>8, <2>2 DEF MovieCame, Movies!Steps, Movies!Exchanged
    <3> QED BY <1>6, <2>2, <3>1
  <2>3. CASE Movies!Pass(w, "swap") /\ Movies!Ready(w)
    <3>1. InPlace(p.b) /\ movieTemp[p] = p.a
      BY <1>2, <1>8, <2>3 DEF Movies!Ready, InPlace
    <3>2. MovieCame(w, d, p) /\ "swap" \in Movies!Steps
      BY <1>2, <1>3, <1>5, <2>1, <2>3, <3>1 DEF MovieCame, Movies!Steps
    <3> QED BY <1>6, <2>3, <3>2
  <2>4. CASE Movies!Fail(w)
    BY <1>2, <1>3, <1>4, <1>7, <1>8, <2>1, <2>4
  <2> QED BY <1>11, <2>2, <2>3, <2>4 DEF Movies!LookAtTarget, Movies!Check
<1>12. CASE Movies!CheckExchange(w)
  <2>1. CASE Movies!Pass(w, "exchanged") /\ Movies!Exchanged(w)
    <3>1. Swapped(p)
      BY <1>2, <1>8, <2>1 DEF Movies!Exchanged, Swapped, Beside
    <3>2. MovieCame(w, d, p) /\ "exchanged" \in Movies!Steps
      BY <1>3, <1>5, <2>1, <3>1 DEF MovieCame, Movies!Steps
    <3> QED BY <1>6, <2>1, <3>2
  <2>2. CASE Movies!Fail(w)
    BY <1>3, <1>4, <1>7, <1>8, <1>12, <2>2 DEF Movies!CheckExchange
  <2> QED BY <1>12, <2>1, <2>2 DEF Movies!CheckExchange, Movies!Check
<1>13. CASE Movies!Verify(w)
  <2>1. Confirming(w, p)
    BY <1>8, <1>13 DEF Movies!Verify, Movies!At, Confirming
  <2>2. CASE Movies!Pass(w, "verified")
    <3>1. MovieCame(w, d, p) /\ "verified" \in Movies!Steps
      BY <1>3, <1>5, <2>1, <2>2 DEF MovieCame, Movies!Steps
    <3> QED BY <1>6, <2>2, <3>1
  <2>3. CASE Movies!Fail(w)
    BY <1>3, <1>4, <1>7, <2>1, <2>3
  <2> QED BY <1>13, <2>2, <2>3 DEF Movies!Verify, Movies!Check
<1>14. CASE Movies!LookAtOriginal(w)
  <2>1. Clearing(w, p) /\ movieWorker[w].step = "clean"
    BY <1>8, <1>14 DEF Movies!LookAtOriginal, Movies!At, Clearing
  <2>2. CASE Movies!Pass(w, "final") /\ movieTemp[p] = "none"
    <3>1. ~Beside(p) /\ ~Swapped(p)
      BY <2>2 DEF Beside, Swapped
    <3>2. MovieCame(w, d, p) /\ "final" \in Movies!Steps
      BY <1>3, <1>5, <2>1, <2>2, <3>1 DEF MovieCame, Movies!Steps
    <3> QED BY <1>6, <2>2, <3>2
  <2>3. CASE Movies!Pass(w, "unlink") /\ movieTemp[p] = "original"
    <3>1. ~Live(p)
      BY <1>2, <1>3, <2>3
    <3>2. MovieCame(w, d, p) /\ "unlink" \in Movies!Steps
      BY <1>3, <1>5, <2>1, <2>3, <3>1 DEF MovieCame, Movies!Steps
    <3> QED BY <1>6, <2>3, <3>2
  <2>4. CASE Movies!Fail(w) /\ movieTemp[p] # "none"
    BY <1>7, <2>4
  <2> QED BY <1>8, <1>14, <2>2, <2>3, <2>4 DEF Movies!LookAtOriginal, Movies!Check
<1>15. CASE Movies!VerifyAgain(w)
  <2>1. Clearing(w, p) /\ movieWorker[w].step = "final" /\ ~Beside(p)
    BY <1>3, <1>8, <1>15 DEF Movies!VerifyAgain, Movies!At, Clearing
  <2>2. CASE Movies!Pass(w, "commit") /\ Movies!Shared(w)
    <3>1. movieAt[p.b] = p.a
      BY <1>2, <2>2 DEF Movies!Shared
    <3>2. Past(p.b)
      BY <1>2, <2>1, <3>1, MoviePairs DEF Past, InPlace, Swapped
    <3>3. MovieCame(w, d, p) /\ "commit" \in Movies!Steps
      BY <1>5, <2>1, <2>2, <3>2 DEF MovieCame, Movies!Steps
    <3> QED BY <1>6, <2>2, <3>3
  <2>3. CASE Movies!Fail(w)
    BY <1>3, <1>4, <1>7, <2>1, <2>3
  <2> QED BY <1>15, <2>2, <2>3 DEF Movies!VerifyAgain, Movies!Check
<1> QED BY <1>9, <1>10, <1>11, <1>12, <1>13, <1>14, <1>15

\* The steps that write the journal.
LEMMA MovieMarkTurn ==
  ASSUME Movies!TypeOK, MovieWorkInv, MovieQuietInv, NEW w \in Movies!Threads, NEW d \in Movies!Threads \ {w},
         Movies!MarkExchanged(w) \/ Movies!MarkVerified(w) \/ Movies!Commit(w)
  PROVE  MovieTurned(w, d)
<1>1. /\ movieWorker[w].step \in {"exchanged", "verified", "commit"}
      /\ UNCHANGED <<movieSource, movieAt, movieTemp>>
  BY DEF Movies!MarkExchanged, Movies!MarkVerified, Movies!Mark, Movies!Commit, Movies!At, Movies!files
<1>2. PICK p \in Pairs : Movies!P(w) = p
  BY <1>1, MovieStepTypes
<1>3. /\ Live(p) /\ Clearing(d, p) /\ (movieWorker[d].step = "clean" => movieTemp[p] = "none") =>
             ~Preparing(w, p) /\ ~Confirming(w, p) /\ Closed(p)
      /\ Live(p) /\ movieTemp[p] = "none" => ~Confirming(w, p)
      /\ Movies!At(w, "commit") => ~Beside(p) /\ Past(p.b)
      /\ Past(p.b) => ~Live(p)
  BY <1>2, MovieKnown
<1>4. ASSUME NEW s \in {"verify", "clean"}, Movies!Goto(w, s)
      PROVE  movieWorker'[w].step = s /\ movieWorker'[w].pair = p /\ movieWorker'[d] = movieWorker[d]
  BY <1>2, <1>4, MovieGoto DEF Movies!Steps
<1>5. ASSUME NEW j, movieJournal' = [movieJournal EXCEPT ![p] = j]
      PROVE  movieJournal'[p] = j /\ \A q \in Pairs \ {p} : movieJournal'[q] = movieJournal[q]
  BY <1>2, <1>5, MovieTypes
<1>6. CASE Movies!MarkExchanged(w)
  <2>1. /\ movieWorker'[w].step = "verify" /\ movieWorker'[w].pair = p /\ movieWorker'[d] = movieWorker[d]
        /\ \A q \in Pairs \ {p} : movieJournal'[q] = movieJournal[q]
        /\ movieJournal'[p] = "EXCHANGED" /\ moviePair' = moviePair /\ Confirming(w, p)
    BY <1>2, <1>4, <1>5, <1>6 DEF Movies!MarkExchanged, Movies!Mark, Confirming, Movies!At
  <2>2. MovieCame(w, d, p)
    BY <1>3, <2>1 DEF MovieCame
  <2>3. ASSUME NEW q \in Pairs PROVE MovieKept(w, d, q)
    BY <2>1 DEF MovieKept, Closed
  <2> QED BY <1>1, <1>2, <2>1, <2>2, <2>3 DEF MovieTurned
<1>7. CASE Movies!MarkVerified(w)
  <2>1. /\ movieWorker'[w].step = "clean" /\ movieWorker'[w].pair = p /\ movieWorker'[d] = movieWorker[d]
        /\ \A q \in Pairs \ {p} : movieJournal'[q] = movieJournal[q]
        /\ movieJournal'[p] = "VERIFIED" /\ moviePair' = moviePair /\ Confirming(w, p)
    BY <1>2, <1>4, <1>5, <1>7 DEF Movies!MarkVerified, Movies!Mark, Confirming, Movies!At
  <2>2. Closed(p)'
    BY <2>1 DEF Closed
  <2>3. MovieCame(w, d, p)
    BY <1>3, <2>1, <2>2 DEF MovieCame
  <2>4. ASSUME NEW q \in Pairs PROVE MovieKept(w, d, q)
    <3>1. CASE q = p
      BY <1>3, <2>1, <2>2, <3>1 DEF MovieKept
    <3>2. CASE q # p
      BY <2>1, <3>2 DEF MovieKept, Closed
    <3> QED BY <3>1, <3>2
  <2> QED BY <1>1, <1>2, <2>1, <2>3, <2>4 DEF MovieTurned
<1>8. CASE Movies!Commit(w)
  <2>1. movieWorker'[w].pair = Movies!NoPair /\ movieWorker'[d] = movieWorker[d]
    BY <1>8, MovieNext DEF Movies!Commit
  <2>2. movieJournal'[p] = "COMMITTED" /\ \A q \in Pairs \ {p} : movieJournal'[q] = movieJournal[q]
    BY <1>2, <1>5, <1>8 DEF Movies!Commit
  <2>3. moviePair'[p] = "COMPLETED" /\ \A q \in Pairs \ {p} : moviePair'[q] = moviePair[q]
    BY <1>2, <1>8, MovieTypes DEF Movies!Commit
  <2>4. ~Beside(p) /\ Past(p.b) /\ ~Live(p)
    BY <1>3, <1>8 DEF Movies!Commit
  <2>5. ASSUME NEW q \in Pairs PROVE MovieKept(w, d, q)
    <3>1. CASE q = p
      <4>1. Closed(p)'
        BY <2>3 DEF Closed
      <4> QED BY <2>4, <3>1, <4>1 DEF MovieKept
    <3>2. CASE q # p
      BY <2>2, <2>3, <3>2 DEF MovieKept, Closed
    <3> QED BY <3>1, <3>2
  <2> QED BY <1>1, <2>1, <2>5, MovieRestTurn
<1> QED BY <1>6, <1>7, <1>8

\* The steps that take up a pair, and the end of a call.
LEMMA MovieLoadTurn ==
  ASSUME Movies!TypeOK, MovieWorkInv, MovieQuietInv, NEW w \in Movies!Threads, NEW d \in Movies!Threads \ {w},
         NEW p \in movieWorker[w].todo, Movies!Load(w, p)
  PROVE  MovieTurned(w, d)
<1>1. /\ p \in Pairs /\ p # Movies!NoPair /\ movieWorker[w] \in MovieWorker /\ movieWorker[w].todo \ {p} \subseteq Pairs
      /\ movieWorker[w].step = "load" /\ Movies!P(w) = Movies!NoPair
      /\ UNCHANGED <<movieSource, movieAt, movieTemp, moviePair>>
  BY MovieTypes, MoviePairs DEF Movies!Load, Movies!At, Movies!files, MovieWorkInv
<1>2. ASSUME NEW s \in Movies!Steps, Movies!Take(w, p, s)
      PROVE  movieWorker'[w].step = s /\ movieWorker'[w].pair = p /\ movieWorker'[d] = movieWorker[d]
  <2>1. [step |-> s, todo |-> movieWorker[w].todo \ {p}, pair |-> p] \in MovieWorker
    BY <1>1 DEF MovieWorker
  <2>2. /\ movieWorker'[w] = [step |-> s, todo |-> movieWorker[w].todo \ {p}, pair |-> p]
        /\ \A e \in Movies!Threads \ {w} : movieWorker'[e] = movieWorker[e]
    BY <1>2, <2>1, MovieRecord DEF Movies!Take
  <2> QED BY <2>2
<1>3. /\ Live(p) /\ Clearing(d, p) /\ (movieWorker[d].step = "clean" => movieTemp[p] = "none") => Closed(p)
      /\ Live(p) /\ movieTemp[p] = "none" => /\ ~Confirming(d, p)
                                             /\ Closed(p) => ~Preparing(d, p)
  BY <1>1, MovieKnown
<1>4. CASE movieWorker' = [movieWorker EXCEPT ![w].todo = @ \ {p}] /\ UNCHANGED movieJournal
  <2>1. [movieWorker[w] EXCEPT !.todo = @ \ {p}] \in MovieWorker
    BY <1>1 DEF MovieWorker
  <2>2. movieWorker' = [movieWorker EXCEPT ![w] = [movieWorker[w] EXCEPT !.todo = @ \ {p}]]
    BY <1>4
  <2>3. movieWorker'[w] = [movieWorker[w] EXCEPT !.todo = @ \ {p}] /\ movieWorker'[d] = movieWorker[d]
    BY <2>1, <2>2, MovieRecord
  <2>4. movieWorker'[w].pair = Movies!NoPair
    BY <1>1, <2>3 DEF Movies!P, MovieWorker
  <2> QED BY <1>1, <1>4, <2>3, <2>4, MovieSameKept, MovieRestTurn
<1>5. CASE movieJournal[p] = "VERIFIED" /\ Movies!Take(w, p, "clean") /\ UNCHANGED movieJournal
  <2>1. Closed(p)' /\ Closed(p)
    BY <1>5 DEF Closed
  <2>2. movieWorker'[w].step = "clean" /\ movieWorker'[w].pair = p /\ movieWorker'[d] = movieWorker[d]
    BY <1>2, <1>5 DEF Movies!Steps
  <2>3. MovieCame(w, d, p)
    BY <1>3, <2>1, <2>2 DEF MovieCame
  <2> QED BY <1>1, <1>5, <2>2, <2>3, MovieSameKept DEF MovieTurned
<1>6. CASE /\ Movies!Take(w, p, "source") /\ moviePair[p] = "VERIFIED_DUPLICATE" /\ movieJournal[p] # "VERIFIED"
           /\ movieJournal' = movieJournal \/ movieJournal' = [movieJournal EXCEPT ![p] = "INTENT_RECORDED"]
  <2>1. movieWorker'[w].step = "source" /\ movieWorker'[w].pair = p /\ movieWorker'[d] = movieWorker[d]
    BY <1>2, <1>6 DEF Movies!Steps
  <2>2. movieJournal'[p] # "VERIFIED" /\ \A q \in Pairs \ {p} : movieJournal'[q] = movieJournal[q]
    BY <1>1, <1>6, MovieTypes
  <2>3. ~Closed(p)' /\ ~Closed(p)
    BY <1>1, <1>6, <2>2 DEF Closed
  <2>4. MovieCame(w, d, p)
    BY <1>3, <2>1, <2>3 DEF MovieCame
  <2>5. ASSUME NEW q \in Pairs PROVE MovieKept(w, d, q)
    <3>1. CASE q = p
      BY <1>1, <2>3, <3>1 DEF MovieKept
    <3>2. CASE q # p
      BY <1>1, <2>2, <3>2 DEF MovieKept, Closed
    <3> QED BY <3>1, <3>2
  <2> QED BY <1>1, <2>1, <2>4, <2>5 DEF MovieTurned
<1>7. CASE movieWorker' = [movieWorker EXCEPT ![w] = Movies!Idle] /\ UNCHANGED movieJournal
  <2>1. movieWorker'[w] = Movies!Idle /\ movieWorker'[d] = movieWorker[d]
    BY <1>7, MovieNames, MovieRecord
  <2> QED BY <1>1, <1>7, <2>1, MovieNames, MovieSameKept, MovieRestTurn
<1> QED BY <1>4, <1>5, <1>6, <1>7 DEF Movies!Load, Movies!Active

\* A temporary link is made or removed: nobody's original moves.
LEMMA MovieRelinked ==
  ASSUME Movies!TypeOK, MovieQuietInv, NEW w \in Movies!Threads, NEW d \in Movies!Threads \ {w}, NEW p \in Pairs,
         Movies!P(w) = p, movieWorker'[w].pair = p, movieWorker'[d] = movieWorker[d],
         UNCHANGED <<movieSource, movieAt, moviePair, movieJournal>>,
         \A q \in Pairs \ {p} : movieTemp'[q] = movieTemp[q],
         \/ /\ movieWorker[w].step = "link" /\ movieWorker'[w].step = "look"
            /\ movieTemp[p] = "none" /\ movieTemp'[p] = p.a
         \/ /\ movieWorker[w].step = "unlink" /\ movieWorker'[w].step = "final"
            /\ movieTemp[p] \notin {"none", "original"} /\ movieTemp'[p] = "none"
  PROVE  MovieQuietInv'
<1>1. Movies!Threads = {w, d} /\ w # d
  BY DEF Movies!Threads
<1>2. SUFFICES ASSUME NEW t \in Movies!Targets PROVE MovieQuietAt(t)'
  BY DEF MovieQuietInv
<1>3. MovieNamesAt(t) /\ MovieSwapAt(t) /\ MovieLateAt(t) /\ MovieDoneAt(t)
  BY DEF MovieQuietInv, MovieQuietAt
<1>4. p.a \notin {"none", "original", "strange"}
  BY MoviePairs
<1>5. ASSUME NEW x \in Pairs
      PROVE  /\ Beside(x)' <=> Beside(x)
             /\ Swapped(x)' <=> Swapped(x)
             /\ Closed(x)' <=> Closed(x)
             /\ x # p => movieTemp'[x] = movieTemp[x] /\ Movies!P(w) # x /\ Movies!P(w)' # x
             /\ Movies!P(d)' = Movies!P(d)
  BY <1>4 DEF Beside, Swapped, Closed, Movies!P
<1>6. InPlace(t)' <=> InPlace(t)
  BY DEF InPlace
<1>7. Past(t)' <=> Past(t)
  BY <1>5, <1>6 DEF Past
<1>8. ASSUME NEW e \in Movies!Threads
      PROVE  /\ Movies!At(e, "swap")' <=> Movies!At(e, "swap")
             /\ Swapping(e, t)' <=> Swapping(e, t)
             /\ Movies!P(e)' = Movies!P(e)
             /\ \A x \in Pairs : x # p => /\ Preparing(e, x)' <=> Preparing(e, x)
                                          /\ Confirming(e, x)' <=> Confirming(e, x)
                                          /\ Clearing(e, x)' <=> Clearing(e, x)
  <2>1. CASE e = w
    BY <2>1 DEF Movies!At, Swapping, Preparing, Confirming, Clearing, Movies!P
  <2>2. CASE e = d
    BY <2>2 DEF Movies!At, Swapping, Preparing, Confirming, Clearing, Movies!P, Movies!Tgt
  <2> QED BY <1>1, <2>1, <2>2
<1>9. ASSUME NEW x \in Pairs PROVE Live(x)' <=> Live(x)
  <2>1. InPlace(x.b)' <=> InPlace(x.b)
    BY DEF InPlace
  <2> QED BY <1>5, <1>8, <2>1 DEF Live
<1>10. MovieNamesAt(t)'
  <2>1. \A x \in Pairs : movieTemp'[x] \in {movieTemp[x], "none", x.a} /\ x.a # "strange"
    BY MoviePairs
  <2> SUFFICES ASSUME NEW x \in Pairs, x.b = t
      PROVE  /\ movieTemp'[x] # "strange"
             /\ InPlace(t)' => movieTemp'[x] \in {"none", x.a}
             /\ \A q \in Pairs \ {x} : q.b = t /\ Beside(x)' => ~Beside(q)'
             /\ \A q \in Pairs \ {x} : q.b = t /\ Swapped(x)' => movieTemp'[q] \in {"none", q.a}
    BY <1>3 DEF MovieNamesAt
  <2>2. movieTemp'[x] # "strange" /\ (InPlace(t)' => movieTemp'[x] \in {"none", x.a})
    BY <1>3, <1>6, <2>1 DEF MovieNamesAt
  <2>3. ASSUME NEW q \in Pairs \ {x}, q.b = t
        PROVE  (Beside(x)' => ~Beside(q)') /\ (Swapped(x)' => movieTemp'[q] \in {"none", q.a})
    BY <1>3, <1>5, <2>1, <2>3 DEF MovieNamesAt
  <2> QED BY <2>2, <2>3
<1>11. ASSUME NEW x \in Pairs, x.b = t
       PROVE  /\ Live(x) /\ Clearing(w, x) /\ (movieWorker[w].step = "clean" => movieTemp[x] = "none") =>
                     ~Preparing(d, x) /\ ~Confirming(d, x) /\ Closed(x)
              /\ Live(x) /\ Clearing(d, x) /\ (movieWorker[d].step = "clean" => movieTemp[x] = "none") =>
                     ~Preparing(w, x) /\ ~Confirming(w, x) /\ Closed(x)
              /\ Live(x) /\ movieTemp[x] = "none" => /\ ~Confirming(w, x) /\ ~Confirming(d, x)
                                                     /\ Closed(x) => ~Preparing(w, x) /\ ~Preparing(d, x)
              /\ Live(x) /\ movieTemp[x] = "none" /\ Movies!P(w) = x /\ Movies!At(w, "check") => Closed(x)
              /\ Live(x) /\ movieTemp[x] = "none" /\ Movies!P(d) = x /\ Movies!At(d, "check") => Closed(x)
              /\ Swapped(x) /\ Clearing(w, x) /\ Swapping(d, t) => Closed(x)
              /\ Swapped(x) /\ Clearing(d, x) /\ Swapping(w, t) => Closed(x)
  BY <1>1, <1>3, <1>11 DEF MovieLateAt
<1>12. /\ movieWorker[w].step = "link" => Preparing(w, p)
       /\ movieWorker[w].step = "unlink" => Clearing(w, p)
       /\ movieWorker'[w].step = "look" => ~Clearing(w, p)' /\ ~Confirming(w, p)'
       /\ movieWorker'[w].step = "final" => ~Preparing(w, p)' /\ ~Confirming(w, p)'
       /\ movieWorker'[d].step = movieWorker[d].step
       /\ Preparing(d, p)' <=> Preparing(d, p)
       /\ Confirming(d, p)' <=> Confirming(d, p)
       /\ Clearing(d, p)' <=> Clearing(d, p)
       /\ Movies!At(d, "check")' <=> Movies!At(d, "check")
       /\ ~Movies!At(w, "check")' /\ ~Swapping(w, t)'
  BY DEF Preparing, Confirming, Clearing, Movies!At, Movies!P, Swapping
<1>13. MovieSwapAt(t)'
  <2> SUFFICES ASSUME NEW x \in Pairs, x.b = t
      PROVE  /\ Swapped(x)' => \E e \in Movies!Threads : ~Swapping(e, t)'
             /\ \A e \in Movies!Threads : Movies!P(e)' = x /\ movieWorker'[e].step \in {"look", "swap"} /\ Live(x)' => movieTemp'[x] = x.a
             /\ Beside(x)' /\ ~Swapped(x)' => \A e \in Movies!Threads : ~Swapping(e, t)'
    BY DEF MovieSwapAt
  <2>1. Swapped(x)' => \E e \in Movies!Threads : ~Swapping(e, t)'
    BY <1>12
  <2>2. Beside(x)' /\ ~Swapped(x)' => \A e \in Movies!Threads : ~Swapping(e, t)'
    BY <1>3, <1>5, <1>8 DEF MovieSwapAt
  <2>3. Movies!P(w)' = x /\ movieWorker'[w].step \in {"look", "swap"} /\ Live(x)' => movieTemp'[x] = x.a
    BY <1>5
  <2>4. Movies!P(d)' = x /\ movieWorker'[d].step \in {"look", "swap"} /\ Live(x)' => movieTemp'[x] = x.a
    <3>1. SUFFICES ASSUME Movies!P(d) = x, movieWorker[d].step \in {"look", "swap"}, Live(x) PROVE movieTemp'[x] = x.a
      BY <1>5, <1>9
    <3>2. movieTemp[x] = x.a /\ Preparing(d, x)
      BY <1>3, <3>1 DEF MovieSwapAt, Preparing
    <3>3. CASE x # p
      BY <1>5, <3>2, <3>3
    <3>4. CASE x = p
      BY <1>4, <1>11, <1>12, <3>1, <3>2, <3>4
    <3> QED BY <3>3, <3>4
  <2> QED BY <1>1, <2>1, <2>2, <2>3, <2>4
<1>14. MovieDoneAt(t)'
  <2> SUFFICES ASSUME NEW x \in Pairs, x.b = t
      PROVE  /\ \A e \in Movies!Threads : Movies!P(e)' = x =>
                   /\ Movies!At(e, "final")' => ~Beside(x)'
                   /\ Movies!At(e, "commit")' => ~Beside(x)' /\ Past(t)'
             /\ moviePair'[x] = "COMPLETED" => ~Beside(x)' /\ Past(t)'
    BY DEF MovieDoneAt
  <2>1. Movies!P(w)' = x => (Movies!At(w, "final")' => ~Beside(x)') /\ ~Movies!At(w, "commit")'
    BY <1>4, <1>5 DEF Movies!At, Beside
  <2>2. Movies!P(d)' = x => /\ Movies!At(d, "final")' => ~Beside(x)'
                            /\ Movies!At(d, "commit")' => ~Beside(x)' /\ Past(t)'
    BY <1>3, <1>5, <1>7 DEF MovieDoneAt, Movies!At
  <2>3. moviePair'[x] = "COMPLETED" => ~Beside(x)' /\ Past(t)'
    BY <1>3, <1>5, <1>7 DEF MovieDoneAt
  <2> QED BY <1>1, <2>1, <2>2, <2>3
<1>15. MovieLateAt(t)'
  <2> SUFFICES ASSUME NEW e \in Movies!Threads, NEW f \in Movies!Threads, NEW x \in Pairs, e # f, x.b = t
      PROVE  /\ Live(x)' /\ Clearing(e, x)' /\ (movieWorker'[e].step = "clean" => movieTemp'[x] = "none") =>
                   ~Preparing(f, x)' /\ ~Confirming(f, x)' /\ Closed(x)'
             /\ Live(x)' /\ movieTemp'[x] = "none" => ~Confirming(f, x)' /\ (Closed(x)' => ~Preparing(f, x)')
             /\ Live(x)' /\ movieTemp'[x] = "none" /\ Movies!P(f)' = x /\ Movies!At(f, "check")' => Closed(x)'
             /\ Swapped(x)' /\ Clearing(e, x)' /\ Swapping(f, t)' => Closed(x)'
    BY DEF MovieLateAt
  <2>1. /\ Live(x)' <=> Live(x)
        /\ Swapped(x)' <=> Swapped(x)
        /\ Closed(x)' <=> Closed(x)
        /\ Movies!P(d)' = Movies!P(d)
        /\ Swapping(d, t)' <=> Swapping(d, t)
    BY <1>5, <1>8, <1>9
  <2>2. CASE x = p
    <3>1. /\ Live(p)' /\ Clearing(w, p)' /\ (movieWorker'[w].step = "clean" => movieTemp'[p] = "none") =>
                   ~Preparing(d, p)' /\ ~Confirming(d, p)' /\ Closed(p)'
          /\ Live(p)' /\ Clearing(d, p)' /\ (movieWorker'[d].step = "clean" => movieTemp'[p] = "none") =>
                   ~Preparing(w, p)' /\ ~Confirming(w, p)' /\ Closed(p)'
      BY <1>4, <1>11, <1>12, <2>1, <2>2
    <3>2. /\ Live(p)' /\ movieTemp'[p] = "none" => ~Confirming(w, p)' /\ (Closed(p)' => ~Preparing(w, p)')
          /\ Live(p)' /\ movieTemp'[p] = "none" => ~Confirming(d, p)' /\ (Closed(p)' => ~Preparing(d, p)')
          /\ Live(p)' /\ movieTemp'[p] = "none" /\ Movies!P(d)' = p /\ Movies!At(d, "check")' => Closed(p)'
      BY <1>4, <1>11, <1>12, <2>1, <2>2
    <3>3. Swapped(p)' /\ Clearing(w, p)' /\ Swapping(d, t)' => Closed(p)'
      <4>1. CASE movieWorker[w].step = "unlink"
        BY <1>11, <1>12, <2>1, <2>2, <4>1
      <4>2. CASE movieWorker'[w].step = "look"
        BY <1>12, <4>2
      <4> QED BY <4>1, <4>2
    <3> QED BY <1>1, <1>12, <2>2, <3>1, <3>2, <3>3
  <2>3. CASE x # p
    <3>1. /\ movieTemp'[x] = movieTemp[x] /\ Movies!P(w) # x /\ Movies!P(w)' # x
          /\ Preparing(d, x)' <=> Preparing(d, x)
          /\ Confirming(d, x)' <=> Confirming(d, x)
          /\ Clearing(d, x)' <=> Clearing(d, x)
          /\ ~Preparing(w, x)' /\ ~Confirming(w, x)' /\ ~Clearing(w, x)'
          /\ Movies!At(d, "check")' <=> Movies!At(d, "check")
          /\ movieWorker'[d].step = movieWorker[d].step
      BY <1>5, <1>8, <1>12, <2>3 DEF Preparing, Confirming, Clearing
    <3>2. /\ Live(x)' /\ Clearing(d, x)' /\ (movieWorker'[d].step = "clean" => movieTemp'[x] = "none") => Closed(x)'
          /\ Live(x)' /\ movieTemp'[x] = "none" => ~Confirming(d, x)' /\ (Closed(x)' => ~Preparing(d, x)')
          /\ Live(x)' /\ movieTemp'[x] = "none" /\ Movies!P(d)' = x /\ Movies!At(d, "check")' => Closed(x)'
      BY <1>11, <2>1, <3>1
    <3> QED BY <1>1, <1>12, <3>1, <3>2
  <2> QED BY <2>2, <2>3
<1> QED BY <1>10, <1>13, <1>14, <1>15 DEF MovieQuietAt

\* The original of a file of B is gone for good.
LEMMA MovieGone ==
  ASSUME NEW t \in Movies!Targets, movieAt'[t] \in Movies!Sources,
         \A x \in Pairs : x.b = t => movieTemp'[x] \notin {"original", "strange"}
  PROVE  MovieQuietAt(t)'
<1>1. ~InPlace(t)' /\ "original" \notin Movies!Sources
  BY MoviePairs DEF InPlace, Movies!Sources
<1>2. ASSUME NEW x \in Pairs, x.b = t PROVE ~Beside(x)' /\ ~Swapped(x)'
  BY <1>2 DEF Beside, Swapped
<1>3. ASSUME NEW x \in Pairs, x.b = t PROVE ~Live(x)'
  BY <1>1, <1>2, <1>3 DEF Live
<1>4. Past(t)'
  BY <1>1, <1>2 DEF Past
<1>5. MovieNamesAt(t)'
  BY <1>1, <1>2 DEF MovieNamesAt
<1>6. MovieSwapAt(t)' /\ MovieLateAt(t)'
  BY <1>2, <1>3 DEF MovieSwapAt, MovieLateAt
<1>7. MovieDoneAt(t)'
  BY <1>2, <1>4 DEF MovieDoneAt
<1> QED BY <1>5, <1>6, <1>7 DEF MovieQuietAt

\* What a thread does at one file of B leaves the others alone.
LEMMA MovieElsewhere ==
  ASSUME NEW w \in Movies!Threads, NEW d \in Movies!Threads \ {w}, NEW t \in Movies!Targets, MovieQuietAt(t),
         movieWorker'[d] = movieWorker[d], movieAt'[t] = movieAt[t], UNCHANGED <<moviePair, movieJournal>>,
         \A x \in Pairs : x.b = t => movieTemp'[x] = movieTemp[x],
         Movies!P(w).b # t, movieWorker'[w].pair = Movies!P(w)
  PROVE  MovieQuietAt(t)'
<1>1. Movies!Threads = {w, d} /\ w # d
  BY DEF Movies!Threads
<1>2. MovieNamesAt(t) /\ MovieSwapAt(t) /\ MovieLateAt(t) /\ MovieDoneAt(t)
  BY DEF MovieQuietAt
<1>3. InPlace(t)' <=> InPlace(t)
  BY DEF InPlace
<1>4. ASSUME NEW x \in Pairs, x.b = t
      PROVE  /\ movieTemp'[x] = movieTemp[x]
             /\ Beside(x)' <=> Beside(x)
             /\ Swapped(x)' <=> Swapped(x)
             /\ Closed(x)' <=> Closed(x)
             /\ Movies!P(w) # x /\ Movies!P(w)' # x
  BY <1>4 DEF Beside, Swapped, Closed, Movies!P
<1>5. Past(t)' <=> Past(t)
  BY <1>3, <1>4 DEF Past
<1>6. ASSUME NEW e \in Movies!Threads, NEW x \in Pairs, x.b = t
      PROVE  /\ Movies!P(e)' = Movies!P(e)
             /\ Movies!P(e) = x => movieWorker'[e] = movieWorker[e]
             /\ Swapping(e, t)' <=> Swapping(e, t)
  BY <1>1, <1>4, <1>6 DEF Movies!P, Swapping, Movies!At, Movies!Tgt
<1>7. ASSUME NEW x \in Pairs, x.b = t PROVE Live(x)' <=> Live(x)
  <2>1. InPlace(x.b)' <=> InPlace(x.b)
    BY <1>3, <1>7
  <2>2. ASSUME NEW q \in Pairs \ {x}, q.b = x.b
        PROVE  /\ Swapped(q)' <=> Swapped(q)
               /\ \A e \in Movies!Threads : Movies!At(e, "swap")' /\ Movies!P(e)' = q <=> Movies!At(e, "swap") /\ Movies!P(e) = q
    BY <1>4, <1>6, <1>7, <2>2 DEF Movies!At
  <2> QED BY <2>1, <2>2 DEF Live
<1>8. MovieNamesAt(t)'
  BY <1>2, <1>3, <1>4 DEF MovieNamesAt
<1>9. MovieSwapAt(t)'
  <2> SUFFICES ASSUME NEW x \in Pairs, x.b = t
      PROVE  /\ Swapped(x)' => \E e \in Movies!Threads : ~Swapping(e, t)'
             /\ \A e \in Movies!Threads : Movies!P(e)' = x /\ movieWorker'[e].step \in {"look", "swap"} /\ Live(x)' => movieTemp'[x] = x.a
             /\ Beside(x)' /\ ~Swapped(x)' => \A e \in Movies!Threads : ~Swapping(e, t)'
    BY DEF MovieSwapAt
  <2>1. \A e \in Movies!Threads : Movies!P(e)' = x /\ movieWorker'[e].step \in {"look", "swap"} /\ Live(x)' => movieTemp'[x] = x.a
    BY <1>2, <1>4, <1>6, <1>7 DEF MovieSwapAt
  <2>2. /\ Swapped(x)' => \E e \in Movies!Threads : ~Swapping(e, t)'
        /\ Beside(x)' /\ ~Swapped(x)' => \A e \in Movies!Threads : ~Swapping(e, t)'
    BY <1>2, <1>4, <1>6 DEF MovieSwapAt
  <2> QED BY <2>1, <2>2
<1>10. MovieDoneAt(t)'
  BY <1>2, <1>4, <1>5, <1>6 DEF MovieDoneAt, Movies!At
<1>11. MovieLateAt(t)'
  <2> SUFFICES ASSUME NEW e \in Movies!Threads, NEW f \in Movies!Threads, NEW x \in Pairs, e # f, x.b = t
      PROVE  /\ Live(x)' /\ Clearing(e, x)' /\ (movieWorker'[e].step = "clean" => movieTemp'[x] = "none") =>
                   ~Preparing(f, x)' /\ ~Confirming(f, x)' /\ Closed(x)'
             /\ Live(x)' /\ movieTemp'[x] = "none" => ~Confirming(f, x)' /\ (Closed(x)' => ~Preparing(f, x)')
             /\ Live(x)' /\ movieTemp'[x] = "none" /\ Movies!P(f)' = x /\ Movies!At(f, "check")' => Closed(x)'
             /\ Swapped(x)' /\ Clearing(e, x)' /\ Swapping(f, t)' => Closed(x)'
    BY DEF MovieLateAt
  <2>1. ASSUME NEW u \in Movies!Threads
        PROVE  /\ Preparing(u, x)' <=> Preparing(u, x)
               /\ Confirming(u, x)' <=> Confirming(u, x)
               /\ Clearing(u, x)' <=> Clearing(u, x)
               /\ Movies!P(u) = x => movieWorker'[u].step = movieWorker[u].step
               /\ Movies!P(u)' = Movies!P(u)
               /\ Movies!P(u) = x => (Movies!At(u, "check")' <=> Movies!At(u, "check"))
               /\ Swapping(u, t)' <=> Swapping(u, t)
               /\ Clearing(u, x) => Movies!P(u) = x
    BY <1>6 DEF Preparing, Confirming, Clearing, Movies!At
  <2>2. /\ Live(x)' <=> Live(x)
        /\ movieTemp'[x] = movieTemp[x]
        /\ Swapped(x)' <=> Swapped(x)
        /\ Closed(x)' <=> Closed(x)
    BY <1>4, <1>7
  <2>3. /\ Live(x) /\ Clearing(e, x) /\ (movieWorker[e].step = "clean" => movieTemp[x] = "none") =>
                   ~Preparing(f, x) /\ ~Confirming(f, x) /\ Closed(x)
        /\ Live(x) /\ movieTemp[x] = "none" => ~Confirming(f, x) /\ (Closed(x) => ~Preparing(f, x))
        /\ Live(x) /\ movieTemp[x] = "none" /\ Movies!P(f) = x /\ Movies!At(f, "check") => Closed(x)
        /\ Swapped(x) /\ Clearing(e, x) /\ Swapping(f, t) => Closed(x)
    BY <1>2 DEF MovieLateAt
  <2> QED BY <2>1, <2>2, <2>3
<1> QED BY <1>8, <1>9, <1>10, <1>11 DEF MovieQuietAt

\* The two names of a pair have changed places.
MovieExchanged(w, d, p) ==
    /\ Movies!P(w) = p /\ movieWorker[w].step = "swap"
    /\ movieWorker'[w].pair = p /\ movieWorker'[w].step = "check" /\ movieWorker'[d] = movieWorker[d]
    /\ UNCHANGED <<movieSource, moviePair, movieJournal>>
    /\ movieTemp[p] # "none" /\ movieAt'[p.b] = movieTemp[p] /\ movieTemp'[p] = movieAt[p.b]
    /\ \A q \in Pairs \ {p} : movieTemp'[q] = movieTemp[q]

\* The link comes to the place of the original.
LEMMA MovieForth ==
  ASSUME MovieQuietInv, NEW w \in Movies!Threads, NEW d \in Movies!Threads \ {w}, NEW p \in Pairs,
         MovieExchanged(w, d, p), InPlace(p.b)
  PROVE  MovieQuietAt(p.b)'
<1> DEFINE t == p.b
<1>1. Movies!Threads = {w, d} /\ w # d /\ t \in Movies!Targets /\ p.a \in Movies!Sources
      /\ p.a \notin {"none", "original", "strange"}
  BY MovieNames, MoviePairs DEF Movies!Threads
<1>2. MovieNamesAt(t) /\ MovieSwapAt(t) /\ MovieLateAt(t) /\ MovieDoneAt(t)
  BY <1>1 DEF MovieQuietInv, MovieQuietAt
<1>3. movieTemp[p] = p.a /\ movieAt'[t] = p.a /\ movieTemp'[p] = "original" /\ ~InPlace(t)'
  BY <1>1, <1>2 DEF MovieNamesAt, MovieExchanged, InPlace
<1>4. ASSUME NEW x \in Pairs, x.b = t
      PROVE  /\ x # p => movieTemp'[x] \in {"none", x.a} /\ ~Beside(x)' /\ ~Swapped(x)'
             /\ x.a \notin {"none", "original", "strange"}
             /\ Live(x)
  BY <1>2, <1>4, MoviePairs DEF MovieNamesAt, MovieExchanged, Beside, Swapped, Live
<1>5. Beside(p)' /\ Swapped(p)'
  BY <1>3 DEF Beside, Swapped
<1>6. ASSUME NEW x \in Pairs, x.b = t, Live(x)'
      PROVE  x # p /\ Movies!P(d) = p /\ Movies!P(d)' = p /\ Movies!At(d, "swap")'
  <2>1. PICK q \in Pairs \ {x} : q.b = x.b /\ Swapped(q)' /\ \E e \in Movies!Threads : Movies!At(e, "swap")' /\ Movies!P(e)' = q
    BY <1>3, <1>6 DEF Live
  <2>2. q = p
    BY <1>4, <1>6, <2>1
  <2>3. PICK e \in Movies!Threads : Movies!At(e, "swap")' /\ Movies!P(e)' = p
    BY <2>1, <2>2
  <2>4. e = d
    BY <1>1, <2>3 DEF MovieExchanged, Movies!At
  <2> QED BY <2>1, <2>2, <2>3, <2>4 DEF MovieExchanged, Movies!P
<1>7. ~(Movies!P(d) = p /\ Movies!At(d, "final"))
  <2>1. Preparing(w, p)
    BY DEF MovieExchanged, Preparing
  <2>2. Live(p)
    BY <1>4
  <2> QED BY <1>1, <1>2, <2>1, <2>2 DEF MovieLateAt, Clearing, Movies!At
<1>8. MovieNamesAt(t)'
  <2> SUFFICES ASSUME NEW x \in Pairs, x.b = t
      PROVE  /\ movieTemp'[x] # "strange"
             /\ \A q \in Pairs \ {x} : q.b = t /\ Beside(x)' => ~Beside(q)'
             /\ \A q \in Pairs \ {x} : q.b = t /\ Swapped(x)' => movieTemp'[q] \in {"none", q.a}
    BY <1>1, <1>3 DEF MovieNamesAt
  <2> QED BY <1>3, <1>4
<1>9. MovieSwapAt(t)'
  <2> SUFFICES ASSUME NEW x \in Pairs, x.b = t
      PROVE  /\ Swapped(x)' => \E e \in Movies!Threads : ~Swapping(e, t)'
             /\ \A e \in Movies!Threads : Movies!P(e)' = x /\ movieWorker'[e].step \in {"look", "swap"} /\ Live(x)' => movieTemp'[x] = x.a
             /\ Beside(x)' /\ ~Swapped(x)' => \A e \in Movies!Threads : ~Swapping(e, t)'
    BY DEF MovieSwapAt
  <2>1. ~Swapping(w, t)' /\ Movies!P(w)' = p
    BY DEF MovieExchanged, Swapping, Movies!At, Movies!P
  <2> QED BY <1>1, <1>4, <1>5, <1>6, <2>1
<1>10. MovieDoneAt(t)'
  <2>1. ASSUME NEW x \in Pairs, x.b = t
        PROVE  /\ \A e \in Movies!Threads : Movies!P(e)' = x => /\ Movies!At(e, "final")' => ~Beside(x)'
                                                                /\ ~Movies!At(e, "commit")'
               /\ moviePair'[x] # "COMPLETED"
    <3>1. ~Past(t)
      BY DEF Past
    <3>2. moviePair'[x] # "COMPLETED"
      BY <1>2, <2>1, <3>1 DEF MovieDoneAt, MovieExchanged
    <3>3. ~Movies!At(w, "final")' /\ ~Movies!At(w, "commit")'
      BY DEF MovieExchanged, Movies!At
    <3>4. Movies!P(d)' = x => ~Movies!At(d, "commit")'
      BY <1>2, <2>1, <3>1 DEF MovieDoneAt, MovieExchanged, Movies!At, Movies!P
    <3>5. Movies!P(d)' = x => (Movies!At(d, "final")' => ~Beside(x)')
      BY <1>4, <1>7, <2>1 DEF MovieExchanged, Movies!At, Movies!P
    <3> QED BY <1>1, <3>2, <3>3, <3>4, <3>5
  <2> QED BY <2>1 DEF MovieDoneAt
<1>11. MovieLateAt(t)'
  <2>1. ASSUME NEW e \in Movies!Threads, NEW f \in Movies!Threads, NEW x \in Pairs, e # f, x.b = t
        PROVE  /\ Live(x)' => ~Clearing(e, x)' /\ ~Confirming(f, x)' /\ ~Preparing(f, x)' /\ Movies!P(f)' # x
               /\ Swapped(x)' => ~(Clearing(e, x)' /\ Swapping(f, t)')
    <3>1. Live(x)' => Movies!P(d)' # x /\ Movies!P(w)' # x
      BY <1>1, <1>6, <2>1 DEF MovieExchanged, Movies!P
    <3>2. ~Clearing(w, x)' /\ ~Swapping(w, t)'
      BY DEF MovieExchanged, Clearing, Swapping, Movies!At
    <3> QED BY <1>1, <2>1, <3>1, <3>2 DEF Clearing, Confirming, Preparing
  <2> QED BY <2>1 DEF MovieLateAt
<1> QED BY <1>8, <1>9, <1>10, <1>11 DEF MovieQuietAt

\* The original comes back to its place.
LEMMA MovieBack ==
  ASSUME MovieQuietInv, NEW w \in Movies!Threads, NEW d \in Movies!Threads \ {w}, NEW p \in Pairs,
         MovieExchanged(w, d, p), Swapped(p)
  PROVE  MovieQuietAt(p.b)'
<1> DEFINE t == p.b
<1>1. Movies!Threads = {w, d} /\ w # d /\ t \in Movies!Targets /\ p.a \in Movies!Sources
      /\ p.a \notin {"none", "original", "strange"}
  BY MovieNames, MoviePairs DEF Movies!Threads
<1>2. MovieNamesAt(t) /\ MovieSwapAt(t) /\ MovieLateAt(t) /\ MovieDoneAt(t)
  BY <1>1 DEF MovieQuietInv, MovieQuietAt
<1>3. movieAt'[t] = "original" /\ movieTemp'[p] = p.a /\ InPlace(t)' /\ Swapping(w, t) /\ Movies!At(w, "swap")
  BY DEF MovieExchanged, Swapped, Beside, InPlace, Swapping, Movies!At, Movies!Tgt
<1>4. ASSUME NEW x \in Pairs, x.b = t
      PROVE  /\ movieTemp'[x] \in {"none", x.a} /\ ~Beside(x)' /\ ~Swapped(x)'
             /\ x.a \notin {"none", "original", "strange"}
             /\ Closed(x)' <=> Closed(x)
  BY <1>2, <1>3, <1>4, MoviePairs DEF MovieNamesAt, MovieExchanged, Beside, Swapped, Closed
<1>5. ASSUME NEW x \in Pairs \ {p}, x.b = t
      PROVE  Live(x) /\ movieTemp'[x] = movieTemp[x]
  <2>1. \E e \in Movies!Threads : Movies!At(e, "swap") /\ Movies!P(e) = p
    BY <1>3 DEF MovieExchanged
  <2> QED BY <1>5, <2>1 DEF Live, MovieExchanged
<1>6. /\ Movies!P(w)' = p /\ Movies!P(d)' = Movies!P(d) /\ movieWorker'[d].step = movieWorker[d].step
      /\ \A x \in Pairs : /\ Preparing(d, x)' <=> Preparing(d, x)
                          /\ Confirming(d, x)' <=> Confirming(d, x)
                          /\ Clearing(d, x)' <=> Clearing(d, x)
                          /\ ~Preparing(w, x)' /\ ~Confirming(w, x)' /\ ~Clearing(w, x)'
                          /\ x # p => ~(Movies!P(w)' = x)
      /\ ~Swapping(w, t)'
  BY DEF MovieExchanged, Movies!P, Preparing, Confirming, Clearing, Swapping, Movies!At
<1>7. MovieNamesAt(t)'
  <2> SUFFICES ASSUME NEW x \in Pairs, x.b = t
      PROVE  movieTemp'[x] \notin {"original", "strange"} /\ movieTemp'[x] \in {"none", x.a} /\ ~Beside(x)'
             /\ ~Swapped(x)'
    BY <1>3 DEF MovieNamesAt
  <2> QED BY <1>4
<1>8. MovieSwapAt(t)'
  <2> SUFFICES ASSUME NEW x \in Pairs, x.b = t
      PROVE  /\ ~Swapped(x)' /\ ~Beside(x)'
             /\ \A e \in Movies!Threads : Movies!P(e)' = x /\ movieWorker'[e].step \in {"look", "swap"} => movieTemp'[x] = x.a
    BY DEF MovieSwapAt
  <2>1. movieWorker'[w].step \notin {"look", "swap"}
    BY DEF MovieExchanged
  <2>2. Movies!P(d)' = x /\ movieWorker'[d].step \in {"look", "swap"} => movieTemp'[x] = x.a
    <3>1. CASE x = p
      BY <1>3, <3>1
    <3>2. CASE x # p
      BY <1>2, <1>5, <1>6, <3>2 DEF MovieSwapAt
    <3> QED BY <3>1, <3>2
  <2> QED BY <1>1, <1>4, <2>1, <2>2
<1>9. MovieDoneAt(t)'
  <2>1. ~Past(t)
    BY DEF Past
  <2>2. ASSUME NEW x \in Pairs, x.b = t
        PROVE  /\ \A e \in Movies!Threads : Movies!P(e)' = x => ~Movies!At(e, "commit")'
               /\ ~Beside(x)'
               /\ moviePair'[x] # "COMPLETED"
    <3>1. moviePair'[x] # "COMPLETED"
      BY <1>2, <2>1, <2>2 DEF MovieDoneAt, MovieExchanged
    <3>2. ~Movies!At(w, "commit")' /\ (Movies!P(d)' = x => ~Movies!At(d, "commit")')
      BY <1>2, <2>1, <2>2 DEF MovieDoneAt, MovieExchanged, Movies!At, Movies!P
    <3> QED BY <1>1, <1>4, <2>2, <3>1, <3>2
  <2> QED BY <2>2 DEF MovieDoneAt
<1>10. MovieLateAt(t)'
  <2> SUFFICES ASSUME NEW e \in Movies!Threads, NEW f \in Movies!Threads, NEW x \in Pairs, e # f, x.b = t
      PROVE  /\ Clearing(e, x)' /\ (movieWorker'[e].step = "clean" => movieTemp'[x] = "none") =>
                   ~Preparing(f, x)' /\ ~Confirming(f, x)' /\ Closed(x)'
             /\ movieTemp'[x] = "none" => ~Confirming(f, x)' /\ (Closed(x)' => ~Preparing(f, x)')
             /\ movieTemp'[x] = "none" /\ Movies!P(f)' = x /\ Movies!At(f, "check")' => Closed(x)'
             /\ ~Swapped(x)'
    BY DEF MovieLateAt
  <2>1. CASE x = p
    <3>1. Clearing(d, p)' /\ movieWorker'[d].step # "clean" => Closed(p)'
      BY <1>1, <1>2, <1>3, <1>4, <1>6 DEF MovieLateAt
    <3> QED BY <1>1, <1>3, <1>4, <1>6, <2>1, <3>1
  <2>2. CASE x # p
    <3>1. /\ Live(x) /\ movieTemp'[x] = movieTemp[x]
          /\ Closed(x)' <=> Closed(x)
          /\ ~Swapped(x)'
      BY <1>4, <1>5, <2>2
    <3>2. /\ Clearing(d, x) /\ (movieWorker[d].step = "clean" => movieTemp[x] = "none") => Closed(x)
          /\ movieTemp[x] = "none" => ~Confirming(d, x) /\ (Closed(x) => ~Preparing(d, x))
          /\ movieTemp[x] = "none" /\ Movies!P(d) = x /\ Movies!At(d, "check") => Closed(x)
      BY <1>1, <1>2, <3>1 DEF MovieLateAt
    <3>3. Movies!At(d, "check")' <=> Movies!At(d, "check")
      BY <1>6 DEF Movies!At
    <3> QED BY <1>1, <1>6, <2>2, <3>1, <3>2, <3>3
  <2> QED BY <2>1, <2>2
<1> QED BY <1>7, <1>8, <1>9, <1>10 DEF MovieQuietAt

\* The original stays at the temporary name of another pair, and nobody is left that
\* would bring it back.
LEMMA MovieLeft ==
  ASSUME MovieQuietInv, NEW w \in Movies!Threads, NEW d \in Movies!Threads \ {w}, NEW p \in Pairs,
         MovieExchanged(w, d, p), NEW q \in Pairs \ {p}, q.b = p.b, Swapped(q)
  PROVE  MovieQuietAt(p.b)'
<1> DEFINE t == p.b
<1>1. Movies!Threads = {w, d} /\ w # d /\ t \in Movies!Targets /\ p.a \in Movies!Sources /\ p.a # q.a
      /\ \A x \in Pairs : x.a \in Movies!Sources /\ x.a \notin {"none", "original", "strange"}
  BY MovieNames, MoviePairs DEF Movies!Threads
<1>2. MovieNamesAt(t) /\ MovieSwapAt(t) /\ MovieLateAt(t) /\ MovieDoneAt(t)
  BY <1>1 DEF MovieQuietInv, MovieQuietAt
<1>3. movieTemp[p] = p.a /\ movieAt[t] = q.a /\ movieAt'[t] = p.a /\ movieTemp'[p] = q.a /\ movieTemp'[q] = "original"
      /\ movieTemp[q] = "original"
  BY <1>1, <1>2 DEF MovieNamesAt, MovieExchanged, Swapped, Beside
<1>4. ~InPlace(t)'
  BY <1>1, <1>3 DEF InPlace
<1>5. ASSUME NEW x \in Pairs, x.b = t
      PROVE  /\ movieTemp'[x] # "strange" /\ ~Swapped(x)'
             /\ Beside(x)' <=> x = q
             /\ Beside(x)' <=> Beside(x)
  <2>1. x # q => movieTemp[x] \notin {"original", "strange"}
    BY <1>1, <1>2, <1>5 DEF MovieNamesAt
  <2>2. x # p => movieTemp'[x] = movieTemp[x]
    BY DEF MovieExchanged
  <2> QED BY <1>1, <1>3, <1>5, <2>1, <2>2 DEF Beside, Swapped
<1>6. ASSUME NEW x \in Pairs, x.b = t PROVE ~Live(x)'
  BY <1>4, <1>5, <1>6 DEF Live
<1>7. ~Swapping(w, t)' /\ ~Swapping(d, t)'
  <2>1. Swapping(w, t)
    BY DEF MovieExchanged, Swapping, Movies!At, Movies!Tgt
  <2>2. ~Swapping(d, t)
    BY <1>1, <1>2, <2>1 DEF MovieSwapAt
  <2> QED BY <2>2 DEF MovieExchanged, Swapping, Movies!At, Movies!Tgt, Movies!P
<1>8. MovieNamesAt(t)'
  BY <1>1, <1>3, <1>4, <1>5 DEF MovieNamesAt
<1>9. MovieSwapAt(t)'
  BY <1>1, <1>5, <1>6, <1>7 DEF MovieSwapAt
<1>10. MovieDoneAt(t)'
  <2>1. ~Past(t)
    BY DEF Past
  <2>2. ASSUME NEW x \in Pairs, x.b = t
        PROVE  /\ \A e \in Movies!Threads : Movies!P(e)' = x => /\ Movies!At(e, "final")' => ~Beside(x)'
                                                                /\ ~Movies!At(e, "commit")'
               /\ moviePair'[x] # "COMPLETED"
    <3>1. moviePair'[x] # "COMPLETED"
      BY <1>2, <2>1, <2>2 DEF MovieDoneAt, MovieExchanged
    <3>2. ~Movies!At(w, "commit")' /\ ~Movies!At(w, "final")'
      BY DEF MovieExchanged, Movies!At
    <3>3. Movies!P(d)' = x => ~Movies!At(d, "commit")' /\ (Movies!At(d, "final")' => ~Beside(x)')
      BY <1>2, <1>5, <2>1, <2>2 DEF MovieDoneAt, MovieExchanged, Movies!At, Movies!P
    <3> QED BY <1>1, <3>1, <3>2, <3>3
  <2> QED BY <2>2 DEF MovieDoneAt
<1>11. MovieLateAt(t)'
  BY <1>5, <1>6 DEF MovieLateAt
<1> QED BY <1>8, <1>9, <1>10, <1>11 DEF MovieQuietAt

LEMMA MovieExchangeStays ==
  ASSUME Movies!TypeOK, MovieQuietInv, NEW w \in Movies!Threads, NEW d \in Movies!Threads \ {w}, NEW p \in Pairs,
         MovieExchanged(w, d, p), \A t \in Movies!Targets \ {p.b} : movieAt'[t] = movieAt[t]
  PROVE  MovieQuietInv'
<1>1. Movies!Threads = {w, d} /\ p.b \in Movies!Targets /\ \A x \in Pairs : x.a \in Movies!Sources /\ x.b \in Movies!Targets
  BY MovieNames DEF Movies!Threads
<1>2. MovieNamesAt(p.b) /\ MovieSwapAt(p.b)
  BY <1>1 DEF MovieQuietInv, MovieQuietAt
<1>3. ASSUME NEW t \in Movies!Targets, t # p.b PROVE MovieQuietAt(t)'
  <2>1. /\ MovieQuietAt(t) /\ movieWorker'[d] = movieWorker[d] /\ movieAt'[t] = movieAt[t]
           /\ UNCHANGED <<moviePair, movieJournal>>
        /\ \A x \in Pairs : x.b = t => movieTemp'[x] = movieTemp[x]
        /\ Movies!P(w).b # t /\ movieWorker'[w].pair = Movies!P(w)
    BY <1>3 DEF MovieQuietInv, MovieExchanged
  <2> QED BY <2>1, MovieElsewhere
<1>4. MovieQuietAt(p.b)'
  <2>1. CASE InPlace(p.b)
    BY <2>1, MovieForth
  <2>2. CASE \E q \in Pairs : q.b = p.b /\ Swapped(q)
    <3>1. PICK q \in Pairs : q.b = p.b /\ Swapped(q)
      BY <2>2
    <3>2. CASE q = p
      BY <3>1, <3>2, MovieBack
    <3>3. CASE q # p
      <4>1. q \in Pairs \ {p}
        BY <3>3
      <4> QED BY <3>1, <4>1, MovieLeft
    <3> QED BY <3>2, <3>3
  <2>3. CASE ~InPlace(p.b) /\ \A q \in Pairs : q.b = p.b => ~Swapped(q)
    <3>1. Swapping(w, p.b)
      BY DEF MovieExchanged, Swapping, Movies!At, Movies!Tgt
    <3>2. \A q \in Pairs : q.b = p.b => movieTemp[q] \notin {"original", "strange"}
      BY <1>2, <2>3, <3>1 DEF MovieSwapAt, MovieNamesAt, Beside
    <3>3. movieAt[p.b] \in Movies!Sources /\ movieAt[p.b] \notin {"original", "strange"}
      BY <1>2, <2>3, MoviePairs DEF MovieNamesAt, InPlace, Movies!Sources
    <3>4. movieTemp[p] \in Movies!Sources
      BY <3>2, MovieTypes DEF MovieExchanged, Movies!Entry
    <3>5. movieAt'[p.b] \in Movies!Sources /\ \A x \in Pairs : x.b = p.b => movieTemp'[x] \notin {"original", "strange"}
      BY <3>2, <3>3, <3>4 DEF MovieExchanged
    <3> QED BY <1>1, <3>5, MovieGone
  <2> QED BY <2>1, <2>2, <2>3
<1> QED BY <1>3, <1>4 DEF MovieQuietInv, MovieExchanged

LEMMA MovieLinkStays ==
  ASSUME Movies!TypeOK, MovieWorkInv, MovieQuietInv, NEW w \in Movies!Threads, NEW d \in Movies!Threads \ {w},
         Movies!LinkTemporary(w)
  PROVE  MovieQuietInv'
<1>1. movieWorker[w].step = "link" /\ UNCHANGED <<movieSource, movieAt>>
  BY DEF Movies!LinkTemporary, Movies!At
<1>2. PICK p \in Pairs : Movies!P(w) = p /\ Movies!Src(w) = p.a /\ Movies!Tgt(w) = p.b
  BY <1>1, MovieStepTypes DEF Movies!Src, Movies!Tgt
<1>3. CASE movieTemp[p] = "none" /\ movieTemp' = [movieTemp EXCEPT ![p] = p.a] /\ Movies!Pass(w, "look")
  <2>1. movieWorker'[w].step = "look" /\ movieWorker'[w].pair = p /\ movieWorker'[d] = movieWorker[d]
        /\ UNCHANGED <<moviePair, movieJournal>>
    BY <1>2, <1>3, MovieGoto DEF Movies!Pass, Movies!Steps
  <2>2. movieTemp'[p] = p.a /\ \A q \in Pairs \ {p} : movieTemp'[q] = movieTemp[q]
    BY <1>3, MovieTypes
  <2> QED BY <1>1, <1>2, <1>3, <2>1, <2>2, MovieRelinked
<1>4. CASE Movies!Fail(w) /\ movieTemp' = movieTemp /\ movieTemp[p] # "none"
  <2>1. MovieTurned(w, d)
    BY <1>1, <1>2, <1>4, MovieFailTurn
  <2> QED BY <2>1, MovieTurn
<1>5. movieSource[p.a] = "intact"
  BY DEF MovieQuietInv
<1> QED BY <1>2, <1>3, <1>4, <1>5 DEF Movies!LinkTemporary, Movies!TypeOK

LEMMA MovieSwapStays ==
  ASSUME Movies!TypeOK, MovieWorkInv, MovieQuietInv, NEW w \in Movies!Threads, NEW d \in Movies!Threads \ {w},
         Movies!Exchange(w)
  PROVE  MovieQuietInv'
<1>1. movieWorker[w].step = "swap" /\ movieSource' = movieSource
  BY DEF Movies!Exchange, Movies!At
<1>2. PICK p \in Pairs : Movies!P(w) = p /\ Movies!Src(w) = p.a /\ Movies!Tgt(w) = p.b /\ p.b \in Movies!Targets
  BY <1>1, MovieStepTypes DEF Movies!Src, Movies!Tgt
<1>3. CASE /\ movieTemp[p] # "none" /\ movieAt' = [movieAt EXCEPT ![p.b] = movieTemp[p]]
           /\ movieTemp' = [movieTemp EXCEPT ![p] = movieAt[p.b]] /\ Movies!Pass(w, "check")
  <2>1. movieWorker'[w].step = "check" /\ movieWorker'[w].pair = p /\ movieWorker'[d] = movieWorker[d]
        /\ UNCHANGED <<moviePair, movieJournal>>
    BY <1>2, <1>3, MovieGoto DEF Movies!Pass, Movies!Steps
  <2>2. /\ movieTemp'[p] = movieAt[p.b] /\ \A q \in Pairs \ {p} : movieTemp'[q] = movieTemp[q]
        /\ movieAt'[p.b] = movieTemp[p] /\ \A t \in Movies!Targets \ {p.b} : movieAt'[t] = movieAt[t]
    BY <1>2, <1>3, MovieTypes
  <2>3. MovieExchanged(w, d, p)
    BY <1>1, <1>2, <1>3, <2>1, <2>2 DEF MovieExchanged
  <2> QED BY <2>2, <2>3, MovieExchangeStays
<1>4. CASE Movies!Fail(w) /\ UNCHANGED <<movieAt, movieTemp>> /\ (movieTemp[p] = "none" \/ movieAt[p.b] = "none")
  <2>1. InPlace(p.b) => Live(p)
    BY DEF Live
  <2>2. Live(p) => movieTemp[p] = p.a
    BY <1>1, <1>2, MovieKnown
  <2>3. InPlace(Movies!Tgt(w)) /\ movieTemp[Movies!P(w)] = "none" => Closed(Movies!P(w))
    BY <1>2, <2>1, <2>2, MoviePairs
  <2>4. MovieTurned(w, d)
    BY <1>1, <1>2, <1>4, <2>3, MovieFailTurn
  <2> QED BY <2>4, MovieTurn
<1> QED BY <1>2, <1>3, <1>4 DEF Movies!Exchange

LEMMA MovieUnlinkStays ==
  ASSUME Movies!TypeOK, MovieWorkInv, MovieQuietInv, NEW w \in Movies!Threads, NEW d \in Movies!Threads \ {w},
         Movies!Unlink(w)
  PROVE  MovieQuietInv'
<1>1. movieWorker[w].step = "unlink" /\ UNCHANGED <<movieSource, movieAt>>
  BY DEF Movies!Unlink, Movies!At
<1>2. PICK p \in Pairs : Movies!P(w) = p /\ Movies!Src(w) = p.a /\ Movies!Tgt(w) = p.b
  BY <1>1, MovieStepTypes DEF Movies!Src, Movies!Tgt
<1>3. CASE movieTemp[p] # "none" /\ movieTemp' = [movieTemp EXCEPT ![p] = "none"] /\ Movies!Pass(w, "final")
  <2>1. movieWorker'[w].step = "final" /\ movieWorker'[w].pair = p /\ movieWorker'[d] = movieWorker[d]
        /\ UNCHANGED <<moviePair, movieJournal>>
    BY <1>2, <1>3, MovieGoto DEF Movies!Pass, Movies!Steps
  <2>2. movieTemp'[p] = "none" /\ \A q \in Pairs \ {p} : movieTemp'[q] = movieTemp[q]
    BY <1>3, MovieTypes
  <2>3. CASE movieTemp[p] # "original"
    BY <1>1, <1>2, <1>3, <2>1, <2>2, <2>3, MovieRelinked
  <2>4. CASE movieTemp[p] = "original"
    <3>1. p.b \in Movies!Targets /\ p.a # "original" /\ MovieNamesAt(p.b)
      BY MovieNames, MoviePairs DEF MovieQuietInv, MovieQuietAt
    <3>2. movieAt'[p.b] \in Movies!Sources
      BY <1>1, <2>4, <3>1 DEF MovieNamesAt, InPlace
    <3>3. \A x \in Pairs : x.b = p.b => movieTemp'[x] \notin {"original", "strange"}
      BY <2>2, <2>4, <3>1 DEF MovieNamesAt, Beside
    <3>4. MovieQuietAt(p.b)'
      BY <3>1, <3>2, <3>3, MovieGone
    <3>5. ASSUME NEW t \in Movies!Targets, t # p.b PROVE MovieQuietAt(t)'
      <4>1. /\ MovieQuietAt(t) /\ movieAt'[t] = movieAt[t]
            /\ \A x \in Pairs : x.b = t => movieTemp'[x] = movieTemp[x]
            /\ Movies!P(w).b # t /\ movieWorker'[w].pair = Movies!P(w)
        BY <1>1, <1>2, <2>1, <2>2, <3>5 DEF MovieQuietInv
      <4> QED BY <2>1, <4>1, MovieElsewhere
    <3> QED BY <1>1, <3>4, <3>5 DEF MovieQuietInv
  <2> QED BY <2>3, <2>4
<1>4. CASE Movies!Fail(w) /\ movieTemp' = movieTemp
  <2>1. Live(p) => Closed(p)
    BY <1>1, <1>2, MovieKnown DEF Clearing
  <2>2. InPlace(p.b) => Live(p)
    BY DEF Live
  <2>3. MovieTurned(w, d)
    BY <1>1, <1>2, <1>4, <2>1, <2>2, MovieFailTurn
  <2> QED BY <2>3, MovieTurn
<1> QED BY <1>2, <1>3, <1>4 DEF Movies!Unlink

LEMMA MovieQuietStays ==
  ASSUME Movies!TypeOK, MovieWorkInv, MovieQuietInv, [Movies!Next]_(Movies!vars), ~Movies!Meddle
  PROVE  MovieQuietInv'
<1>1. \A w \in Movies!Threads : \E d \in Movies!Threads : d \in Movies!Threads \ {w}
  BY DEF Movies!Threads
<1>2. ASSUME NEW w \in Movies!Threads, NEW v \in MovieWorker, v.pair = Movies!NoPair,
             movieWorker' = [movieWorker EXCEPT ![w] = v],
             UNCHANGED <<movieSource, movieAt, movieTemp, moviePair, movieJournal>>
      PROVE  MovieQuietInv'
  <2>1. PICK d \in Movies!Threads \ {w} : TRUE
    BY <1>1
  <2>2. movieWorker'[w] = v /\ movieWorker'[d] = movieWorker[d]
    BY <1>2, MovieRecord
  <2>3. \A p \in Pairs : MovieKept(w, d, p)
    BY <1>2, MovieSameKept
  <2>4. MovieTurned(w, d)
    BY <1>2, <2>2, <2>3, MovieRestTurn
  <2> QED BY <2>4, MovieTurn
<1>3. ASSUME NEW selection \in SUBSET Pairs, Movies!Execute(selection) PROVE MovieQuietInv'
  <2> DEFINE v == [Movies!Idle EXCEPT !.step = "load", !.todo = selection]
  <2>1. v \in MovieWorker /\ v.pair = Movies!NoPair /\ "call" \in Movies!Threads
    BY DEF Movies!Idle, MovieWorker, Movies!Steps, Movies!Threads
  <2> QED BY <1>2, <1>3, <2>1 DEF Movies!Execute, Movies!files
<1>4. ASSUME NEW p \in Pairs, Movies!Resume(p) PROVE MovieQuietInv'
  <2> DEFINE v == [Movies!Idle EXCEPT !.step = "load", !.todo = {p}]
  <2>1. v \in MovieWorker /\ v.pair = Movies!NoPair /\ "driver" \in Movies!Threads
    BY DEF Movies!Idle, MovieWorker, Movies!Steps, Movies!Threads
  <2> QED BY <1>2, <1>4, <2>1 DEF Movies!Resume, Movies!files
<1>5. CASE Movies!Settle \/ UNCHANGED Movies!vars
  BY <1>5 DEF Movies!Settle, Movies!vars, Movies!files, MovieQuietInv, MovieQuietAt, MovieNamesAt, MovieSwapAt,
     MovieLateAt, MovieDoneAt,
     Preparing, Confirming, Clearing, Swapping, InPlace, Beside, Swapped, Past, Live, Closed, Movies!At, Movies!P,
     Movies!Tgt
<1>6. CASE Movies!Stop
  <2>1. /\ UNCHANGED <<movieSource, movieAt, movieTemp, moviePair, movieJournal>>
        /\ \A w \in Movies!Threads : movieWorker'[w] = Movies!Idle /\ movieWorker'[w].step = "idle"
    BY <1>6, MovieNames DEF Movies!Stop, Movies!files
  <2>2. ASSUME NEW t \in Movies!Targets PROVE MovieQuietAt(t)'
    <3>1. MovieNamesAt(t) /\ MovieDoneAt(t)
      BY DEF MovieQuietInv, MovieQuietAt
    <3>2. MovieNamesAt(t)'
      BY <2>1, <3>1 DEF MovieNamesAt, InPlace, Beside, Swapped
    <3>3. MovieSwapAt(t)'
      BY <2>1 DEF MovieSwapAt, Swapping, Movies!At, Movies!Threads
    <3>4. MovieLateAt(t)'
      <4>1. ASSUME NEW w \in Movies!Threads, NEW p \in Pairs
            PROVE  ~Preparing(w, p)' /\ ~Confirming(w, p)' /\ ~Clearing(w, p)' /\ ~Movies!At(w, "check")'
        BY <2>1 DEF Preparing, Confirming, Clearing, Movies!At
      <4> QED BY <4>1 DEF MovieLateAt
    <3>5. MovieDoneAt(t)'
      BY <2>1, <3>1 DEF MovieDoneAt, InPlace, Beside, Swapped, Past, Movies!At
    <3> QED BY <3>2, <3>3, <3>4, <3>5 DEF MovieQuietAt
  <2> QED BY <2>1, <2>2 DEF MovieQuietInv
<1>7. ASSUME NEW w \in Movies!Threads, Movies!Step(w) PROVE MovieQuietInv'
  <2>1. PICK d \in Movies!Threads \ {w} : TRUE
    BY <1>1
  <2>2. CASE Movies!Finish(w)
    <3>1. Movies!Idle \in MovieWorker /\ Movies!Idle.pair = Movies!NoPair
          /\ movieWorker' = [movieWorker EXCEPT ![w] = Movies!Idle]
          /\ UNCHANGED <<movieSource, movieAt, movieTemp, moviePair, movieJournal>>
      BY <2>2, MovieNames DEF Movies!Finish, Movies!files
    <3> QED BY <1>2, <3>1
  <2>3. ASSUME NEW p \in movieWorker[w].todo, Movies!Load(w, p) PROVE MovieQuietInv'
    <3>1. MovieTurned(w, d)
      BY <2>3, MovieLoadTurn
    <3> QED BY <3>1, MovieTurn
  <2>4. CASE \/ Movies!LookAtSource(w) \/ Movies!LookAtTemporary(w) \/ Movies!LookAtTarget(w) \/ Movies!CheckExchange(w)
             \/ Movies!Verify(w) \/ Movies!LookAtOriginal(w) \/ Movies!VerifyAgain(w)
    <3>1. MovieTurned(w, d)
      BY <2>4, MovieLookTurn
    <3> QED BY <3>1, MovieTurn
  <2>5. CASE Movies!MarkExchanged(w) \/ Movies!MarkVerified(w) \/ Movies!Commit(w)
    <3>1. MovieTurned(w, d)
      BY <2>5, MovieMarkTurn
    <3> QED BY <3>1, MovieTurn
  <2>6. CASE Movies!LinkTemporary(w) \/ Movies!Exchange(w) \/ Movies!Unlink(w)
    BY <2>6, MovieLinkStays, MovieSwapStays, MovieUnlinkStays
  <2> QED BY <1>7, <2>2, <2>3, <2>4, <2>5, <2>6 DEF Movies!Step
<1> QED BY <1>3, <1>4, <1>5, <1>6, <1>7 DEF Movies!Next

LEMMA MovieBeginning == Movies!Init => MovieInv
<1> SUFFICES ASSUME Movies!Init PROVE MovieInv
  OBVIOUS
<1>1. Movies!TypeOK
  <2>1. Movies!Idle \in [step : Movies!Steps, todo : SUBSET Pairs, pair : Pairs \cup {Movies!NoPair}]
    BY DEF Movies!Idle, Movies!Steps
  <2>2. movieWorker \in [Movies!Threads -> [step : Movies!Steps, todo : SUBSET Pairs, pair : Pairs \cup {Movies!NoPair}]]
    BY <2>1 DEF Movies!Init
  <2>3. movieBudget \in [calls : 0..MovieCalls, stops : 0..MaxStops, meddling : 0..MovieMeddling]
    BY MovieAssumption DEF Movies!Init
  <2>4. /\ movieSource \in [Movies!Sources -> {"intact", "gone"}] /\ movieAt \in [Movies!Targets -> Movies!Entry]
        /\ movieTemp \in [Pairs -> Movies!Entry]
    BY MovieNames DEF Movies!Init
  <2>5. /\ moviePair \in [Pairs -> {"VERIFIED_DUPLICATE", "COMPLETED", "FAILED"}]
        /\ movieJournal \in [Pairs -> Movies!Active \cup {"NONE", "COMMITTED", "RECOVERY_REQUIRED"}]
    BY DEF Movies!Init
  <2> QED BY <2>2, <2>3, <2>4, <2>5 DEF Movies!Init, Movies!TypeOK
<1>2. \A w \in Movies!Threads : movieWorker[w] = Movies!Idle /\ movieWorker[w].step = "idle" /\ movieWorker[w].pair = Movies!NoPair
  BY MovieNames DEF Movies!Init
<1>3. /\ \A t \in Movies!Targets : movieAt[t] = "original"
      /\ \A p \in Pairs : /\ movieTemp[p] = "none" /\ movieSource[p.a] = "intact" /\ p.b \in Movies!Targets
                          /\ moviePair[p] = "VERIFIED_DUPLICATE" /\ movieJournal[p] = "NONE"
  BY MovieNames DEF Movies!Init
<1>4. MovieWorkInv
  BY <1>2, <1>3 DEF MovieWorkInv, Movies!P, Movies!At
<1>5. ASSUME NEW t \in Movies!Targets PROVE MovieQuietAt(t)
  <2>1. ASSUME NEW p \in Pairs PROVE ~Beside(p) /\ ~Swapped(p)
    BY <1>3 DEF Beside, Swapped
  <2>2. MovieNamesAt(t)
    BY <1>3, <2>1 DEF MovieNamesAt
  <2>3. MovieSwapAt(t) /\ MovieLateAt(t) /\ MovieDoneAt(t)
    BY <1>2, <1>3, <2>1 DEF MovieSwapAt, MovieLateAt, MovieDoneAt, Preparing, Confirming, Clearing, Swapping, Movies!At
  <2> QED BY <2>2, <2>3 DEF MovieQuietAt
<1> QED BY <1>1, <1>3, <1>4, <1>5 DEF MovieInv, MovieQuietInv

LEMMA MovieStep == MovieInv /\ [Movies!Next]_(Movies!vars) => MovieInv'
<1> SUFFICES ASSUME MovieInv, [Movies!Next]_(Movies!vars) PROVE MovieInv'
  OBVIOUS
<1>1. Movies!TypeOK /\ MovieWorkInv
  BY DEF MovieInv
<1>2. Movies!TypeOK' /\ MovieWorkInv'
  BY <1>1, MovieTypesStay, MovieWorkStays
<1>3. ASSUME movieBudget'.meddling = 0 PROVE MovieQuietInv'
  <2>1. movieBudget \in [calls : 0..MovieCalls, stops : 0..MaxStops, meddling : 0..MovieMeddling]
    BY <1>1 DEF Movies!TypeOK
  <2>2. ~Movies!Meddle
    BY <1>3, <2>1, MovieAssumption DEF Movies!Meddle
  <2>3. movieBudget'.meddling = movieBudget.meddling
    BY <2>1, <2>2 DEF Movies!Next, Movies!Execute, Movies!Resume, Movies!Settle, Movies!Stop, Movies!Step,
       Movies!Finish, Movies!Load, Movies!LookAtSource, Movies!LookAtTemporary, Movies!LinkTemporary,
       Movies!LookAtTarget, Movies!Exchange, Movies!CheckExchange, Movies!MarkExchanged, Movies!MarkVerified,
       Movies!Mark, Movies!Verify, Movies!LookAtOriginal, Movies!Unlink,
       Movies!VerifyAgain, Movies!Commit, Movies!vars
  <2> QED BY <1>1, <1>3, <2>2, <2>3, MovieQuietStays DEF MovieInv
<1> QED BY <1>2, <1>3 DEF MovieInv

LEMMA MovieReplaced == MovieInv => Movies!CompletedIsReplaced
<1> SUFFICES ASSUME MovieInv, NEW p \in Pairs, moviePair[p] = "COMPLETED", movieBudget.meddling = 0
             PROVE  movieAt[p.b] \in Movies!Sources /\ movieTemp[p] # "original"
  BY DEF Movies!CompletedIsReplaced
<1>1. MovieNamesAt(p.b) /\ MovieDoneAt(p.b)
  BY MovieNames DEF MovieInv, MovieQuietInv, MovieQuietAt
<1> QED BY <1>1 DEF MovieNamesAt, MovieDoneAt, Past, InPlace, Beside

\* What is reported as replaced holds a link to a file of A and its original is gone,
\* whatever two threads and stops did to the two names of the pairs of one file of B
\* (movie_dedup.py:479).
THEOREM CompletedStaysReplaced == Spec => []CompletedIsReplaced
<1> DEFINE Inv == subject = "movie" => MovieInv
<1>1. Init => Inv
  BY MovieBeginning DEF Init
<1>2. Inv /\ [Next]_vars => Inv'
  <2> SUFFICES ASSUME Inv, [Next]_vars, subject' = "movie" PROVE MovieInv'
    OBVIOUS
  <2>1. subject = "movie" /\ [Movies!Next]_(Movies!vars)
    BY DEF Next, vars, Others, movie, Movies!vars
  <2>2. MovieInv
    BY <2>1
  <2> HIDE DEF Inv
  <2> QED BY <2>1, <2>2, MovieStep
<1>3. Inv => CompletedIsReplaced
  BY MovieReplaced DEF CompletedIsReplaced, MovieInv
<1> QED BY <1>1, <1>2, <1>3, PTL DEF Spec

\* Files that others put, or are repairing, are left to their owners: by the tasks on
\* disk (filesystem_operations.py), and by the replacement of a movie, where the exchange
\* may carry them to the temporary name (safe_filesystem.py:1597).
THEOREM StrangersStayPut == Spec => StrangersStay
<1> DEFINE Inv == /\ subject = "files" => FilesInv
                  /\ subject = "movie" => MovieInv
           Left == filesBudget'.meddling = filesBudget.meddling => OthersStay
           Kept == ~movieCrossed =>
                     /\ \A t \in Movies!Targets : movieAt[t] = "strange" =>
                          movieAt'[t] = "strange" \/ \E p \in Pairs : p.b = t /\ movieTemp'[p] = "strange"
                     /\ \A p \in Pairs : movieTemp[p] = "strange" => "strange" \in {movieTemp'[p], movieAt'[p.b]}
<1>1. Init => Inv
  BY FilesBeginning, MovieBeginning DEF Init
<1>2. Inv /\ [Next]_vars => Inv'
  <2> SUFFICES ASSUME Inv, [Next]_vars PROVE Inv'
    OBVIOUS
  <2>1. subject' = subject
    BY DEF Next, vars, Others
  <2>2. ASSUME subject = "files" PROVE FilesInv'
    <3>1. FilesInv /\ [Filesystem!Next]_(Filesystem!vars)
      BY <2>2 DEF Next, vars, Others, files, Filesystem!vars
    <3> QED BY <3>1, FilesStep
  <2>3. ASSUME subject = "movie" PROVE MovieInv'
    <3>1. MovieInv /\ [Movies!Next]_(Movies!vars)
      BY <2>3 DEF Next, vars, Others, movie, Movies!vars
    <3> QED BY <3>1, MovieStep
  <2> QED BY <2>1, <2>2, <2>3
<1>3. Inv /\ [Next]_vars => [Left]_(Filesystem!vars)
  <2> SUFFICES ASSUME Inv, [Next]_vars, ~UNCHANGED Filesystem!vars,
                      filesBudget'.meddling = filesBudget.meddling
               PROVE  OthersStay
    OBVIOUS
  <2>1. FilesInv /\ [Filesystem!Next]_(Filesystem!vars)
    BY DEF Next, vars, Others, files, Filesystem!vars
  <2> QED BY <2>1, FilesOthersStay
<1>4. Inv /\ [Next]_vars => [Kept]_(Movies!vars)
  <2> SUFFICES ASSUME Inv, [Next]_vars, ~UNCHANGED Movies!vars PROVE Kept
    OBVIOUS
  <2>1. MovieInv /\ [Movies!Next]_(Movies!vars)
    BY DEF Next, vars, Others, movie, Movies!vars
  <2>2. Movies!TypeOK /\ MovieWorkInv
    BY <2>1 DEF MovieInv
  <2> QED BY <2>1, <2>2, MovieStrangersStay
<1>5. Spec => [][Left]_(Filesystem!vars) /\ [][Kept]_(Movies!vars)
  <2> HIDE DEF Inv, Left, Kept
  <2> QED BY <1>1, <1>2, <1>3, <1>4, PTL DEF Spec
<1> QED BY <1>5 DEF StrangersStay, Filesystem!OthersAreLeftAlone, Movies!StrangersStay, OthersStay
=============================================================================
