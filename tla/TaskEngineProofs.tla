--------------------------- MODULE TaskEngineProofs ---------------------------
(***************************************************************************)
(* Proofs about TaskEngine and the calls of DownloaderOperations it makes, *)
(* for any number of calls, faults and acts of a user: a task that seeds   *)
(* was checked, the check is asked for once, torrents of others are left   *)
(* alone, a start writes nothing, and files go after their torrent.        *)
(***************************************************************************)
EXTENDS TaskEngine, TLAPS

\* Labels of a call whose row says that something may be under way.
Running == {"send", "answer", "confirm", "stop", "stopping"}

\* The row and the call of an operation.
CallInv(op) ==
  /\ task[op].pc \in {"find", "look"} => /\ row[op].status = task[op].seen
                                         /\ row[op].status # "RECONCILE_REQUIRED"
  /\ task[op].pc = "find" => row[op].status = "NONE"
  /\ task[op].pc \in Running => row[op].status = "INTENT_RECORDED"
  /\ task[op].pc = "done" => row[op].status \in {"APPLIED", "NOOP"}

\* Nothing but the add is begun before an add of ours came through.
Own ==
  /\ Ours(torrent) => history.added
  /\ Is("add", "APPLIED") \/ At("add", "stop") => history.added
  /\ \A op \in Ops \ {"add"} :
       ~At(op, "idle") \/ ~Is(op, "NONE") => history.added /\ ~Is("add", "NONE")
  /\ ~history.touched

\* A start that is under way was decided for what is still there.
StartInv ==
  /\ ~history.wrote
  /\ ~history.stale /\ (At("start", "send") \/ "start" \in wire) => ~Incomplete(torrent)

\* The intent of the check is recorded, and nothing has checked the torrent since.
Unchecked == ~Is("check", "NONE") /\ ~history.checked /\ ~history.again

\* As long as nothing has checked the torrent it is not more complete than at
\* the intent, and whatever was seen checking is not complete.
CheckInv ==
  /\ history.asked <= 1
  /\ Is("check", "NONE") => ~observed /\ row["check"].after = Absent
  /\ Is("check", "NONE") \/ At("check", "send") => history.asked = 0
  /\ ~Is("check", "NONE") => row["check"].before.owner = "ours"
                             /\ row["check"].before.state = "stopped"
  /\ Unchecked /\ Ours(torrent) /\ torrent.full =>
       /\ row["check"].before.full /\ torrent.state # "checking"
       /\ ~observed /\ ~Checking(row["check"].after)
       /\ At("check", "done") => ~Checking(task["check"].result)
  /\ Unchecked /\ At("check", "done") /\ Complete(task["check"].result) =>
       /\ task["check"].result = row["check"].before
       /\ ~observed /\ ~Checking(row["check"].after)
  /\ stage = "SEEDING" /\ ~skip => ~Is("check", "NONE") /\ ~Unchecked

\* The torrent of ours has gone, and only an add that was sent twice brings one back.
Gone == history.added /\ (~Ours(torrent) \/ history.again)

\* The files go after the torrent, and no stage follows that needs them.
GoneInv ==
  /\ row["remove"].status \in {"NOOP", "APPLIED"} => Gone
  /\ ~links /\ plan.add /\ plan.remove => Gone
  /\ ~links => stage \in {"DONE", "CANCELLED"}
  /\ ~At("remove", "idle") => stage \in {"ROLLING_BACK", "DONE", "CANCELLED"}
  /\ stage = "DONE" => ~Is("add", "NONE") \/ At("add", "idle")
  /\ stage = "DONE" /\ ~links => Gone \/ Is("add", "NONE")

\* The inductive invariant.
EngineInv ==
  /\ TypeOK /\ (\A op \in Ops : CallInv(op)) /\ Own /\ StartInv /\ CheckInv /\ GoneInv

-----------------------------------------------------------------------------
(* What the helpers of a call write. *)

LEMMA RecordTypes ==
  ASSUME TypeOK, NEW op \in Ops
  PROVE  /\ task[op] \in Call /\ row[op] \in Row /\ torrent \in Torrent /\ Absent \in Torrent
         /\ task \in [Ops -> Call] /\ row \in [Ops -> Row] /\ Idle \in Call
BY DEF TypeOK, DownloaderTypeOK, Torrent, Absent, Idle, Call, Pcs, Status

LEMMA TorrentFacts ==
  ASSUME NEW t \in Torrent
  PROVE  /\ t.owner \in {"ours", "theirs", "none"} /\ t.state \in {"stopped", "checking", "active", "none"}
         /\ t.full \in BOOLEAN /\ (t.owner = "none" <=> t = Absent) /\ (t.state = "none" <=> t = Absent)
         /\ t = Absent => ~t.full
         /\ t # Absent => t \in [owner : {"ours", "theirs"}, state : States, full : BOOLEAN]
<1>1. CASE t = Absent
  BY <1>1 DEF Absent
<1>2. CASE t \in [owner : {"ours", "theirs"}, state : States, full : BOOLEAN]
  <2>1. t.owner \in {"ours", "theirs"} /\ t.state \in States /\ t.full \in BOOLEAN
    BY <1>2
  <2>2. t # Absent
    BY <2>1 DEF Absent
  <2> QED BY <1>2, <2>1, <2>2 DEF States
<1> QED BY <1>1, <1>2 DEF Torrent

\* Everything but one operation is left alone.
Only(op) ==
  /\ task' = [o \in Ops |-> task'[o]] /\ row' = [o \in Ops |-> row'[o]]
  /\ \A o \in Ops \ {op} : task'[o] = task[o] /\ row'[o] = row[o]

\* The call ends, and its row asks for a reconciliation or stays as it is.
Ends(op) ==
  /\ task'[op] = Idle
  /\ \/ row'[op] = row[op]
     \/ /\ row[op].status \in {"INTENT_RECORDED", "APPLIED"}
        /\ row'[op] = [row[op] EXCEPT !.status = "RECONCILE_REQUIRED"]

\* The call goes on under its intent.
GoesOn(op, pc) ==
  /\ task'[op] = [task[op] EXCEPT !.pc = pc]
  /\ \/ row'[op] = row[op] /\ row[op].status = "INTENT_RECORDED"
     \/ /\ row[op].status = "NONE"
        /\ row'[op] = [row[op] EXCEPT !.status = "INTENT_RECORDED", !.before = torrent]

\* The call returns the torrent it sees.
Returns(op) ==
  /\ task'[op] = [task[op] EXCEPT !.pc = "done", !.result = torrent]
  /\ \/ row'[op] = row[op] /\ row[op].status \in {"APPLIED", "NOOP"}
     \/ /\ row[op].status = "INTENT_RECORDED"
        /\ row'[op] = [row[op] EXCEPT !.status = "APPLIED", !.after = torrent]
     \/ /\ row[op].status = "NONE" /\ op = "remove"
        /\ row'[op] = [row[op] EXCEPT !.status = "NOOP"]

LEMMA RaiseEffect ==
  ASSUME TypeOK, NEW op \in Ops, Raise(op) PROVE Only(op) /\ Ends(op)
BY RecordTypes DEF Raise, Keep, End, Only, Ends

LEMMA ReconciledEffect ==
  ASSUME TypeOK, NEW op \in Ops, Reconciled(op) PROVE Only(op) /\ Ends(op)
<1>1. task \in [Ops -> Call] /\ row \in [Ops -> Row]
  BY RecordTypes
<1> QED BY <1>1 DEF Reconciled, MarkReconcile, End, Only, Ends

LEMMA ReturnEffect ==
  ASSUME TypeOK, NEW op \in Ops, Keep, Return(op), row[op].status \in {"APPLIED", "NOOP"}
  PROVE  Only(op) /\ Returns(op)
BY RecordTypes DEF Keep, Return, Only, Returns

LEMMA ApplyEffect ==
  ASSUME TypeOK, NEW op \in Ops, Apply(op), row[op].status = "INTENT_RECORDED"
  PROVE  Only(op) /\ Returns(op)
<1>1. task \in [Ops -> Call] /\ row \in [Ops -> Row]
  BY RecordTypes
<1> QED BY <1>1 DEF Apply, Is, Return, Only, Returns

LEMMA NoopEffect ==
  ASSUME TypeOK, Noop, row["remove"].status = "NONE"
  PROVE  Only("remove") /\ Returns("remove")
<1>1. task \in [Ops -> Call] /\ row \in [Ops -> Row] /\ "remove" \in Ops
  BY RecordTypes DEF Ops
<1> QED BY <1>1 DEF Noop, Return, Only, Returns

LEMMA GotoEffect ==
  ASSUME TypeOK, NEW op \in Ops, NEW pc \in Running, Goto(op, pc),
         \/ Keep /\ row[op].status = "INTENT_RECORDED"
         \/ Intent(op) /\ row[op].status = "NONE"
  PROVE  Only(op) /\ GoesOn(op, pc)
<1>1. task \in [Ops -> Call] /\ row \in [Ops -> Row]
  BY RecordTypes
<1> QED BY <1>1 DEF Goto, Keep, Intent, Only, GoesOn

-----------------------------------------------------------------------------
(* The step of a call that has begun. *)

\* What such a step leaves alone, and what it may do.
Frame(op) ==
  /\ Only(op) /\ ~At(op, "idle")
  /\ UNCHANGED <<kind, torrent, stage, observed, skip, links, plan>>
  /\ wire' \subseteq Ops \cup {"stop"} /\ answered' \in [Ops -> {"none", "done", "refused"}]
  /\ history' \in History /\ ~history'.touched
  /\ history'.added = history.added /\ history'.again = history.again
  /\ history'.checked = history.checked \/ (op = "check" /\ Is("check", "NONE"))
  /\ \/ history'.asked = history.asked
     \/ /\ op = "check" /\ At("check", "send") /\ task'["check"].pc = "answer"
        /\ history'.asked = history.asked + 1

Outcome(op) ==
  \/ Ends(op)
  \/ \E pc \in Running :
       /\ GoesOn(op, pc)
       /\ op = "add" /\ pc = "stop" => history.added
       /\ op = "check" /\ Is("check", "NONE") => Ours(torrent) /\ torrent.state = "stopped"
       /\ op = "check" /\ pc = "send" => Is("check", "NONE")
  \/ /\ Returns(op)
     /\ op # "remove" => Ours(torrent)
     /\ op = "remove" => torrent = Absent \/ Is("remove", "NOOP")

LEMMA OutcomeTypes ==
  ASSUME TypeOK, NEW op \in Ops, Only(op), Outcome(op)
  PROVE  /\ task' \in [Ops -> Call] /\ row' \in [Ops -> Row]
         /\ op # "remove" /\ row'[op].status = "APPLIED" => row'[op].after # Absent
<1>1. /\ task[op] \in Call /\ row[op] \in Row /\ torrent \in Torrent /\ Idle \in Call
      /\ task \in [Ops -> Call] /\ row \in [Ops -> Row]
  BY RecordTypes
<1>2. op # "remove" /\ row[op].status = "APPLIED" => row[op].after # Absent
  BY DEF TypeOK, DownloaderTypeOK, Is
<1>3. CASE Ends(op)
  <2>1. task'[op] \in Call /\ row'[op] \in Row
    BY <1>1, <1>3 DEF Ends, Row, Status
  <2>2. row'[op].status = "APPLIED" => row'[op] = row[op]
    BY <1>1, <1>3 DEF Ends, Row
  <2> QED BY <1>1, <1>2, <2>1, <2>2 DEF Only
<1>4. CASE \E pc \in Running : GoesOn(op, pc)
  <2>1. task'[op] \in Call /\ row'[op] \in Row
    BY <1>1, <1>4 DEF GoesOn, Row, Call, Running, Pcs, Status
  <2>2. row'[op].status # "APPLIED"
    BY <1>1, <1>4 DEF GoesOn, Row
  <2> QED BY <1>1, <2>1, <2>2 DEF Only
<1>5. CASE Returns(op) /\ (op # "remove" => Ours(torrent))
  <2>1. task'[op] \in Call /\ row'[op] \in Row
    BY <1>1, <1>5 DEF Returns, Row, Call, Pcs, Status
  <2>2. op # "remove" => torrent # Absent
    BY <1>5 DEF Ours, Absent
  <2>3. op # "remove" => row'[op] = row[op] \/ row'[op].after = torrent
    BY <1>1, <1>5 DEF Returns, Row
  <2> QED BY <1>1, <1>2, <2>1, <2>2, <2>3 DEF Only
<1> QED BY <1>3, <1>4, <1>5 DEF Outcome

\* The fields of the call and the row that the step writes.
LEMMA OutcomeFields ==
  ASSUME TypeOK, NEW op \in Ops, Outcome(op)
  PROVE  \/ /\ Ends(op) /\ task'[op].pc = "idle" /\ task'[op].result = Absent
            /\ row'[op].before = row[op].before /\ row'[op].after = row[op].after
            /\ \/ row'[op].status = row[op].status
               \/ /\ row[op].status \in {"INTENT_RECORDED", "APPLIED"}
                  /\ row'[op].status = "RECONCILE_REQUIRED"
         \/ /\ task'[op].pc \in Running /\ row'[op].status = "INTENT_RECORDED"
            /\ row'[op].after = row[op].after
            /\ \/ row[op].status = "INTENT_RECORDED" /\ row'[op].before = row[op].before
               \/ row[op].status = "NONE" /\ row'[op].before = torrent
            /\ op = "add" /\ task'[op].pc = "stop" => history.added
            /\ op = "check" /\ Is("check", "NONE") => Ours(torrent) /\ torrent.state = "stopped"
            /\ op = "check" /\ task'[op].pc = "send" => Is("check", "NONE")
         \/ /\ task'[op].pc = "done" /\ task'[op].result = torrent
            /\ row'[op].before = row[op].before
            /\ \/ row'[op].status = row[op].status /\ row'[op].after = row[op].after
               \/ /\ row[op].status = "INTENT_RECORDED"
                  /\ row'[op].status = "APPLIED" /\ row'[op].after = torrent
               \/ /\ row[op].status = "NONE" /\ op = "remove"
                  /\ row'[op].status = "NOOP" /\ row'[op].after = row[op].after
            /\ row'[op].status \in {"APPLIED", "NOOP"}
            /\ op # "remove" => Ours(torrent)
            /\ op = "remove" => torrent = Absent \/ Is("remove", "NOOP")
<1>1. task[op] \in Call /\ row[op] \in Row
  BY RecordTypes
<1>2. CASE Ends(op)
  BY <1>1, <1>2 DEF Ends, Idle, Row
<1>3. ASSUME NEW pc \in Running, GoesOn(op, pc)
      PROVE  /\ task'[op].pc = pc /\ row'[op].status = "INTENT_RECORDED"
             /\ row'[op].after = row[op].after
             /\ \/ row[op].status = "INTENT_RECORDED" /\ row'[op].before = row[op].before
                \/ row[op].status = "NONE" /\ row'[op].before = torrent
  BY <1>1, <1>3 DEF GoesOn, Row, Call
<1>4. ASSUME Returns(op)
      PROVE  /\ task'[op].pc = "done" /\ task'[op].result = torrent
             /\ row'[op].before = row[op].before
             /\ \/ row'[op].status = row[op].status /\ row'[op].after = row[op].after
                \/ /\ row[op].status = "INTENT_RECORDED"
                   /\ row'[op].status = "APPLIED" /\ row'[op].after = torrent
                \/ /\ row[op].status = "NONE" /\ op = "remove"
                   /\ row'[op].status = "NOOP" /\ row'[op].after = row[op].after
             /\ row'[op].status \in {"APPLIED", "NOOP"}
  BY <1>1, <1>4 DEF Returns, Row, Call
<1> QED BY <1>2, <1>3, <1>4 DEF Outcome

LEMMA CallOwn ==
  ASSUME EngineInv, NEW op \in Ops, Frame(op), Outcome(op)
  PROVE  Own' /\ \A o \in Ops : CallInv(o)'
<1>1. TypeOK /\ Own /\ \A o \in Ops : CallInv(o)
  BY DEF EngineInv
<1>2. \A o \in Ops : CallInv(o)'
  BY <1>1, OutcomeFields DEF CallInv, Frame, Only, Running, At
<1>3. \A o \in Ops \ {op} : task'[o] = task[o] /\ row'[o] = row[o]
  BY DEF Frame, Only
<1>4. UNCHANGED <<torrent, history.added>> /\ ~history'.touched /\ task[op].pc # "idle"
  BY DEF Frame, At
<1>5. CASE op = "add"
  <2>1. row'["add"].status = "APPLIED" \/ task'["add"].pc = "stop" => history.added
    BY <1>1, <1>5, OutcomeFields DEF Own, Is, At, Running
  <2>2. row'["add"].status = "NONE" => row["add"].status = "NONE"
    BY <1>1, <1>5, OutcomeFields
  <2> QED BY <1>1, <1>2, <1>3, <1>4, <1>5, <2>1, <2>2 DEF Own, Is, At, Ours
<1>6. CASE op # "add"
  <2>1. history.added /\ row["add"].status # "NONE"
    BY <1>1, <1>4, <1>6 DEF Own, At, Is
  <2> QED BY <1>1, <1>2, <1>3, <1>4, <1>6, <2>1 DEF Own, Is, At, Ours, Ops
<1> QED BY <1>5, <1>6

LEMMA CallGone ==
  ASSUME EngineInv, NEW op \in Ops, Frame(op), Outcome(op) PROVE GoneInv'
<1>1. TypeOK /\ Own /\ GoneInv /\ op \in {"add", "check", "start", "remove"}
  BY DEF EngineInv, Ops
<1>2. \A o \in Ops \ {op} : task'[o] = task[o] /\ row'[o] = row[o]
  BY DEF Frame, Only
<1>3. UNCHANGED <<torrent, stage, links, plan, history.added, history.again>> /\ task[op].pc # "idle"
  BY DEF Frame, At
<1>4. Gone' = Gone
  BY <1>3 DEF Gone, Ours
<1>5. op = "remove" /\ row'["remove"].status \in {"NOOP", "APPLIED"} => Gone
  <2>1. SUFFICES ASSUME op = "remove", row'["remove"].status \in {"NOOP", "APPLIED"} PROVE Gone
    OBVIOUS
  <2>2. history.added
    BY <1>1, <1>3, <2>1 DEF Own, At, Ops
  <2>3. row["remove"].status \in {"NOOP", "APPLIED"} \/ torrent = Absent
    BY <1>1, <2>1, OutcomeFields DEF Is
  <2> QED BY <1>1, <2>2, <2>3 DEF GoneInv, Gone, Ours, Absent
<1>6. op = "add" => (row["add"].status # "NONE" => row'["add"].status # "NONE")
  BY <1>1, OutcomeFields
<1> QED BY <1>1, <1>2, <1>3, <1>4, <1>5, <1>6 DEF GoneInv, At, Is, Ops

LEMMA CallCheck ==
  ASSUME EngineInv, NEW op \in Ops, Frame(op), Outcome(op) PROVE CheckInv'
<1>1. /\ TypeOK /\ CheckInv /\ history.asked \in Nat /\ torrent \in Torrent
      /\ CallInv("check") /\ op \in {"add", "check", "start", "remove"} /\ "check" \in Ops
  BY DEF EngineInv, Ops, TypeOK, DownloaderTypeOK, History
<1>2. \A o \in Ops \ {op} : task'[o] = task[o] /\ row'[o] = row[o]
  BY DEF Frame, Only
<1>3. UNCHANGED <<torrent, observed, skip, stage, history.again>> /\ task[op].pc # "idle"
  BY DEF Frame, At
<1>4. CASE op # "check"
  <2>1. UNCHANGED <<history.checked, history.asked, row["check"], task["check"]>>
    BY <1>1, <1>2, <1>4 DEF Frame
  <2> QED BY <1>1, <1>3, <2>1 DEF CheckInv, Unchecked, Is, At, Ours, Complete, Checking
<1>5. CASE op = "check"
  <2> DEFINE r == row["check"]  t == task["check"]
  <2>1. /\ history'.checked = history.checked \/ r.status = "NONE"
        /\ \/ history'.asked = history.asked
           \/ t.pc = "send" /\ t'.pc = "answer" /\ history'.asked = history.asked + 1
    BY <1>5 DEF Frame, Is, At
  <2>2. \/ /\ t'.pc = "idle" /\ r'.before = r.before /\ r'.after = r.after
           /\ \/ r'.status = r.status
              \/ /\ r.status \in {"INTENT_RECORDED", "APPLIED"}
                 /\ r'.status = "RECONCILE_REQUIRED"
        \/ /\ t'.pc \in Running /\ r'.status = "INTENT_RECORDED" /\ r'.after = r.after
           /\ \/ r.status = "INTENT_RECORDED" /\ r'.before = r.before
              \/ r.status = "NONE" /\ r'.before = torrent /\ Ours(torrent) /\ torrent.state = "stopped"
           /\ t'.pc = "send" => r.status = "NONE"
        \/ /\ t'.pc = "done" /\ t'.result = torrent /\ Ours(torrent) /\ r'.before = r.before
           /\ \/ r'.status = r.status /\ r'.after = r.after
              \/ /\ r.status = "INTENT_RECORDED"
                 /\ r'.status = "APPLIED" /\ r'.after = torrent
           /\ r'.status \in {"APPLIED", "NOOP"}
    BY <1>1, <1>5, OutcomeFields DEF Is
  <2>3. t.pc = "send" => r.status = "INTENT_RECORDED"
    BY <1>1 DEF CallInv, Running
  <2>4. /\ history.asked <= 1
        /\ r.status = "NONE" => ~observed /\ r.after = Absent
        /\ r.status = "NONE" \/ t.pc = "send" => history.asked = 0
        /\ r.status # "NONE" => r.before.owner = "ours" /\ r.before.state = "stopped"
        /\ r.status # "NONE" /\ ~history.checked /\ ~history.again /\ Ours(torrent) /\ torrent.full =>
             /\ r.before.full /\ torrent.state # "checking" /\ ~observed /\ ~Checking(r.after)
        /\ stage = "SEEDING" /\ ~skip => r.status # "NONE" /\ (history.checked \/ history.again)
    BY <1>1 DEF CheckInv, Unchecked, Is, At
  <2>5. r \in Row /\ Absent.state # "checking"
    BY <1>1, RecordTypes DEF Absent
  <2>6. history'.asked <= 1 /\ (r'.status = "NONE" \/ t'.pc = "send" => history'.asked = 0)
    BY <1>1, <2>1, <2>2, <2>3, <2>4 DEF Running
  <2>7. r'.status = "NONE" => ~observed /\ r'.after = Absent
    BY <2>2, <2>4, <2>5
  <2>8. r'.status # "NONE" => r'.before.owner = "ours" /\ r'.before.state = "stopped"
    BY <2>2, <2>4 DEF Ours
  <2>9. r'.status # "NONE" /\ ~history'.checked /\ ~history'.again /\ Ours(torrent) /\ torrent.full =>
             /\ r'.before.full /\ torrent.state # "checking" /\ ~observed /\ ~Checking(r'.after)
    BY <1>3, <2>1, <2>2, <2>4, <2>5 DEF Checking
  <2>10. r'.status # "NONE" /\ ~history'.checked /\ ~history'.again /\ t'.pc = "done"
         /\ Complete(t'.result) => t'.result = r'.before /\ ~observed /\ ~Checking(r'.after)
    <3>1. SUFFICES ASSUME r'.status # "NONE", ~history'.checked, ~history'.again, t'.pc = "done",
                          Complete(t'.result)
                   PROVE  t'.result = r'.before /\ ~observed /\ ~Checking(r'.after)
      OBVIOUS
    <3>2. t'.result = torrent /\ Ours(torrent) /\ torrent.state = "stopped" /\ torrent.full
      BY <2>2, <3>1 DEF Complete, Running
    <3>3. r'.before.full /\ ~observed /\ ~Checking(r'.after)
      BY <2>9, <3>1, <3>2
    <3>4. r'.before.owner = "ours" /\ r'.before.state = "stopped" /\ r'.before = r.before
      BY <2>2, <2>8, <3>1 DEF Running
    <3>5. r.before \in Torrent
      BY <2>5 DEF Row
    <3>6. torrent = r'.before
      <4>1. /\ torrent \in [owner : {"ours", "theirs"}, state : States, full : BOOLEAN]
            /\ r.before \in [owner : {"ours", "theirs"}, state : States, full : BOOLEAN]
        BY <1>1, <3>2, <3>4, <3>5, TorrentFacts DEF Ours
      <4> QED BY <3>2, <3>3, <3>4, <4>1 DEF Ours
    <3> QED BY <3>2, <3>3, <3>6
  <2>11. stage = "SEEDING" /\ ~skip => r'.status # "NONE" /\ (history'.checked \/ history'.again)
    BY <1>3, <2>1, <2>2, <2>4
  <2>12. r'.status # "NONE" /\ ~history'.checked /\ ~history'.again /\ Ours(torrent)
         /\ torrent.full /\ t'.pc = "done" => ~Checking(t'.result)
    BY <2>2, <2>9 DEF Checking, Running
  <2> QED BY <1>3, <2>6, <2>7, <2>8, <2>9, <2>10, <2>11, <2>12 DEF CheckInv, Unchecked, Is, At,
             Ours, Complete, Checking
<1> QED BY <1>4, <1>5

\* Every step of a call that has begun keeps the invariant.
LEMMA CallSound ==
  ASSUME EngineInv, NEW op \in Ops, Frame(op), Outcome(op), StartInv'
  PROVE  EngineInv'
<1>1. TypeOK /\ Only(op)
  BY DEF EngineInv, Frame
<1>2. /\ task' \in [Ops -> Call] /\ row' \in [Ops -> Row]
      /\ op # "remove" /\ row'[op].status = "APPLIED" => row'[op].after # Absent
  BY <1>1, OutcomeTypes
<1>3. \A o \in Ops \ {"remove"} : row'[o].status = "APPLIED" => row'[o].after # Absent
  BY <1>1, <1>2 DEF Only, TypeOK, DownloaderTypeOK, Is
<1>4. TypeOK'
  BY <1>1, <1>2, <1>3 DEF Frame, TypeOK, DownloaderTypeOK, Is
<1> QED BY <1>4, CallOwn, CallCheck, CallGone DEF EngineInv

\* A step that sends nothing and decides nothing.
LEMMA QuietCall ==
  ASSUME EngineInv, NEW op \in Ops, Only(op), ~At(op, "idle"), Outcome(op),
         UNCHANGED Outside, UNCHANGED engineVars, op = "start" => task'["start"].pc # "send"
  PROVE  EngineInv'
<1>1. Frame(op)
  BY DEF Frame, Outside, engineVars, EngineInv, TypeOK, DownloaderTypeOK, Own
<1>2. StartInv'
  <2>1. task'["start"].pc = "send" => task["start"].pc = "send"
    BY DEF Only, Ops
  <2> QED BY <2>1 DEF StartInv, EngineInv, Outside, At, Incomplete
<1> QED BY <1>1, <1>2, CallSound

\* What a call at each label may rely on.
LEMMA CallFacts ==
  ASSUME EngineInv, NEW op \in Ops
  PROVE  /\ TypeOK /\ Own /\ row[op].status \in Status
         /\ At(op, "look") => row[op].status = task[op].seen
                              /\ row[op].status # "RECONCILE_REQUIRED"
         /\ task[op].pc \in Running => row[op].status = "INTENT_RECORDED"
BY RecordTypes DEF EngineInv, CallInv, At, Row

LEMMA AddLookSound ==
  ASSUME EngineInv, AddLook, UNCHANGED engineVars PROVE EngineInv'
<1> DEFINE op == "add"
<1>1. /\ op \in Ops /\ ~At(op, "idle") /\ UNCHANGED Outside /\ TypeOK
      /\ row[op].status = task[op].seen
  BY CallFacts DEF AddLook, At, Ops
<1>2. CASE Raise(op) \/ Reconciled(op)
  BY <1>1, <1>2, RaiseEffect, ReconciledEffect, QuietCall DEF Outcome
<1>3. CASE Seen(op, "APPLIED") /\ Ours(torrent) /\ Keep /\ Return(op)
  BY <1>1, <1>3, ReturnEffect, QuietCall DEF Outcome, Seen
<1>4. CASE Seen(op, "NONE") /\ Intent(op) /\ Goto(op, "send")
  BY <1>1, <1>4, GotoEffect, QuietCall DEF Outcome, Seen, Running
<1>5. CASE Seen(op, "INTENT_RECORDED") /\ Keep /\ Goto(op, IF torrent = Absent THEN "send" ELSE "confirm")
  BY <1>1, <1>5, GotoEffect, QuietCall DEF Outcome, Seen, Running
<1> QED BY <1>2, <1>3, <1>4, <1>5 DEF AddLook

LEMMA AddAnsweredSound ==
  ASSUME EngineInv, AddAnswered, UNCHANGED engineVars PROVE EngineInv'
<1> DEFINE op == "add"
<1>1. /\ op \in Ops /\ ~At(op, "idle") /\ UNCHANGED Outside /\ TypeOK
      /\ row[op].status = "INTENT_RECORDED"
  BY CallFacts DEF AddAnswered, At, Ops, Running
<1>2. CASE Raise(op) \/ Reconciled(op)
  BY <1>1, <1>2, RaiseEffect, ReconciledEffect, QuietCall DEF Outcome
<1>3. CASE Keep /\ Goto(op, "confirm")
  BY <1>1, <1>3, GotoEffect, QuietCall DEF Outcome, Running
<1> QED BY <1>2, <1>3 DEF AddAnswered

LEMMA AddConfirmSound ==
  ASSUME EngineInv, AddConfirm, UNCHANGED engineVars PROVE EngineInv'
<1> DEFINE op == "add"
<1>1. /\ op \in Ops /\ ~At(op, "idle") /\ UNCHANGED Outside /\ TypeOK /\ Own
      /\ row[op].status = "INTENT_RECORDED"
  BY CallFacts DEF AddConfirm, At, Ops, Running
<1>2. CASE Raise(op) \/ Reconciled(op)
  BY <1>1, <1>2, RaiseEffect, ReconciledEffect, QuietCall DEF Outcome
<1>3. CASE Ours(torrent) /\ Apply(op)
  BY <1>1, <1>3, ApplyEffect, QuietCall DEF Outcome
<1>4. CASE Ours(torrent) /\ Keep /\ Goto(op, "stop")
  BY <1>1, <1>4, GotoEffect, QuietCall DEF Outcome, Running, Own
<1> QED BY <1>2, <1>3, <1>4 DEF AddConfirm

LEMMA AddStoppedSound ==
  ASSUME EngineInv, AddStopped, UNCHANGED engineVars PROVE EngineInv'
<1> DEFINE op == "add"
<1>1. /\ op \in Ops /\ ~At(op, "idle") /\ UNCHANGED Outside /\ TypeOK
      /\ row[op].status = "INTENT_RECORDED"
  BY CallFacts DEF AddStopped, At, Ops, Running
<1>2. CASE Reconciled(op)
  BY <1>1, <1>2, ReconciledEffect, QuietCall DEF Outcome
<1>3. CASE Ours(torrent) /\ Apply(op)
  BY <1>1, <1>3, ApplyEffect, QuietCall DEF Outcome
<1> QED BY <1>2, <1>3 DEF AddStopped

LEMMA CheckAnsweredSound ==
  ASSUME EngineInv, CheckAnswered, UNCHANGED engineVars PROVE EngineInv'
<1> DEFINE op == "check"
<1>1. /\ op \in Ops /\ ~At(op, "idle") /\ UNCHANGED Outside /\ TypeOK
      /\ row[op].status = "INTENT_RECORDED"
  BY CallFacts DEF CheckAnswered, At, Ops, Running
<1>2. Only(op) /\ GoesOn(op, "confirm")
  BY <1>1, GotoEffect DEF CheckAnswered, Running
<1> QED BY <1>1, <1>2, QuietCall DEF Outcome, Running, Is

LEMMA CheckConfirmSound ==
  ASSUME EngineInv, CheckConfirm, UNCHANGED engineVars PROVE EngineInv'
<1> DEFINE op == "check"
<1>1. /\ op \in Ops /\ ~At(op, "idle") /\ UNCHANGED Outside /\ TypeOK
      /\ row[op].status = "INTENT_RECORDED"
  BY CallFacts DEF CheckConfirm, At, Ops, Running
<1>2. CASE Reconciled(op)
  BY <1>1, <1>2, ReconciledEffect, QuietCall DEF Outcome
<1>3. CASE Ours(torrent) /\ Apply(op)
  BY <1>1, <1>3, ApplyEffect, QuietCall DEF Outcome
<1> QED BY <1>2, <1>3 DEF CheckConfirm

LEMMA StartAnsweredSound ==
  ASSUME EngineInv, StartAnswered, UNCHANGED engineVars PROVE EngineInv'
<1> DEFINE op == "start"
<1>1. /\ op \in Ops /\ ~At(op, "idle") /\ UNCHANGED Outside /\ TypeOK
      /\ row[op].status = "INTENT_RECORDED" /\ task[op] \in Call
  BY CallFacts, RecordTypes DEF StartAnswered, At, Ops, Running
<1>2. Only(op) /\ GoesOn(op, "confirm")
  BY <1>1, GotoEffect DEF StartAnswered, Running
<1>3. task'[op].pc # "send"
  BY <1>1, <1>2 DEF GoesOn, Call
<1> QED BY <1>1, <1>2, <1>3, QuietCall DEF Outcome, Running

LEMMA StartConfirmSound ==
  ASSUME EngineInv, StartConfirm, UNCHANGED engineVars PROVE EngineInv'
<1> DEFINE op == "start"
<1>1. /\ op \in Ops /\ ~At(op, "idle") /\ UNCHANGED Outside /\ TypeOK
      /\ row[op].status = "INTENT_RECORDED" /\ task[op] \in Call
  BY CallFacts, RecordTypes DEF StartConfirm, At, Ops, Running
<1>2. CASE Raise(op) \/ Reconciled(op)
  <2>1. Only(op) /\ Ends(op)
    BY <1>1, <1>2, RaiseEffect, ReconciledEffect
  <2> QED BY <1>1, <2>1, QuietCall DEF Outcome, Ends, Idle
<1>3. CASE Ours(torrent) /\ Apply(op)
  <2>1. Only(op) /\ Returns(op)
    BY <1>1, <1>3, ApplyEffect
  <2>2. task'[op].pc # "send"
    BY <1>1, <2>1 DEF Returns, Call
  <2> QED BY <1>1, <1>3, <2>1, <2>2, QuietCall DEF Outcome
<1> QED BY <1>2, <1>3 DEF StartConfirm

LEMMA RemoveLookSound ==
  ASSUME EngineInv, RemoveLook, UNCHANGED engineVars PROVE EngineInv'
<1> DEFINE op == "remove"
<1>1. /\ op \in Ops /\ ~At(op, "idle") /\ UNCHANGED Outside /\ TypeOK
      /\ row[op].status = task[op].seen
  BY CallFacts DEF RemoveLook, At, Ops
<1>2. CASE Reconciled(op)
  BY <1>1, <1>2, ReconciledEffect, QuietCall DEF Outcome
<1>3. CASE /\ Seen(op, "NOOP") \/ (Seen(op, "APPLIED") /\ torrent = Absent)
           /\ Keep /\ Return(op)
  BY <1>1, <1>3, ReturnEffect, QuietCall DEF Outcome, Seen, Is
<1>4. CASE Seen(op, "INTENT_RECORDED") /\ torrent = Absent /\ Apply(op)
  BY <1>1, <1>4, ApplyEffect, QuietCall DEF Outcome, Seen
<1>5. CASE Seen(op, "NONE") /\ torrent = Absent /\ Noop
  BY <1>1, <1>5, NoopEffect, QuietCall DEF Outcome, Seen
<1>6. CASE /\ task[op].seen \in {"NONE", "INTENT_RECORDED"}
           /\ IF Seen(op, "NONE") THEN Intent(op) ELSE Keep
           /\ Goto(op, IF torrent.state = "stopped" THEN "send" ELSE "stop")
  <2>1. \E pc \in {"send", "stop"} : Only(op) /\ GoesOn(op, pc)
    BY <1>1, <1>6, GotoEffect DEF Seen, Running
  <2> QED BY <1>1, <2>1, QuietCall DEF Outcome, Running
<1> QED BY <1>2, <1>3, <1>4, <1>5, <1>6 DEF RemoveLook

LEMMA RemoveStoppedSound ==
  ASSUME EngineInv, RemoveStopped, UNCHANGED engineVars PROVE EngineInv'
<1> DEFINE op == "remove"
<1>1. /\ op \in Ops /\ ~At(op, "idle") /\ UNCHANGED Outside /\ TypeOK
      /\ row[op].status = "INTENT_RECORDED"
  BY CallFacts DEF RemoveStopped, At, Ops, Running
<1>2. CASE Raise(op) \/ Reconciled(op)
  BY <1>1, <1>2, RaiseEffect, ReconciledEffect, QuietCall DEF Outcome
<1>3. CASE torrent = Absent /\ Apply(op)
  BY <1>1, <1>3, ApplyEffect, QuietCall DEF Outcome
<1>4. CASE Keep /\ Goto(op, "send")
  BY <1>1, <1>4, GotoEffect, QuietCall DEF Outcome, Running
<1> QED BY <1>2, <1>3, <1>4 DEF RemoveStopped

\* Asking whether the torrent is gone, answered or not.
LEMMA AskGoneOutcome ==
  ASSUME EngineInv, AskGone
  PROVE  Only("remove") /\ Outcome("remove") /\ ~At("remove", "idle")
<1> DEFINE op == "remove"
<1>1. op \in Ops /\ ~At(op, "idle") /\ TypeOK /\ row[op].status = "INTENT_RECORDED"
  BY CallFacts DEF AskGone, At, Ops, Running
<1>2. CASE Raise(op) \/ Reconciled(op)
  BY <1>1, <1>2, RaiseEffect, ReconciledEffect DEF Outcome
<1>3. CASE torrent = Absent /\ Apply(op)
  BY <1>1, <1>3, ApplyEffect DEF Outcome
<1> QED BY <1>2, <1>3 DEF AskGone

LEMMA RemoveAnsweredSound ==
  ASSUME EngineInv, RemoveAnswered, UNCHANGED engineVars PROVE EngineInv'
BY AskGoneOutcome, QuietCall DEF RemoveAnswered, Ops

LEMMA CheckLookSound ==
  ASSUME EngineInv, CheckLook, UNCHANGED engineVars PROVE EngineInv'
<1> DEFINE op == "check"
<1>1. /\ op \in Ops /\ ~At(op, "idle") /\ TypeOK /\ Own /\ row[op].status = task[op].seen
      /\ UNCHANGED <<kind, torrent, wire, answered, budget>> /\ history \in History
  BY CallFacts DEF CheckLook, At, Ops, TypeOK, DownloaderTypeOK
<1>2. /\ history' \in History
      /\ history'.added = history.added /\ history'.again = history.again
      /\ history'.asked = history.asked /\ history'.touched = history.touched
      /\ history'.stale = history.stale /\ history'.wrote = history.wrote
      /\ history'.checked = history.checked \/ Is("check", "NONE")
  BY <1>1 DEF CheckLook, History
<1>3. ASSUME Only(op), Outcome(op) PROVE EngineInv'
  <2>1. Frame(op)
    BY <1>1, <1>2, <1>3 DEF Frame, engineVars, TypeOK, DownloaderTypeOK, Own
  <2>2. StartInv'
    BY <1>1, <1>2, <1>3 DEF StartInv, EngineInv, At, Incomplete, Only, Ops
  <2> QED BY <1>1, <1>3, <2>1, <2>2, CallSound
<1>4. CASE Reconciled(op) \/ Raise(op)
  BY <1>1, <1>3, <1>4, ReconciledEffect, RaiseEffect DEF Outcome
<1>5. CASE Ours(torrent) /\ Seen(op, "APPLIED") /\ Keep /\ Return(op)
  BY <1>1, <1>3, <1>5, ReturnEffect DEF Outcome, Seen
<1>6. CASE Ours(torrent) /\ Seen(op, "INTENT_RECORDED") /\ Apply(op)
  BY <1>1, <1>3, <1>6, ApplyEffect DEF Outcome, Seen
<1>7. CASE /\ Ours(torrent) /\ Seen(op, "NONE") /\ torrent.state = "stopped"
           /\ Intent(op) /\ Goto(op, "send")
  <2>1. Only(op) /\ GoesOn(op, "send")
    BY <1>1, <1>7, GotoEffect DEF Seen, Running
  <2>2. Outcome(op)
    BY <1>1, <1>7, <2>1 DEF Outcome, Running, Seen, Is
  <2> QED BY <1>3, <2>1, <2>2
<1> QED BY <1>4, <1>5, <1>6, <1>7 DEF CheckLook

LEMMA StartLookSound ==
  ASSUME EngineInv, StartLook, UNCHANGED engineVars PROVE EngineInv'
<1> DEFINE op == "start"
<1>1. /\ op \in Ops /\ ~At(op, "idle") /\ TypeOK /\ Own /\ row[op].status = task[op].seen
      /\ UNCHANGED <<kind, torrent, wire, answered, budget>> /\ history \in History
      /\ task[op] \in Call
  BY CallFacts, RecordTypes DEF StartLook, At, Ops, TypeOK, DownloaderTypeOK
<1>2. CASE Ours(torrent) /\ Complete(torrent) /\ Decide
           /\ \/ Seen(op, "NONE") /\ Intent(op)
              \/ Seen(op, "INTENT_RECORDED") /\ Keep
  <2>1. Only(op) /\ GoesOn(op, "send")
    BY <1>1, <1>2, GotoEffect DEF Seen, Running, Decide
  <2>2. /\ history' \in History
        /\ history'.added = history.added /\ history'.again = history.again
        /\ history'.asked = history.asked /\ history'.touched = history.touched
        /\ history'.checked = history.checked /\ history'.wrote = history.wrote
    BY <1>1, <1>2 DEF Decide, History
  <2>3. Frame(op)
    BY <1>1, <2>1, <2>2 DEF Frame, engineVars, TypeOK, DownloaderTypeOK, Own
  <2>4. StartInv'
    BY <1>1, <1>2, <2>2 DEF StartInv, EngineInv, Incomplete, Complete
  <2>5. Outcome(op)
    BY <2>1 DEF Outcome, Running
  <2> QED BY <1>1, <2>3, <2>4, <2>5, CallSound
<1>3. ASSUME UNCHANGED history, Only(op), Ends(op) \/ (Returns(op) /\ Ours(torrent))
      PROVE  EngineInv'
  <2>1. task'[op].pc # "send"
    <3>1. CASE Ends(op)
      BY <3>1 DEF Ends, Idle
    <3>2. CASE Returns(op)
      BY <1>1, <3>2 DEF Returns, Call
    <3> QED BY <1>3, <3>1, <3>2
  <2>2. UNCHANGED Outside
    BY <1>1, <1>3 DEF Outside
  <2> QED BY <1>1, <1>3, <2>1, <2>2, QuietCall DEF Outcome
<1>4. CASE UNCHANGED history /\ (Raise(op) \/ Reconciled(op))
  BY <1>1, <1>3, <1>4, RaiseEffect, ReconciledEffect
<1>5. CASE UNCHANGED history /\ Seen(op, "APPLIED") /\ Ours(torrent) /\ Keep /\ Return(op)
  BY <1>1, <1>3, <1>5, ReturnEffect DEF Seen
<1>6. CASE UNCHANGED history /\ Seen(op, "INTENT_RECORDED") /\ Ours(torrent) /\ Apply(op)
  BY <1>1, <1>3, <1>6, ApplyEffect DEF Seen
<1> QED BY <1>2, <1>4, <1>5, <1>6 DEF StartLook

\* A request leaves: for an operation other than the add, the torrent is ours or
\* an add of ours came through before.
LEMMA SendSound ==
  ASSUME EngineInv, NEW op \in Ops, Send(op), UNCHANGED engineVars PROVE EngineInv'
<1>1. /\ ~At(op, "idle") /\ TypeOK /\ Own /\ row[op].status = "INTENT_RECORDED"
      /\ UNCHANGED <<kind, torrent, row, budget>> /\ history \in History /\ task[op] \in Call
      /\ Keep /\ Goto(op, "answer") /\ At(op, "send")
  BY CallFacts, RecordTypes DEF Send, At, Running, TypeOK, DownloaderTypeOK, Keep
<1>2. /\ history' \in History
      /\ history'.added = history.added /\ history'.again = history.again
      /\ history'.checked = history.checked /\ history'.wrote = history.wrote
      /\ history'.stale = history.stale
      /\ history'.asked = (IF op = "check" THEN history.asked + 1 ELSE history.asked)
      /\ history'.touched = FALSE
  <2> DEFINE asked == IF op = "check" THEN history.asked + 1 ELSE history.asked
             touched == history.touched \/ (op # "add" /\ ~history.added
                                             /\ torrent.owner = "theirs")
  <2>1. asked \in Nat /\ touched = FALSE
    BY <1>1 DEF History, Own, At
  <2>2. history' = [history EXCEPT !.asked = asked, !.touched = touched]
    BY DEF Send
  <2> HIDE DEF asked, touched
  <2>3. history' = [history EXCEPT !.asked = asked, !.touched = FALSE]
    BY <2>1, <2>2
  <2>4. /\ history' \in History
        /\ history'.added = history.added /\ history'.again = history.again
        /\ history'.checked = history.checked /\ history'.wrote = history.wrote
        /\ history'.stale = history.stale /\ history'.asked = asked /\ history'.touched = FALSE
    BY <1>1, <2>1, <2>3 DEF History
  <2> QED BY <2>4 DEF asked
<1>3. ~history'.touched
  BY <1>2
<1>4. Only(op) /\ GoesOn(op, "answer")
  BY <1>1, GotoEffect DEF Running
<1>5. /\ wire' = wire \cup {op} /\ wire' \subseteq Ops \cup {"stop"}
      /\ answered' \in [Ops -> {"none", "done", "refused"}]
  BY <1>1 DEF Send, TypeOK, DownloaderTypeOK
<1>6. task'[op].pc = "answer"
  BY <1>1, <1>4 DEF GoesOn, Call
<1>7. Frame(op)
  BY <1>1, <1>2, <1>3, <1>4, <1>5, <1>6 DEF Frame, engineVars
<1>8. StartInv'
  <2>1. "start" \in wire' \/ task'["start"].pc = "send" =>
          "start" \in wire \/ task["start"].pc = "send"
    BY <1>1, <1>4, <1>5, <1>6 DEF Only, At, Ops
  <2> QED BY <1>1, <1>2, <2>1 DEF StartInv, EngineInv, At, Incomplete
<1>9. Outcome(op)
  <2>1. row["check"].status = "NONE" => op # "check"
    BY <1>1
  <2> QED BY <1>1, <1>4, <2>1 DEF Outcome, Running, Is
<1> QED BY <1>7, <1>8, <1>9, CallSound

LEMMA StopSound ==
  ASSUME EngineInv, NEW op \in Ops, Stop(op), UNCHANGED engineVars PROVE EngineInv'
<1>1. /\ ~At(op, "idle") /\ TypeOK /\ Own /\ row[op].status = "INTENT_RECORDED"
      /\ UNCHANGED <<kind, torrent, answered, row, budget>> /\ history \in History
      /\ task[op] \in Call /\ Keep /\ Goto(op, "stopping") /\ At(op, "stop")
  BY CallFacts, RecordTypes DEF Stop, At, Running, TypeOK, DownloaderTypeOK, Keep
<1>2. /\ history' \in History
      /\ history'.added = history.added /\ history'.again = history.again
      /\ history'.checked = history.checked /\ history'.wrote = history.wrote
      /\ history'.stale = history.stale /\ history'.asked = history.asked
      /\ history'.touched = (history.touched \/ (~history.added /\ torrent.owner = "theirs"))
  BY <1>1 DEF Stop, History
<1>3. ~history'.touched
  BY <1>1, <1>2 DEF Own, At
<1>4. Only(op) /\ GoesOn(op, "stopping")
  BY <1>1, GotoEffect DEF Running
<1>5. wire' = wire \cup {"stop"} /\ wire' \subseteq Ops \cup {"stop"}
  BY <1>1 DEF Stop, TypeOK, DownloaderTypeOK
<1>6. task'[op].pc = "stopping"
  BY <1>1, <1>4 DEF GoesOn, Call
<1>7. Frame(op)
  BY <1>1, <1>2, <1>3, <1>4, <1>5 DEF Frame, engineVars, TypeOK, DownloaderTypeOK
<1>8. StartInv'
  <2>1. "start" \in wire' \/ task'["start"].pc = "send" =>
          "start" \in wire \/ task["start"].pc = "send"
    BY <1>1, <1>4, <1>5, <1>6 DEF Only, At, Ops
  <2> QED BY <1>1, <1>2, <2>1 DEF StartInv, EngineInv, At, Incomplete
<1>9. Outcome(op)
  <2>1. row["check"].status = "NONE" => op # "check"
    BY <1>1
  <2> QED BY <1>1, <1>4, <2>1 DEF Outcome, Running, Is
<1> QED BY <1>7, <1>8, <1>9, CallSound

LEMMA UnansweredSound ==
  ASSUME EngineInv, NEW op \in Ops, Unanswered(op), UNCHANGED engineVars PROVE EngineInv'
<1>1. TypeOK /\ Own /\ wire' \subseteq wire /\ UNCHANGED <<kind, torrent, answered, history>>
  BY CallFacts DEF Unanswered
<1>2. ASSUME ~At(op, "idle"), Only(op), Outcome(op), op = "start" => task'["start"].pc # "send"
      PROVE  EngineInv'
  <2>1. Frame(op)
    BY <1>1, <1>2 DEF Frame, engineVars, TypeOK, DownloaderTypeOK, Own
  <2>2. StartInv'
    <3>1. task'["start"].pc = "send" => task["start"].pc = "send"
      BY <1>2 DEF Only, Ops
    <3> QED BY <1>1, <3>1 DEF StartInv, EngineInv, At, Incomplete
  <2> QED BY <1>2, <2>1, <2>2, CallSound
<1>3. CASE ~At(op, "idle") /\ (Raise(op) \/ Reconciled(op))
  <2>1. Only(op) /\ Ends(op)
    BY <1>1, <1>3, RaiseEffect, ReconciledEffect
  <2>2. task'[op].pc # "send"
    BY <2>1 DEF Ends, Idle
  <2> QED BY <1>2, <1>3, <2>1, <2>2 DEF Outcome
<1>4. CASE op = "remove" /\ AskGone
  BY <1>2, <1>4, AskGoneOutcome
<1> QED BY <1>3, <1>4 DEF Unanswered, At

\* A row that was to be reconciled is applied: its effect is seen.
LEMMA ReconcileSound ==
  ASSUME EngineInv, NEW op \in Ops, Reconcile(op), UNCHANGED engineVars PROVE EngineInv'
<1> DEFINE after == IF row[op].after = Absent THEN torrent ELSE row[op].after
<1>1. /\ TypeOK /\ Own /\ UNCHANGED <<kind, torrent, wire, answered, task, history>>
      /\ UNCHANGED <<stage, observed, skip, links, plan>>
      /\ row \in [Ops -> Row] /\ row[op] \in Row /\ torrent \in Torrent
      /\ row[op].status = "RECONCILE_REQUIRED" /\ task[op].pc = "idle"
      /\ Reconcilable(op) /\ PostconditionHolds(op)
  BY CallFacts, RecordTypes DEF Reconcile, engineVars, Is, At
<1>2. row' = [row EXCEPT ![op] = [row[op] EXCEPT !.status = "APPLIED", !.after = after]]
  BY <1>1 DEF Reconcile
<1>3. after \in Torrent /\ (op = "check" => after = row[op].after)
  BY <1>1 DEF Row, Reconcilable
<1>4. op # "remove" => after # Absent
  BY <1>1 DEF PostconditionHolds, Ours, Absent
<1> HIDE DEF after
<1>5. /\ row'[op] \in Row /\ row'[op].status = "APPLIED" /\ row'[op].after = after
      /\ row'[op].before = row[op].before
      /\ \A o \in Ops \ {op} : row'[o] = row[o]
  BY <1>1, <1>2, <1>3 DEF Row, Status
<1>6. TypeOK'
  <2>1. row' \in [Ops -> Row]
    BY <1>1, <1>2, <1>5
  <2>2. \A o \in Ops \ {"remove"} : row'[o].status = "APPLIED" => row'[o].after # Absent
    BY <1>1, <1>4, <1>5 DEF TypeOK, DownloaderTypeOK, Is
  <2> QED BY <1>1, <2>1, <2>2 DEF TypeOK, DownloaderTypeOK, Is
<1>7. \A o \in Ops : CallInv(o)'
  BY <1>1, <1>5 DEF EngineInv, CallInv, Running
<1>8. Own'
  <2>1. op = "add" => history.added
    BY <1>1 DEF Own, PostconditionHolds
  <2>2. \A o \in Ops \ {"add"} : task[o].pc # "idle" \/ row'[o].status # "NONE" =>
          history.added /\ row["add"].status # "NONE"
    <3>1. TAKE o \in Ops \ {"add"}
    <3>2. CASE o = op
      BY <1>1, <3>2 DEF Own, Is
    <3>3. CASE o # op
      BY <1>1, <1>5, <3>3 DEF Own, Is, At
    <3> QED BY <3>2, <3>3
  <2>3. row["add"].status # "NONE" => row'["add"].status # "NONE"
    BY <1>5 DEF Ops
  <2>4. row'["add"].status = "APPLIED" => history.added
    BY <1>1, <1>5, <2>1 DEF Own, Is, Ops
  <2> QED BY <1>1, <2>2, <2>3, <2>4 DEF Own, Is, At, Ours
<1>9. StartInv'
  BY <1>1 DEF EngineInv, StartInv, At, Incomplete
<1>10. CheckInv'
  <2>1. /\ row'["check"].status = "NONE" <=> row["check"].status = "NONE"
        /\ row'["check"].before = row["check"].before
        /\ row'["check"].after = row["check"].after
    BY <1>1, <1>3, <1>5 DEF Ops
  <2> QED BY <1>1, <2>1 DEF EngineInv, CheckInv, Unchecked, Is, At, Ours, Complete, Checking
<1>11. GoneInv'
  <2>1. op = "remove" => Gone
    BY <1>1 DEF Own, PostconditionHolds, Gone, Ours, Absent, Is, Ops
  <2>2. Gone' = Gone
    BY <1>1 DEF Gone, Ours
  <2>3. row'["add"].status = "NONE" <=> row["add"].status = "NONE"
    BY <1>1, <1>5 DEF Ops
  <2> QED BY <1>1, <1>5, <2>1, <2>2, <2>3 DEF EngineInv, GoneInv, Is, At, Ops
<1> QED BY <1>6, <1>7, <1>8, <1>9, <1>10, <1>11 DEF EngineInv

LEMMA CrashSound ==
  ASSUME EngineInv, Crash, UNCHANGED engineVars PROVE EngineInv'
<1>1. /\ TypeOK /\ UNCHANGED <<kind, torrent, wire, answered, row, history>>
      /\ UNCHANGED <<stage, observed, skip, links, plan>>
      /\ task' = [o \in Ops |-> Idle] /\ Idle \in Call
  BY CallFacts, RecordTypes DEF Crash, engineVars, EngineInv
<1>2. \A o \in Ops : task'[o] = Idle /\ task'[o].pc = "idle" /\ task'[o].result = Absent
  BY <1>1 DEF Idle
<1>3. TypeOK'
  BY <1>1 DEF TypeOK, DownloaderTypeOK, Is
<1>4. \A o \in Ops : CallInv(o)'
  BY <1>1, <1>2 DEF CallInv, Running
<1>5. Own'
  BY <1>1, <1>2 DEF EngineInv, Own, Is, At, Ours, Ops
<1>6. StartInv'
  BY <1>1, <1>2 DEF EngineInv, StartInv, At, Incomplete, Ops
<1>7. CheckInv'
  BY <1>1, <1>2 DEF EngineInv, CheckInv, Unchecked, Is, At, Ours, Complete, Checking, Ops
<1>8. GoneInv'
  BY <1>1, <1>2 DEF EngineInv, GoneInv, Gone, Is, At, Ours, Ops
<1> QED BY <1>3, <1>4, <1>5, <1>6, <1>7, <1>8 DEF EngineInv

-----------------------------------------------------------------------------
(* The steps of the client and of its users. *)

\* What such a step may do to the torrent: it does not become more complete
\* without a check, and ours does not come back without a second add.
ClientMay ==
  /\ torrent' \in Torrent /\ (torrent'.owner = "ours" => history'.added)
  /\ history.added /\ ~history'.again /\ torrent'.owner = "ours" =>
       /\ torrent.owner = "ours"
       /\ \/ history'.checked
          \/ /\ torrent'.full => torrent.full
             /\ torrent'.full /\ torrent'.state = "checking" => torrent.state = "checking"

LEMMA ClientSound ==
  ASSUME EngineInv, UNCHANGED <<kind, row, task>>, UNCHANGED engineVars, ClientMay, StartInv',
         wire' \subseteq wire, answered' \in [Ops -> {"none", "done", "refused"}],
         history' \in History, history'.asked = history.asked,
         ~history'.touched, history.added => history'.added,
         history.again => history'.again, history.checked => history'.checked
  PROVE  EngineInv'
<1>1. /\ TypeOK /\ Own /\ kind' = kind /\ row' = row /\ task' = task /\ stage' = stage
      /\ observed' = observed /\ skip' = skip /\ links' = links /\ plan' = plan
  BY DEF EngineInv, engineVars
<1>2. TypeOK'
  <2>1. torrent' \in Torrent /\ wire' \subseteq Ops \cup {"stop"}
    BY <1>1 DEF TypeOK, DownloaderTypeOK, ClientMay
  <2> QED BY <1>1, <2>1 DEF TypeOK, DownloaderTypeOK, Is
<1>3. \A o \in Ops : CallInv(o)'
  BY <1>1 DEF EngineInv, CallInv
<1>4. Own'
  BY <1>1 DEF Own, Is, At, Ours, ClientMay
<1>5. CheckInv'
  <2>1. row["check"].status # "NONE" => history.added
    BY <1>1 DEF Own, Is, Ops
  <2> QED BY <1>1, <2>1 DEF EngineInv, CheckInv, Unchecked, Is, At, Ours, Complete, Checking, ClientMay
<1>6. Gone => Gone'
  BY DEF Gone, ClientMay, Ours
<1>7. GoneInv'
  BY <1>1, <1>6 DEF EngineInv, GoneInv, Is, At
<1> QED BY <1>2, <1>3, <1>4, <1>5, <1>7 DEF EngineInv

LEMMA Answers ==
  ASSUME TypeOK, NEW op \in Ops, NEW a \in {"done", "refused"}, Answer(op, a)
  PROVE  answered' \in [Ops -> {"none", "done", "refused"}]
BY DEF Answer, TypeOK, DownloaderTypeOK

LEMMA ClientAcceptsSound ==
  ASSUME EngineInv, ClientAccepts, UNCHANGED engineVars PROVE EngineInv'
<1>1. /\ TypeOK /\ Own /\ StartInv /\ torrent \in Torrent /\ history \in History /\ "check" \in Ops
      /\ UNCHANGED <<kind, torrent, wire, row, task, history>> /\ Answer("check", "done")
  BY DEF EngineInv, TypeOK, DownloaderTypeOK, ClientAccepts, Ops
<1>2. answered' \in [Ops -> {"none", "done", "refused"}]
  BY <1>1, Answers
<1>3. StartInv' /\ ClientMay /\ ~history'.touched
  BY <1>1 DEF StartInv, ClientMay, Own, Incomplete, At, Ours
<1> QED BY <1>1, <1>2, <1>3, ClientSound

\* A step that makes the start stale asks nothing of the torrent it leaves.
LEMMA StaleStart ==
  ASSUME StartInv, history'.stale, history'.wrote = history.wrote PROVE StartInv'
BY DEF StartInv

LEMMA ClientAddsSound ==
  ASSUME EngineInv, ClientAdds, UNCHANGED engineVars PROVE EngineInv'
<1>1. /\ TypeOK /\ Own /\ StartInv /\ torrent \in Torrent /\ history \in History /\ "add" \in Ops
      /\ UNCHANGED <<kind, row, task, budget>> /\ wire' \subseteq wire
  BY DEF EngineInv, TypeOK, DownloaderTypeOK, ClientAdds, Handle, Ops
<1>2. CASE torrent = Absent
  <2>1. /\ torrent' \in [owner : {"ours"}, state : States, full : BOOLEAN] /\ Answer("add", "done")
        /\ history' = [history EXCEPT !.added = TRUE, !.again = @ \/ history.added, !.stale = TRUE]
    BY <1>2 DEF ClientAdds
  <2>2. /\ history' \in History /\ history'.added /\ history'.again = (history.again \/ history.added)
        /\ history'.stale /\ history'.wrote = history.wrote /\ ~history'.touched
        /\ history'.asked = history.asked /\ history'.checked = history.checked
    BY <1>1, <2>1 DEF History, Own
  <2>3. history.again => history'.again
    BY <1>1, <2>2
  <2>4. torrent' \in Torrent
    BY <2>1 DEF Torrent
  <2>5. ClientMay /\ StartInv'
    BY <1>1, <2>2, <2>4, StaleStart DEF ClientMay
  <2> QED BY <1>1, <2>1, <2>2, <2>3, <2>5, Answers, ClientSound
<1>3. CASE torrent # Absent
  <2>1. UNCHANGED <<torrent, history>> /\ Answer("add", "refused")
    BY <1>3 DEF ClientAdds
  <2>2. StartInv' /\ ClientMay /\ ~history'.touched
    BY <1>1, <2>1 DEF StartInv, ClientMay, Own, Incomplete, At, Ours
  <2> QED BY <1>1, <2>1, <2>2, Answers, ClientSound
<1> QED BY <1>2, <1>3

LEMMA ClientChecksSound ==
  ASSUME EngineInv, ClientChecks, UNCHANGED engineVars PROVE EngineInv'
<1>1. /\ TypeOK /\ Own /\ StartInv /\ torrent \in Torrent /\ history \in History /\ "check" \in Ops
      /\ UNCHANGED <<kind, row, task, budget>> /\ wire' \subseteq wire /\ Answer("check", "done")
  BY DEF EngineInv, TypeOK, DownloaderTypeOK, ClientChecks, Handle, Ops
<1>2. history' = [history EXCEPT !.stale = TRUE]
  BY DEF ClientChecks
<1>3. /\ history' \in History /\ history'.added = history.added /\ history'.again = history.again
      /\ history'.stale /\ history'.wrote = history.wrote /\ ~history'.touched
      /\ history'.asked = history.asked /\ history'.checked = history.checked
  BY <1>1, <1>2 DEF History, Own
<1>4. torrent' = IF torrent = Absent THEN torrent
                 ELSE [torrent EXCEPT !.state = "checking", !.full = FALSE]
  BY DEF ClientChecks
<1>5. torrent' \in Torrent /\ torrent'.owner = torrent.owner /\ (torrent # Absent => ~torrent'.full)
  <2>1. torrent # Absent => torrent \in [owner : {"ours", "theirs"}, state : States, full : BOOLEAN]
    BY <1>1, TorrentFacts
  <2>2. CASE torrent = Absent
    BY <1>1, <1>4, <2>2
  <2>3. CASE torrent # Absent
    BY <1>4, <2>1, <2>3 DEF Torrent, States
  <2> QED BY <2>2, <2>3
<1>6. ClientMay /\ StartInv'
  BY <1>1, <1>3, <1>5, StaleStart DEF ClientMay, Own, Ours, Absent
<1> QED BY <1>1, <1>3, <1>6, Answers, ClientSound

\* A start that is decided and not stale finds no incomplete torrent.
LEMMA ClientStartsSound ==
  ASSUME EngineInv, ClientStarts, UNCHANGED engineVars PROVE EngineInv'
<1>1. /\ TypeOK /\ Own /\ StartInv /\ torrent \in Torrent /\ history \in History /\ "start" \in Ops
      /\ UNCHANGED <<kind, row, task, budget>> /\ wire' \subseteq wire /\ Answer("start", "done")
      /\ "start" \in wire
  BY DEF EngineInv, TypeOK, DownloaderTypeOK, ClientStarts, Handle, Ops
<1>2. (history.wrote \/ (Incomplete(torrent) /\ ~history.stale)) = FALSE
  BY <1>1 DEF StartInv
<1>3. history' = [history EXCEPT !.wrote = FALSE]
  BY <1>2 DEF ClientStarts
<1>4. /\ history' \in History /\ history'.added = history.added /\ history'.again = history.again
      /\ history'.stale = history.stale /\ ~history'.wrote /\ ~history'.touched
      /\ history'.asked = history.asked /\ history'.checked = history.checked
  BY <1>1, <1>3 DEF History, Own
<1>5. torrent' = IF torrent.state = "stopped" THEN [torrent EXCEPT !.state = "active"] ELSE torrent
  BY DEF ClientStarts
<1>6. /\ torrent' \in Torrent /\ torrent'.owner = torrent.owner /\ torrent'.full = torrent.full
      /\ torrent'.state \in {torrent.state, "active"}
  <2>1. CASE torrent.state = "stopped"
    <3>1. torrent \in [owner : {"ours", "theirs"}, state : States, full : BOOLEAN]
      BY <1>1, <2>1, TorrentFacts DEF Absent
    <3> QED BY <1>5, <2>1, <3>1 DEF Torrent, States
  <2>2. CASE torrent.state # "stopped"
    BY <1>1, <1>5, <2>2
  <2> QED BY <2>1, <2>2
<1>7. ClientMay
  BY <1>1, <1>4, <1>6 DEF ClientMay, Own, Ours
<1>8. StartInv'
  BY <1>1, <1>4, <1>6 DEF StartInv, Incomplete, At
<1> QED BY <1>1, <1>4, <1>7, <1>8, Answers, ClientSound

\* A torrent that is stopped keeps what is known of its pieces.
LEMMA HaltEffect ==
  ASSUME torrent \in Torrent, Halt
  PROVE  /\ torrent' \in Torrent /\ torrent'.owner = torrent.owner /\ torrent'.full = torrent.full
         /\ torrent'.state # "checking"
<1>1. CASE torrent = Absent
  BY <1>1 DEF Halt, Absent
<1>2. CASE torrent # Absent
  <2>1. torrent \in [owner : {"ours", "theirs"}, state : States, full : BOOLEAN]
    BY <1>2, TorrentFacts
  <2> QED BY <1>2, <2>1 DEF Torrent, States, Halt
<1> QED BY <1>1, <1>2

LEMMA ClientStopsSound ==
  ASSUME EngineInv, ClientStops, UNCHANGED engineVars PROVE EngineInv'
<1>1. /\ TypeOK /\ Own /\ StartInv /\ torrent \in Torrent /\ history \in History
      /\ UNCHANGED <<kind, row, task, budget, answered>> /\ wire' \subseteq wire /\ Halt
      /\ answered \in [Ops -> {"none", "done", "refused"}]
  BY DEF EngineInv, TypeOK, DownloaderTypeOK, ClientStops, Handle
<1>2. history' = [history EXCEPT !.stale = TRUE]
  BY DEF ClientStops
<1>3. /\ history' \in History /\ history'.added = history.added /\ history'.again = history.again
      /\ history'.stale /\ history'.wrote = history.wrote /\ ~history'.touched
      /\ history'.asked = history.asked /\ history'.checked = history.checked
  BY <1>1, <1>2 DEF History, Own
<1>4. ClientMay /\ StartInv'
  BY <1>1, <1>3, HaltEffect, StaleStart DEF ClientMay, Own, Ours
<1> QED BY <1>1, <1>3, <1>4, ClientSound

LEMMA ClientRemovesSound ==
  ASSUME EngineInv, ClientRemoves, UNCHANGED engineVars PROVE EngineInv'
<1>1. /\ TypeOK /\ Own /\ StartInv /\ history \in History /\ "remove" \in Ops
      /\ UNCHANGED <<kind, row, task, history>> /\ wire' \subseteq wire
      /\ Answer("remove", "done") /\ torrent' = Absent
  BY DEF EngineInv, TypeOK, DownloaderTypeOK, ClientRemoves, Handle, Ops
<1>2. ClientMay /\ StartInv' /\ ~history'.touched
  BY <1>1 DEF ClientMay, Own, Torrent, Absent, StartInv, Incomplete, At
<1> QED BY <1>1, <1>2, Answers, ClientSound

LEMMA ClientEndsSound ==
  ASSUME EngineInv, ClientEnds, UNCHANGED engineVars PROVE EngineInv'
<1>1. /\ TypeOK /\ Own /\ StartInv /\ torrent \in Torrent /\ history \in History
      /\ UNCHANGED <<kind, row, task, budget, answered>> /\ wire' = wire
      /\ answered \in [Ops -> {"none", "done", "refused"}]
  BY DEF EngineInv, TypeOK, DownloaderTypeOK, ClientEnds
<1>2. history' = [history EXCEPT !.checked = TRUE, !.stale = TRUE]
  BY DEF ClientEnds
<1>3. /\ history' \in History /\ history'.added = history.added /\ history'.again = history.again
      /\ history'.stale /\ history'.wrote = history.wrote /\ ~history'.touched
      /\ history'.asked = history.asked /\ history'.checked
  BY <1>1, <1>2 DEF History, Own
<1>4. torrent' \in Torrent /\ torrent'.owner = torrent.owner
  <2>1. torrent.state \in {"checking", "active"}
    BY DEF ClientEnds
  <2>2. torrent \in [owner : {"ours", "theirs"}, state : States, full : BOOLEAN]
    BY <1>1, <2>1, TorrentFacts DEF Absent
  <2>3. CASE torrent' \in {[torrent EXCEPT !.state = "stopped", !.full = f] : f \in BOOLEAN}
    <3>1. PICK f \in BOOLEAN : torrent' = [torrent EXCEPT !.state = "stopped", !.full = f]
      BY <2>3
    <3> QED BY <2>2, <3>1 DEF Torrent, States
  <2>4. CASE torrent' = [torrent EXCEPT !.full = TRUE]
    BY <2>2, <2>4 DEF Torrent, States
  <2> QED BY <2>3, <2>4 DEF ClientEnds
<1>5. ClientMay /\ StartInv'
  BY <1>1, <1>3, <1>4, StaleStart DEF ClientMay, Own, Ours
<1> QED BY <1>1, <1>3, <1>5, ClientSound

LEMMA MeddleSound ==
  ASSUME EngineInv, Meddle, UNCHANGED engineVars PROVE EngineInv'
<1>1. /\ TypeOK /\ Own /\ StartInv /\ torrent \in Torrent /\ history \in History
      /\ UNCHANGED <<kind, row, task, answered>> /\ wire' = wire
      /\ answered \in [Ops -> {"none", "done", "refused"}]
  BY DEF EngineInv, TypeOK, DownloaderTypeOK, Meddle
<1>2. history' = [history EXCEPT !.stale = TRUE]
  BY DEF Meddle
<1>3. /\ history' \in History /\ history'.added = history.added /\ history'.again = history.again
      /\ history'.stale /\ history'.wrote = history.wrote /\ ~history'.touched
      /\ history'.asked = history.asked /\ history'.checked = history.checked
  BY <1>1, <1>2 DEF History, Own
<1>4. /\ torrent' \in Torrent
      /\ torrent'.owner = "ours" => /\ torrent.owner = "ours" /\ (torrent'.full => torrent.full)
                                    /\ torrent'.full => torrent'.state # "checking"
  <2>1. torrent # Absent => torrent \in [owner : {"ours", "theirs"}, state : States, full : BOOLEAN]
    BY <1>1, TorrentFacts
  <2>2. CASE torrent' \in [owner : {"theirs"}, state : {"stopped", "active"}, full : BOOLEAN]
    BY <2>2 DEF Torrent, States
  <2>3. CASE torrent' = Absent
    BY <2>3 DEF Torrent, Absent
  <2>4. CASE torrent # Absent /\ torrent' = [torrent EXCEPT !.state = "checking", !.full = FALSE]
    BY <2>1, <2>4 DEF Torrent, States
  <2>5. CASE torrent.state = "stopped" /\ torrent' = [torrent EXCEPT !.state = "active"]
    <3>1. torrent # Absent
      BY <2>5 DEF Absent
    <3> QED BY <2>1, <2>5, <3>1 DEF Torrent, States
  <2>6. CASE Halt
    BY <1>1, <2>6, HaltEffect
  <2> QED BY <2>2, <2>3, <2>4, <2>5, <2>6 DEF Meddle
<1>5. ClientMay /\ StartInv'
  BY <1>1, <1>3, <1>4, StaleStart DEF ClientMay, Own, Ours
<1> QED BY <1>1, <1>3, <1>5, ClientSound

-----------------------------------------------------------------------------
(* The steps of the task itself. *)

\* A call begins with its row.
LEMMA BeginEffect ==
  ASSUME TypeOK, NEW op \in Ops, Begin(op)
  PROVE  /\ task' \in [Ops -> Call] /\ task[op].pc = "idle"
         /\ task'[op].pc \in {"find", "look"} /\ task'[op].seen = row[op].status
         /\ task'[op].pc = "find" => op = "add" /\ row[op].status = "NONE"
         /\ row[op].status # "RECONCILE_REQUIRED"
         /\ \A o \in Ops \ {op} : task'[o] = task[o]
         /\ kind' = kind /\ torrent' = torrent /\ wire' = wire /\ answered' = answered
         /\ row' = row /\ history' = history
<1>1. task[op] \in Call /\ task \in [Ops -> Call] /\ row[op].status \in Status
  BY RecordTypes DEF Row
<1> DEFINE pc == IF op = "add" /\ Is("add", "NONE") THEN "find" ELSE "look"
<1>2. pc \in {"find", "look"} /\ (pc = "find" => op = "add" /\ row[op].status = "NONE")
  BY DEF Is
<1>3. task' = [task EXCEPT ![op] = [task[op] EXCEPT !.pc = pc, !.seen = row[op].status]]
  BY <1>1 DEF Begin
<1> HIDE DEF pc
<1>4. /\ task'[op] \in Call /\ task'[op].pc = pc /\ task'[op].seen = row[op].status
      /\ task' \in [Ops -> Call] /\ \A o \in Ops \ {op} : task'[o] = task[o]
  BY <1>1, <1>2, <1>3 DEF Call, Pcs
<1> QED BY <1>2, <1>4 DEF Begin, At

\* A call that begins after the applied add leaves the invariants of the client.
LEMMA BeginSound ==
  ASSUME EngineInv, NEW op \in Ops, Begin(op), Authorised(op)
  PROVE  /\ DownloaderTypeOK' /\ (\A o \in Ops : CallInv(o)') /\ Own' /\ StartInv'
         /\ UNCHANGED <<observed, stage, skip>> => CheckInv'
<1>1. /\ TypeOK /\ Own /\ StartInv /\ CheckInv /\ \A o \in Ops : CallInv(o)
  BY DEF EngineInv
<1>2. DownloaderTypeOK'
  BY <1>1, BeginEffect DEF TypeOK, DownloaderTypeOK, Is
<1>3. \A o \in Ops : CallInv(o)'
  BY <1>1, BeginEffect DEF CallInv, Running
<1>4. Own'
  BY <1>1, BeginEffect DEF Own, Is, At, Ours, Authorised
<1>5. StartInv'
  BY <1>1, BeginEffect DEF StartInv, At, Incomplete, Ops
<1>6. UNCHANGED <<observed, stage, skip>> => CheckInv'
  BY <1>1, BeginEffect DEF CheckInv, Unchecked, Is, At, Ours, Complete, Checking, Ops
<1> QED BY <1>2, <1>3, <1>4, <1>5, <1>6

LEMMA EnterSound ==
  ASSUME EngineInv, NEW op \in Driven, Enter(op) PROVE EngineInv'
<1>1. /\ op \in Ops /\ op # "remove" /\ TypeOK /\ GoneInv /\ stage # "DONE"
      /\ Begin(op) /\ Authorised(op)
      /\ stage' = stage /\ observed' = observed /\ skip' = skip /\ links' = links /\ plan' = plan
  BY DEF EngineInv, Enter, Driven, StageOf, Ops, engineVars
<1>2. GoneInv'
  BY <1>1, BeginEffect DEF GoneInv, Gone, Is, At, Ours, Ops
<1> QED BY <1>1, <1>2, BeginSound DEF EngineInv, TypeOK

\* A call that has returned or found a torrent ends.
LEMMA EndSound ==
  ASSUME EngineInv, NEW op \in Ops, End(op), UNCHANGED <<kind, torrent, wire, answered, row, history>>
  PROVE  /\ DownloaderTypeOK' /\ (\A o \in Ops : CallInv(o)') /\ Own' /\ StartInv'
         /\ task'[op].pc = "idle" /\ \A o \in Ops \ {op} : task'[o] = task[o]
         /\ UNCHANGED <<observed, stage, skip>> => CheckInv'
<1>1. /\ TypeOK /\ Own /\ StartInv /\ CheckInv /\ \A o \in Ops : CallInv(o)
  BY DEF EngineInv
<1>2. /\ task' \in [Ops -> Call] /\ task'[op] = Idle /\ \A o \in Ops \ {op} : task'[o] = task[o]
  BY <1>1, RecordTypes DEF End
<1>3. task'[op].pc = "idle"
  BY <1>2 DEF Idle
<1>4. DownloaderTypeOK'
  BY <1>1, <1>2 DEF TypeOK, DownloaderTypeOK, Is
<1>5. \A o \in Ops : CallInv(o)'
  BY <1>1, <1>2, <1>3 DEF CallInv, Running
<1>6. Own'
  <2>1. \A o \in Ops : task'[o].pc = task[o].pc \/ task'[o].pc = "idle"
    BY <1>2, <1>3
  <2>2. "add" \in Ops
    BY DEF Ops
  <2>3. row' = row /\ history' = history /\ torrent' = torrent
    OBVIOUS
  <2> QED BY <1>1, <2>1, <2>2, <2>3 DEF Own, Is, At, Ours
<1>7. StartInv'
  BY <1>1, <1>2, <1>3 DEF StartInv, At, Incomplete, Ops
<1>8. UNCHANGED <<observed, stage, skip>> => CheckInv'
  BY <1>1, <1>2, <1>3 DEF CheckInv, Unchecked, Is, At, Ours, Complete, Checking, Ops
<1> QED BY <1>2, <1>3, <1>4, <1>5, <1>6, <1>7, <1>8

\* A torrent that was there ends the call, and the task is DONE without an add row.
LEMMA FindExistingSound ==
  ASSUME EngineInv, FindExisting PROVE EngineInv'
<1>1. /\ TypeOK /\ Own /\ StartInv /\ CheckInv /\ GoneInv /\ CallInv("add") /\ "add" \in Ops
      /\ task["add"].pc = "find" /\ row["add"].status = "NONE" /\ task["add"].seen = "NONE"
      /\ kind' = kind /\ torrent' = torrent /\ wire' = wire /\ answered' = answered
      /\ row' = row /\ history' = history
      /\ observed' = observed /\ skip' = skip /\ links' = links /\ plan' = plan
  BY DEF EngineInv, FindExisting, CallInv, At, Ops
<1>2. stage # "DONE"
  BY <1>1 DEF GoneInv, Is, At
<1>3. CASE Goto("add", "look") /\ UNCHANGED stage
  <2>1. /\ task' \in [Ops -> Call] /\ task'["add"].pc = "look" /\ task'["add"].seen = "NONE"
        /\ \A o \in Ops \ {"add"} : task'[o] = task[o]
    <3>1. task["add"] \in Call /\ task \in [Ops -> Call]
      BY <1>1, RecordTypes
    <3>2. task' = [task EXCEPT !["add"] = [task["add"] EXCEPT !.pc = "look"]]
      BY <1>3, <3>1 DEF Goto
    <3>3. /\ task'["add"] \in Call /\ task'["add"].pc = "look" /\ task'["add"].seen = "NONE"
      BY <1>1, <3>1, <3>2 DEF Call, Pcs
    <3> QED BY <3>1, <3>2, <3>3
  <2>2. TypeOK'
    BY <1>1, <1>3, <2>1 DEF TypeOK, DownloaderTypeOK, Is
  <2>3. \A o \in Ops : CallInv(o)'
    BY <1>1, <2>1 DEF EngineInv, CallInv, Running
  <2>4. Own'
    <3>1. task'["add"].pc # "stop" /\ row'["add"].status # "APPLIED" /\ ~history'.touched
      BY <1>1, <2>1 DEF Own
    <3>2. \A o \in Ops \ {"add"} : task'[o].pc = "idle" /\ row'[o].status = "NONE"
      BY <1>1, <2>1 DEF Own, Is, At
    <3>3. torrent'.owner = "ours" => history'.added
      BY <1>1 DEF Own, Ours
    <3> QED BY <3>1, <3>2, <3>3 DEF Own, Is, At, Ours
  <2>5. StartInv'
    BY <1>1, <2>1 DEF StartInv, At, Incomplete, Ops
  <2>6. CheckInv'
    BY <1>1, <1>3, <2>1 DEF CheckInv, Unchecked, Is, At, Ours, Complete, Checking, Ops
  <2>7. GoneInv'
    BY <1>1, <1>2, <1>3, <2>1 DEF GoneInv, Gone, Is, At, Ours, Ops
  <2> QED BY <2>2, <2>3, <2>4, <2>5, <2>6, <2>7 DEF EngineInv
<1>4. CASE End("add") /\ stage' = IF stage = "ADDING" THEN "DONE" ELSE stage
  <2>1. stage' \in Stage /\ (stage' = stage \/ (stage = "ADDING" /\ stage' = "DONE"))
    BY <1>1, <1>4 DEF TypeOK, Stage
  <2>2. /\ DownloaderTypeOK' /\ (\A o \in Ops : CallInv(o)') /\ Own' /\ StartInv'
        /\ task'["add"].pc = "idle" /\ \A o \in Ops \ {"add"} : task'[o] = task[o]
    BY <1>1, <1>4, EndSound
  <2>3. TypeOK'
    BY <1>1, <2>1, <2>2 DEF TypeOK
  <2>4. CheckInv'
    BY <1>1, <2>1, <2>2 DEF CheckInv, Unchecked, Is, At, Ours, Complete, Checking, Ops
  <2>5. GoneInv'
    BY <1>1, <1>2, <2>1, <2>2 DEF GoneInv, Gone, Is, At, Ours, Ops
  <2> QED BY <2>2, <2>3, <2>4, <2>5 DEF EngineInv
<1> QED BY <1>3, <1>4 DEF FindExisting

\* A stage that was driven ends without the files or the removal being touched.
LEMMA StageEnds ==
  ASSUME EngineInv, NEW op \in Driven, Commits(op), stage' \in Stage, observed' \in BOOLEAN,
         skip' = skip, links' = links, plan' = plan,
         stage' = stage \/ (stage = StageOf[op] /\ stage' \notin {"CANCELLED", "ROLLING_BACK"}),
         CheckInv'
  PROVE  EngineInv'
<1>1. /\ op \in Ops /\ op # "remove" /\ TypeOK /\ Own /\ GoneInv /\ End(op)
      /\ StageOf[op] \notin {"DONE", "ROLLING_BACK", "CANCELLED"}
      /\ kind' = kind /\ torrent' = torrent /\ wire' = wire /\ answered' = answered
      /\ row' = row /\ history' = history
  BY DEF EngineInv, Commits, Driven, StageOf, Ops
<1>2. /\ DownloaderTypeOK' /\ (\A o \in Ops : CallInv(o)') /\ Own' /\ StartInv'
      /\ task'[op].pc = "idle" /\ \A o \in Ops \ {op} : task'[o] = task[o]
  BY <1>1, EndSound
<1>3. TypeOK'
  BY <1>1, <1>2 DEF TypeOK
<1>4. row["add"].status # "NONE"
  <2>1. task[op].pc = "done" /\ CallInv(op)
    BY <1>1 DEF Commits, At, EngineInv
  <2> QED BY <1>1, <2>1 DEF Own, CallInv, At, Is
<1>5. GoneInv'
  <2>1. "remove" \in Ops /\ task'["remove"] = task["remove"] /\ Gone' = Gone
    BY <1>1, <1>2 DEF Ops, Gone, Ours
  <2> QED BY <1>1, <1>4, <2>1 DEF GoneInv, Is, At
<1> QED BY <1>2, <1>3, <1>5 DEF EngineInv

LEMMA FinishAddSound ==
  ASSUME EngineInv, FinishAdd PROVE EngineInv'
<1>1. /\ "add" \in Driven /\ "add" \in Ops /\ TypeOK /\ CheckInv /\ StageOf["add"] = "ADDING"
      /\ Commits("add") /\ End("add") /\ Move("add", IF skip THEN "SEEDING" ELSE "CLIENT_VERIFYING")
      /\ row' = row /\ history' = history /\ torrent' = torrent
      /\ observed' = observed /\ skip' = skip /\ links' = links /\ plan' = plan
  BY DEF FinishAdd, Commits, EngineInv, Driven, StageOf, Ops
<1>2. /\ stage' \in Stage /\ observed' \in BOOLEAN
      /\ stage' = stage \/ (stage = "ADDING" /\ stage' = IF skip THEN "SEEDING" ELSE "CLIENT_VERIFYING")
  BY <1>1 DEF Move, TypeOK, Stage
<1>3. \A o \in Ops \ {"add"} : task'[o] = task[o]
  BY <1>1, RecordTypes DEF End
<1>4. CheckInv'
  BY <1>1, <1>2, <1>3 DEF CheckInv, Unchecked, Is, At, Ours, Complete, Checking, Ops
<1> QED BY <1>1, <1>2, <1>4, StageEnds

\* A torrent that is complete and that nothing has checked is the one of the
\* intent, and nobody has seen it check: it proves nothing.
LEMMA VerdictIsProven ==
  ASSUME EngineInv, At("check", "done"), Unchecked, Complete(task["check"].result)
  PROVE  ~CompletionProven
<1>1. CheckInv
  BY DEF EngineInv
<1> QED BY <1>1 DEF CheckInv, CompletionProven, CheckObserved, Checking, Complete

LEMMA FinishCheckSound ==
  ASSUME EngineInv, FinishCheck PROVE EngineInv'
<1> DEFINE seen == task["check"].result
           verdict == IF Complete(seen) /\ CompletionProven THEN "SEEDING"
                      ELSE IF Incomplete(seen) /\ CheckObserved THEN "RETRY"
                      ELSE "CLIENT_VERIFYING"
<1>1. /\ "check" \in Driven /\ "check" \in Ops /\ TypeOK /\ CheckInv /\ CallInv("check")
      /\ StageOf["check"] = "CLIENT_VERIFYING"
      /\ Commits("check") /\ End("check") /\ Move("check", verdict)
      /\ row' = row /\ history' = history /\ torrent' = torrent /\ task["check"].pc = "done"
      /\ skip' = skip /\ links' = links /\ plan' = plan
      /\ observed' = IF stage = "CLIENT_VERIFYING" /\ seen.state # "active"
                     THEN CheckObserved ELSE observed
  BY DEF FinishCheck, Commits, EngineInv, Driven, StageOf, Ops, At
<1>2. verdict \in {"SEEDING", "RETRY", "CLIENT_VERIFYING"}
  OBVIOUS
<1>3. verdict = "SEEDING" => ~Unchecked
  BY <1>1, VerdictIsProven DEF At
<1>4. observed' \in BOOLEAN /\ (observed' => CheckObserved)
  BY <1>1 DEF TypeOK, CheckObserved
<1>5. /\ stage' \in Stage
      /\ stage' = stage \/ (stage = "CLIENT_VERIFYING" /\ stage' = verdict)
  BY <1>1, <1>2 DEF Move, TypeOK, Stage
<1>6. row["check"].status # "NONE" /\ task'["check"].pc = "idle"
  BY <1>1, RecordTypes DEF CallInv, End, Idle
<1> HIDE DEF seen, verdict
<1>7. CheckInv'
  <2>1. Unchecked' = Unchecked
    BY <1>1 DEF Unchecked, Is
  <2>2. Unchecked /\ Ours(torrent) /\ torrent.full => ~observed'
    BY <1>1, <1>4 DEF CheckInv, CheckObserved, At
  <2>3. stage' = "SEEDING" /\ ~skip => ~Unchecked
    BY <1>1, <1>3, <1>5 DEF CheckInv
  <2> QED BY <1>1, <1>6, <2>1, <2>2, <2>3 DEF CheckInv, Is, At, Ours, Complete, Checking
<1> QED BY <1>1, <1>2, <1>4, <1>5, <1>7, StageEnds

LEMMA FinishStartSound ==
  ASSUME EngineInv, FinishStart PROVE EngineInv'
<1>1. /\ "start" \in Driven /\ "start" \in Ops /\ TypeOK /\ CheckInv /\ StageOf["start"] = "SEEDING"
      /\ Commits("start") /\ End("start") /\ Move("start", "DONE")
      /\ row' = row /\ history' = history /\ torrent' = torrent
      /\ observed' = observed /\ skip' = skip /\ links' = links /\ plan' = plan
  BY DEF FinishStart, Commits, EngineInv, Driven, StageOf, Ops
<1>2. /\ stage' \in Stage /\ observed' \in BOOLEAN
      /\ stage' = stage \/ (stage = "SEEDING" /\ stage' = "DONE")
  BY <1>1 DEF Move, TypeOK, Stage
<1>3. \A o \in Ops \ {"start"} : task'[o] = task[o]
  BY <1>1, RecordTypes DEF End
<1>4. CheckInv'
  BY <1>1, <1>2, <1>3 DEF CheckInv, Unchecked, Is, At, Ours, Complete, Checking, Ops
<1> QED BY <1>1, <1>2, <1>4, StageEnds

LEMMA CancelSound ==
  ASSUME EngineInv, Cancel PROVE EngineInv'
<1>1. PICK p \in Plan : /\ stage \in Cancellable /\ plan' = p
                        /\ CancelAtOnce(p) \/ CancelRemoving(p)
                        /\ observed' = observed /\ skip' = skip
  BY DEF Cancel
<1>2. /\ TypeOK /\ Own /\ StartInv /\ CheckInv /\ GoneInv /\ (\A o \in Ops : CallInv(o))
      /\ kind' = kind /\ torrent' = torrent /\ wire' = wire /\ answered' = answered
      /\ row' = row /\ history' = history /\ task' = task
  BY <1>1 DEF EngineInv, CancelAtOnce, CancelRemoving, downloaderVars
<1>3. links /\ task["remove"].pc = "idle"
  BY <1>1, <1>2 DEF GoneInv, Cancellable, At
<1>4. /\ links' \in BOOLEAN /\ stage' \in {"CANCELLED", "ROLLING_BACK"}
      /\ ~links' => stage' = "CANCELLED" /\ ~(p.add /\ p.remove)
  BY <1>1, <1>3 DEF CancelAtOnce, CancelRemoving, Unlink
<1>5. TypeOK'
  BY <1>1, <1>2, <1>4 DEF TypeOK, DownloaderTypeOK, Is, Stage
<1>6. (\A o \in Ops : CallInv(o)') /\ Own' /\ StartInv'
  BY <1>2 DEF CallInv, Own, StartInv, Is, At, Ours, Incomplete
<1>7. CheckInv'
  BY <1>1, <1>2, <1>4 DEF CheckInv, Unchecked, Is, At, Ours, Complete, Checking
<1>8. GoneInv'
  <2>1. Gone' = Gone
    BY <1>2 DEF Gone, Ours
  <2> QED BY <1>1, <1>2, <1>3, <1>4, <2>1 DEF GoneInv, Is, At
<1> QED BY <1>5, <1>6, <1>7, <1>8 DEF EngineInv

\* The plan of a release is frozen only for a task whose add is applied.
LEMMA RemoveSound ==
  ASSUME EngineInv, Remove PROVE EngineInv'
<1>1. /\ "remove" \in Ops /\ TypeOK /\ Own /\ GoneInv /\ Begin("remove") /\ Authorised("remove")
      /\ stage \in {"ROLLING_BACK", "DONE"} /\ row["add"].status = "APPLIED"
      /\ stage' = stage /\ observed' = observed /\ skip' = skip /\ links' = links
      /\ plan' = IF stage = "DONE" THEN ReleasePlan ELSE plan
  BY DEF EngineInv, Remove, Ops, Authorised, Is
<1>2. plan' \in Plan
  BY <1>1 DEF TypeOK, Plan, ReleasePlan, Is
<1>3. TypeOK' /\ (\A o \in Ops : CallInv(o)') /\ Own' /\ StartInv' /\ CheckInv'
  BY <1>1, <1>2, BeginSound DEF TypeOK
<1>4. GoneInv'
  <2>1. Gone' = Gone /\ row' = row /\ task'["add"] = task["add"]
    BY <1>1, BeginEffect DEF Gone, Ours, Ops
  <2>2. ~links => Gone
    BY <1>1 DEF GoneInv, Is
  <2> QED BY <1>1, <2>1, <2>2 DEF GoneInv, Is, At
<1> QED BY <1>3, <1>4 DEF EngineInv

\* A removal that has returned has seen the torrent gone.
LEMMA FinishRemoveSound ==
  ASSUME EngineInv, FinishRemove PROVE EngineInv'
<1>1. /\ "remove" \in Ops /\ TypeOK /\ CheckInv /\ GoneInv /\ CallInv("remove") /\ End("remove")
      /\ row' = row /\ history' = history /\ torrent' = torrent
      /\ UNCHANGED <<kind, torrent, wire, answered, row, history>>
      /\ task["remove"].pc = "done" /\ links' = (links /\ ~plan.rollback)
      /\ stage' = (IF stage = "ROLLING_BACK" THEN "CANCELLED" ELSE stage)
      /\ observed' = observed /\ skip' = skip /\ plan' = plan
  BY DEF EngineInv, FinishRemove, Commits, Unlink, Ops, At
<1>2. Gone /\ stage \in {"ROLLING_BACK", "DONE", "CANCELLED"}
  BY <1>1 DEF CallInv, GoneInv, At
<1>3. /\ DownloaderTypeOK' /\ (\A o \in Ops : CallInv(o)') /\ Own' /\ StartInv'
      /\ task'["remove"].pc = "idle" /\ \A o \in Ops \ {"remove"} : task'[o] = task[o]
  BY <1>1, EndSound
<1>4. TypeOK'
  BY <1>1, <1>3 DEF TypeOK, Stage, Plan
<1>5. CheckInv'
  BY <1>1, <1>2, <1>3 DEF CheckInv, Unchecked, Is, At, Ours, Complete, Checking, Ops
<1>6. GoneInv'
  <2>1. Gone' /\ task'["add"] = task["add"]
    BY <1>1, <1>2, <1>3 DEF Gone, Ours, Ops
  <2> QED BY <1>1, <1>2, <2>1 DEF GoneInv, Is, At
<1> QED BY <1>3, <1>4, <1>5, <1>6 DEF EngineInv

LEMMA ReleaseFilesSound ==
  ASSUME EngineInv, ReleaseFiles PROVE EngineInv'
<1>1. /\ TypeOK /\ Own /\ StartInv /\ CheckInv /\ GoneInv /\ (\A o \in Ops : CallInv(o))
      /\ kind' = kind /\ torrent' = torrent /\ wire' = wire /\ answered' = answered
      /\ row' = row /\ history' = history /\ task' = task
      /\ stage = "DONE" /\ stage' = stage /\ observed' = observed /\ skip' = skip
      /\ row["add"].status = "NONE" /\ links' = (links /\ ~ReleasePlan.rollback)
      /\ plan' = ReleasePlan
  BY DEF EngineInv, ReleaseFiles, Unlink, downloaderVars
<1>2. plan' \in Plan /\ ~plan'.add
  BY <1>1 DEF Plan, ReleasePlan, Is
<1>3. TypeOK'
  BY <1>1, <1>2 DEF TypeOK, DownloaderTypeOK, Is
<1>4. (\A o \in Ops : CallInv(o)') /\ Own' /\ StartInv'
  BY <1>1 DEF CallInv, Own, StartInv, Is, At, Ours, Incomplete
<1>5. CheckInv'
  BY <1>1 DEF CheckInv, Unchecked, Is, At, Ours, Complete, Checking
<1>6. GoneInv'
  <2>1. Gone' = Gone
    BY <1>1 DEF Gone, Ours
  <2> QED BY <1>1, <1>2, <2>1 DEF GoneInv, Is, At
<1> QED BY <1>3, <1>4, <1>5, <1>6 DEF EngineInv

-----------------------------------------------------------------------------
(* The theorems. *)

LEMMA EngineInit == Init => EngineInv
<1> SUFFICES ASSUME Init PROVE EngineInv
  OBVIOUS
<1>1. DownloaderInit /\ stage = "ADDING" /\ observed = FALSE /\ links = TRUE /\ plan = NoPlan
      /\ skip \in BOOLEAN
  BY DEF Init
<1>2. /\ torrent \in Torrent /\ torrent.owner # "ours"
  BY <1>1 DEF DownloaderInit, Torrent, States, Absent
<1>3. /\ row = [o \in Ops |-> NoRow] /\ task = [o \in Ops |-> Idle]
      /\ \A o \in Ops : /\ row[o] = NoRow /\ row[o].status = "NONE" /\ row[o].after = Absent
                        /\ task[o] = Idle /\ task[o].pc = "idle"
      /\ NoRow \in Row /\ Idle \in Call
  BY <1>1 DEF DownloaderInit, NoRow, Idle, Row, Call, Status, Pcs, Torrent
<1>4. /\ history \in History /\ ~history.touched /\ ~history.wrote /\ ~history.stale
      /\ history.asked = 0 /\ ~history.added
  BY <1>1 DEF DownloaderInit, History
<1>5. TypeOK
  BY <1>1, <1>2, <1>3, <1>4 DEF DownloaderInit, TypeOK, DownloaderTypeOK, Is, Stage, Plan, NoPlan
<1>6. \A o \in Ops : CallInv(o)
  BY <1>3 DEF CallInv, Running
<1>7. Own
  BY <1>2, <1>3, <1>4 DEF Own, Is, At, Ours, Ops
<1>8. StartInv
  BY <1>1, <1>3, <1>4 DEF StartInv, DownloaderInit, At, Ops
<1>9. CheckInv
  BY <1>1, <1>3, <1>4 DEF CheckInv, Unchecked, Is, At, Ops
<1>10. GoneInv
  BY <1>1, <1>3 DEF GoneInv, Is, At, Ops, NoPlan
<1> QED BY <1>5, <1>6, <1>7, <1>8, <1>9, <1>10 DEF EngineInv

LEMMA EngineStutter ==
  ASSUME EngineInv, UNCHANGED vars PROVE EngineInv'
<1>1. /\ kind' = kind /\ torrent' = torrent /\ wire' = wire /\ answered' = answered
      /\ row' = row /\ history' = history /\ task' = task
      /\ stage' = stage /\ observed' = observed /\ skip' = skip /\ links' = links /\ plan' = plan
  BY DEF vars
<1>2. TypeOK'
  BY <1>1 DEF EngineInv, TypeOK, DownloaderTypeOK, Is
<1>3. (\A o \in Ops : CallInv(o)') /\ Own' /\ StartInv'
  BY <1>1 DEF EngineInv, CallInv, Own, StartInv, Is, At, Ours, Incomplete
<1>4. CheckInv'
  BY <1>1 DEF EngineInv, CheckInv, Unchecked, Is, At, Ours, Complete, Checking
<1>5. GoneInv'
  BY <1>1 DEF EngineInv, GoneInv, Gone, Is, At, Ours
<1> QED BY <1>2, <1>3, <1>4, <1>5 DEF EngineInv

LEMMA EngineStep == EngineInv /\ [Next]_vars => EngineInv'
<1> SUFFICES ASSUME EngineInv, [Next]_vars PROVE EngineInv'
  OBVIOUS
<1>1. CASE UNCHANGED vars
  BY <1>1, EngineStutter
<1>2. CASE Drive
  BY <1>2, EnterSound, FindExistingSound, FinishAddSound, FinishCheckSound, FinishStartSound DEF Drive
<1>3. CASE Cancel \/ Remove \/ FinishRemove \/ ReleaseFiles
  BY <1>3, CancelSound, RemoveSound, FinishRemoveSound, ReleaseFilesSound
<1>4. CASE CallSteps /\ UNCHANGED engineVars
  BY <1>4, SendSound, StopSound, UnansweredSound, ReconcileSound, AddLookSound, AddAnsweredSound,
     AddConfirmSound, AddStoppedSound, CheckLookSound, CheckAnsweredSound, CheckConfirmSound,
     StartLookSound, StartAnsweredSound, StartConfirmSound, RemoveLookSound, RemoveStoppedSound,
     RemoveAnsweredSound DEF CallSteps
<1>5. CASE ClientSteps /\ UNCHANGED engineVars
  BY <1>5, ClientAcceptsSound, ClientAddsSound, ClientChecksSound, ClientStartsSound,
     ClientStopsSound, ClientRemovesSound, ClientEndsSound, MeddleSound DEF ClientSteps
<1>6. CASE Crash /\ UNCHANGED engineVars
  BY <1>6, CrashSound
<1> QED BY <1>1, <1>2, <1>3, <1>4, <1>5, <1>6 DEF Next

\* The inductive invariant of a task on its client holds of every behaviour,
\* for any number of calls, faults and acts of a user.
THEOREM EngineInvariant == Spec => []EngineInv
BY EngineInit, EngineStep, PTL DEF Spec

\* A check is asked for once, and a task seeds only a torrent that its client
\* has checked after it was asked to (task_client_verification.py).
THEOREM ChecksReallyRun == Spec => []ChecksAreReal
<1>1. EngineInv => ChecksAreReal
  BY DEF EngineInv, CheckInv, ChecksAreReal, VerifiedReallyChecked, CheckAskedOnce, Unchecked
<1> QED BY <1>1, EngineInvariant, PTL

\* Torrents of others are left alone, a start never writes over linked files,
\* and files are rolled back after their torrent (downloader_operations.py).
THEOREM NothingIsHarmed == Spec => []NoHarmDone
<1>1. EngineInv => NoHarmDone
  BY DEF EngineInv, Own, StartInv, GoneInv, Gone, NoHarmDone, OthersUntouched, StartWritesNothing,
         RemovedBeforeFiles
<1> QED BY <1>1, EngineInvariant, PTL
=============================================================================
