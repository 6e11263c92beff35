--------------------------- MODULE BackgroundProofs ---------------------------
(***************************************************************************)
(* Safety of what goes on behind the application: the upgrade of it by     *)
(* itself, for any number of requests and of faults, and the monitor of a  *)
(* directory, for any number of files, writes, scans and edits.            *)
(*                                                                         *)
(* Upgrade: one container runs at most, never on a database that a newer   *)
(* one has migrated, and the application runs under its name when nobody   *)
(* is called for help.  The invariant says, for each step of a helper,     *)
(* what it has done and not yet undone.                                    *)
(*                                                                         *)
(* Monitor: what a scan has seen has its task, and what it has settled has *)
(* one too before the scan is over.  The invariant follows the keys of the *)
(* files through the page, the waits and the watermark of a scan.          *)
(***************************************************************************)
EXTENDS MCServices, FiniteSetTheorems, WellFoundedInduction, TLAPS

-----------------------------------------------------------------------------
(* The upgrade of the application. *)

\* The steps of a helper before and after it has stopped the old container.
UpgradeEarly == {"begin", "plan", "pull", "stop"}
UpgradeLate == {"backup", "rename", "create", "start", "verify", "remove",
                "undo new", "undo db", "undo name", "undo stop", "undone"}
UpgradeHelper ==
  [step : {"none", "gone"} \cup UpgradeEarly \cup UpgradeLate, own : Upgrade!Containers \cup {"none"},
   stopped : BOOLEAN, renamed : BOOLEAN, made : BOOLEAN, written : BOOLEAN, backup : Nat]
UpgradeOps == {"stop", "rename", "create", "start", "remove", "undo new", "undo db", "undo name", "undo stop"}
UpgradeWell == upgradePast.lost = {}
UpgradeStarted == "start" \in upgradePast.lost
UpgradeMoving == {"stopping", "starting", "verifying", "rolling_back", "manual"}

UpgradeTypeInv ==
  /\ upgradeStatus \in [phase : Upgrade!Phases, request : UpgradeRequests \cup {"none"}] /\ upgradeFresh \in BOOLEAN
  /\ upgradeApi \in [UpgradeRequests -> {"idle", "admitted", "entered", "boot"}]
  /\ upgradePoll \in [step : {"none", "look"}, seen : [phase : Upgrade!Phases, request : UpgradeRequests \cup {"none"}]]
  /\ upgradeHelper \in [UpgradeRequests -> UpgradeHelper]
  /\ upgradeBox \in [Upgrade!Containers -> {"absent", "created", "running", "stopped"}]
  /\ upgradeName \in Upgrade!Containers \cup {"none"} /\ upgradeDb \in Nat /\ upgradeVersion \in [Upgrade!Containers -> Nat]
  /\ upgradePast \in [lost : SUBSET UpgradeOps, crossed : BOOLEAN] /\ upgradeFaults \in 0..UpgradeFaults

\* One container runs, one helper works, and what asks for an upgrade runs under
\* the name.
UpgradeOneInv ==
  /\ \A c, d \in Upgrade!Containers : upgradeBox[c] = "running" /\ upgradeBox[d] = "running" => c = d
  /\ \A c \in Upgrade!Containers : upgradeBox[c] = "running" => upgradeDb <= upgradeVersion[c] \/ UpgradeStarted
  /\ \A r, s \in UpgradeRequests : Upgrade!Works(r) /\ Upgrade!Works(s) => r = s
  /\ \A r \in UpgradeRequests : upgradeApi[r] # "idle" => Upgrade!Serving /\ upgradeHelper[r] = Upgrade!NoHelper
  /\ \A r \in UpgradeRequests : upgradeHelper[r] = Upgrade!NoHelper => upgradeBox[r] = "absent" /\ upgradeName # r
  /\ UpgradeWell /\ upgradeStatus.phase \notin UpgradeMoving => Upgrade!Serving

\* What a helper that has not stopped anything leaves as it was.
UpgradeEarlyInv(r) ==
  upgradeHelper[r].step \in UpgradeEarly =>
    /\ Upgrade!Serving /\ upgradeBox[r] = "absent" /\ upgradeName # r /\ upgradeHelper[r].backup = 0
    /\ ~upgradeHelper[r].stopped /\ ~upgradeHelper[r].renamed /\ ~upgradeHelper[r].made /\ ~upgradeHelper[r].written
    /\ upgradeHelper[r].step \in {"pull", "stop"} => Upgrade!Own(r) = upgradeName
    /\ upgradeHelper[r].step = "stop" => upgradeStatus.phase \in UpgradeMoving

\* What the steps so far have made of the old container and of the new one.
UpgradeForthInv(r) ==
  /\ upgradeHelper[r].step \in {"backup", "rename"} =>
       /\ upgradeName = Upgrade!Own(r) /\ upgradeBox[r] = "absent"
       /\ ~upgradeHelper[r].renamed /\ ~upgradeHelper[r].made /\ ~upgradeHelper[r].written
  /\ upgradeHelper[r].step = "create" =>
       /\ upgradeName = "none" /\ upgradeBox[r] = "absent"
       /\ upgradeHelper[r].renamed /\ ~upgradeHelper[r].made /\ ~upgradeHelper[r].written
  /\ upgradeHelper[r].step = "start" =>
       /\ upgradeName = r /\ upgradeBox[r] = "created"
       /\ upgradeHelper[r].renamed /\ upgradeHelper[r].made /\ ~upgradeHelper[r].written
  /\ upgradeHelper[r].step \in {"verify", "remove"} =>
       /\ upgradeName = r /\ upgradeBox[r] = "running"
       /\ upgradeHelper[r].renamed /\ upgradeHelper[r].made /\ upgradeHelper[r].written
  /\ upgradeHelper[r].step \in {"start", "verify", "remove"} => upgradeVersion[Upgrade!Own(r)] < upgradeVersion[r]
  /\ upgradeHelper[r].step \in {"backup", "rename", "create", "start", "verify", "remove"} => upgradeBox[Upgrade!Own(r)] = "stopped"

\* What is still to be undone.
UpgradeBackInv(r) ==
  /\ upgradeHelper[r].step = "undo new" =>
       /\ ~upgradeHelper[r].made => upgradeBox[r] # "running"
       /\ UpgradeWell => (upgradeName = r <=> upgradeHelper[r].made)
  /\ upgradeHelper[r].step \in {"undo db", "undo name", "undo stop", "undone"} => upgradeBox[r] # "running" /\ (UpgradeWell => upgradeName # r)
  /\ upgradeHelper[r].step \in {"undo new", "undo db", "undo name"} /\ UpgradeWell =>
       upgradeName = Upgrade!Own(r) <=> ~upgradeHelper[r].renamed
  /\ upgradeHelper[r].step \in {"undo new", "undo db", "undo name"} /\ UpgradeWell =>
       upgradeName \in {"none", r, Upgrade!Own(r)}
  /\ upgradeHelper[r].step \in {"undo stop", "undone"} /\ UpgradeWell => upgradeName = Upgrade!Own(r)
  /\ upgradeHelper[r].step = "undone" => upgradeBox[Upgrade!Own(r)] = "running"
  /\ upgradeHelper[r].step \in {"undo new", "undo db", "undo name", "undo stop"} =>
       upgradeBox[Upgrade!Own(r)] # "running" /\ (UpgradeWell => upgradeBox[Upgrade!Own(r)] = "stopped")

UpgradeLateInv(r) ==
  upgradeHelper[r].step \in UpgradeLate =>
    /\ Upgrade!Own(r) \in Upgrade!Containers \ {r} /\ upgradeHelper[r].stopped /\ upgradeStatus.phase \in UpgradeMoving
    /\ \A c \in Upgrade!Containers : upgradeBox[c] = "running" => c \in {r, Upgrade!Own(r)}
    /\ upgradeHelper[r].backup <= upgradeVersion[Upgrade!Own(r)] \/ UpgradeStarted
    /\ upgradeDb <= upgradeVersion[Upgrade!Own(r)] \/ UpgradeStarted \/ (upgradeHelper[r].written /\ upgradeHelper[r].step \notin {"undo name", "undo stop", "undone"})

UpgradeRest == UpgradeOneInv /\ \A r \in UpgradeRequests : UpgradeEarlyInv(r) /\ UpgradeForthInv(r) /\ UpgradeBackInv(r) /\ UpgradeLateInv(r)

\* Past its first step, the one helper at work owns the state file.
UpgradeAskInv == \A r \in UpgradeRequests : upgradeHelper[r].step \notin {"none", "gone", "begin"} => upgradeStatus.request = r
UpgradeInv == UpgradeTypeInv /\ (~upgradePast.crossed => UpgradeRest /\ UpgradeAskInv)

-----------------------------------------------------------------------------
LEMMA UpgradeTypes ==
  ASSUME UpgradeTypeInv, NEW r \in UpgradeRequests
  PROVE  /\ upgradeHelper[r] \in UpgradeHelper /\ upgradeHelper[r].step \in {"none", "gone"} \cup UpgradeEarly \cup UpgradeLate
         /\ Upgrade!Own(r) \in Upgrade!Containers \cup {"none"} /\ upgradeHelper[r].backup \in Nat
         /\ Upgrade!Gone \in UpgradeHelper /\ Upgrade!Gone.step = "gone" /\ Upgrade!NoHelper \in UpgradeHelper /\ Upgrade!NoHelper.step = "none"
         /\ r # "first" /\ r # "none" /\ r \in Upgrade!Containers /\ "none" \notin Upgrade!Containers
         /\ upgradeStatus \in [phase : Upgrade!Phases, request : UpgradeRequests \cup {"none"}]
<1>1. upgradeHelper[r] \in UpgradeHelper
  BY DEF UpgradeTypeInv
<1>2. Upgrade!Gone \in UpgradeHelper /\ Upgrade!Gone.step = "gone" /\ Upgrade!NoHelper \in UpgradeHelper /\ Upgrade!NoHelper.step = "none"
  BY DEF Upgrade!Gone, Upgrade!NoHelper, UpgradeHelper
<1> QED BY <1>1, <1>2, UpgradeAssumption DEF UpgradeHelper, UpgradeTypeInv, Upgrade!Own, Upgrade!Containers

LEMMA UpgradeSets ==
  ASSUME UpgradeTypeInv, NEW r \in UpgradeRequests, NEW step \in UpgradeLate,
         NEW field \in {"stopped", "renamed", "made", "written"}, Upgrade!Set(r, step, field)
  PROVE  \E h \in UpgradeHelper :
           /\ upgradeHelper' = [upgradeHelper EXCEPT ![r] = h] /\ h.step = step
           /\ h.own = upgradeHelper[r].own /\ h.backup = upgradeHelper[r].backup
           /\ h.stopped = (upgradeHelper[r].stopped \/ field = "stopped")
           /\ h.renamed = (upgradeHelper[r].renamed \/ field = "renamed")
           /\ h.made = (upgradeHelper[r].made \/ field = "made")
           /\ h.written = (upgradeHelper[r].written \/ field = "written")
<1> DEFINE g == [upgradeHelper[r] EXCEPT !.step = step]
           h == [g EXCEPT ![field] = TRUE]
<1>1. upgradeHelper[r] \in UpgradeHelper
  BY UpgradeTypes
<1>2. /\ g \in UpgradeHelper /\ g.step = step /\ g.own = upgradeHelper[r].own /\ g.backup = upgradeHelper[r].backup
      /\ g.stopped = upgradeHelper[r].stopped /\ g.renamed = upgradeHelper[r].renamed
      /\ g.made = upgradeHelper[r].made /\ g.written = upgradeHelper[r].written
  BY <1>1 DEF UpgradeHelper
<1> HIDE DEF g
<1>3. /\ h \in UpgradeHelper /\ h.step = g.step /\ h.own = g.own /\ h.backup = g.backup
      /\ h.stopped = (g.stopped \/ field = "stopped") /\ h.renamed = (g.renamed \/ field = "renamed")
      /\ h.made = (g.made \/ field = "made") /\ h.written = (g.written \/ field = "written")
  <2>1. CASE field = "stopped"
    BY <1>2, <2>1 DEF UpgradeHelper
  <2>2. CASE field = "renamed"
    BY <1>2, <2>2 DEF UpgradeHelper
  <2>3. CASE field = "made"
    BY <1>2, <2>3 DEF UpgradeHelper
  <2>4. CASE field = "written"
    BY <1>2, <2>4 DEF UpgradeHelper
  <2> QED BY <2>1, <2>2, <2>3, <2>4
<1>4. upgradeHelper' = [upgradeHelper EXCEPT ![r] = h]
  BY DEF Upgrade!Set, h, g
<1> HIDE DEF h
<1> QED BY <1>2, <1>3, <1>4

LEMMA UpgradeMoves ==
  ASSUME UpgradeTypeInv, NEW r \in UpgradeRequests, NEW step \in UpgradeEarly \cup UpgradeLate, Upgrade!Goto(r, step)
  PROVE  \E h \in UpgradeHelper :
           /\ upgradeHelper' = [upgradeHelper EXCEPT ![r] = h] /\ h.step = step
           /\ h.own = upgradeHelper[r].own /\ h.backup = upgradeHelper[r].backup
           /\ h.stopped = upgradeHelper[r].stopped /\ h.renamed = upgradeHelper[r].renamed
           /\ h.made = upgradeHelper[r].made /\ h.written = upgradeHelper[r].written
<1> DEFINE h == [upgradeHelper[r] EXCEPT !.step = step]
<1>1. upgradeHelper[r] \in UpgradeHelper
  BY UpgradeTypes
<1>2. /\ h \in UpgradeHelper /\ h.step = step /\ h.own = upgradeHelper[r].own /\ h.backup = upgradeHelper[r].backup
      /\ h.stopped = upgradeHelper[r].stopped /\ h.renamed = upgradeHelper[r].renamed
      /\ h.made = upgradeHelper[r].made /\ h.written = upgradeHelper[r].written
  BY <1>1 DEF UpgradeHelper
<1>3. upgradeHelper' = [upgradeHelper EXCEPT ![r] = h]
  BY DEF Upgrade!Goto, h
<1> QED BY <1>2, <1>3

\* What the step of one helper leaves to the others.
LEMMA UpgradeFrame ==
  ASSUME UpgradeTypeInv, UpgradeRest, NEW r \in UpgradeRequests, Upgrade!Works(r), NEW h \in UpgradeHelper,
         upgradeHelper' = [upgradeHelper EXCEPT ![r] = h], h.step # "none",
         \A s \in UpgradeRequests \ {r} : upgradeHelper[s] = Upgrade!NoHelper => upgradeBox'[s] = "absent" /\ upgradeName' # s,
         \A s \in UpgradeRequests : upgradeApi'[s] # "idle" => upgradeApi[s] # "idle" /\ Upgrade!Serving',
         \A c, d \in Upgrade!Containers : upgradeBox'[c] = "running" /\ upgradeBox'[d] = "running" => c = d,
         \A c \in Upgrade!Containers : upgradeBox'[c] = "running" => upgradeDb' <= upgradeVersion'[c] \/ UpgradeStarted',
         UpgradeWell' /\ upgradeStatus'.phase \notin UpgradeMoving => Upgrade!Serving',
         UpgradeEarlyInv(r)', UpgradeForthInv(r)', UpgradeBackInv(r)', UpgradeLateInv(r)'
  PROVE  UpgradeRest'
<1>1. /\ upgradeHelper \in [UpgradeRequests -> UpgradeHelper] /\ upgradeHelper'[r] = h
      /\ \A s \in UpgradeRequests \ {r} : upgradeHelper'[s] = upgradeHelper[s]
  BY DEF UpgradeTypeInv
<1>2. \A s \in UpgradeRequests \ {r} : upgradeHelper[s].step \in {"none", "gone"}
  BY DEF UpgradeRest, UpgradeOneInv, Upgrade!Works
<1>3. Upgrade!NoHelper.step = "none"
  BY UpgradeTypes
<1>4. \A s \in UpgradeRequests : upgradeHelper'[s] = Upgrade!NoHelper => s # r /\ upgradeHelper[s] = Upgrade!NoHelper
  BY <1>1, <1>3
<1>5. UpgradeOneInv'
  <2>1. \A s, t \in UpgradeRequests : Upgrade!Works(s)' /\ Upgrade!Works(t)' => s = t
    BY <1>1, <1>2 DEF Upgrade!Works
  <2>2. \A s \in UpgradeRequests : upgradeApi'[s] # "idle" => Upgrade!Serving' /\ upgradeHelper'[s] = Upgrade!NoHelper
    <3>1. \A s \in UpgradeRequests : upgradeApi[s] # "idle" => upgradeHelper[s] = Upgrade!NoHelper
      BY DEF UpgradeRest, UpgradeOneInv
    <3>2. upgradeHelper[r] # Upgrade!NoHelper
      BY <1>3 DEF Upgrade!Works
    <3> QED BY <1>1, <3>1, <3>2
  <2>3. \A s \in UpgradeRequests : upgradeHelper'[s] = Upgrade!NoHelper => upgradeBox'[s] = "absent" /\ upgradeName' # s
    BY <1>4
  <2> QED BY <2>1, <2>2, <2>3 DEF UpgradeOneInv
<1>6. ASSUME NEW s \in UpgradeRequests \ {r}
      PROVE  UpgradeEarlyInv(s)' /\ UpgradeForthInv(s)' /\ UpgradeBackInv(s)' /\ UpgradeLateInv(s)'
  <2>1. upgradeHelper'[s].step \in {"none", "gone"}
    BY <1>1, <1>2
  <2> QED BY <2>1 DEF UpgradeEarlyInv, UpgradeForthInv, UpgradeBackInv, UpgradeLateInv, UpgradeEarly, UpgradeLate
<1> QED BY <1>5, <1>6 DEF UpgradeRest

\* A helper that is gone has nothing to say.
LEMMA UpgradeGone ==
  ASSUME NEW r \in UpgradeRequests, upgradeHelper'[r].step = "gone"
  PROVE  UpgradeEarlyInv(r)' /\ UpgradeForthInv(r)' /\ UpgradeBackInv(r)' /\ UpgradeLateInv(r)'
BY DEF UpgradeEarlyInv, UpgradeForthInv, UpgradeBackInv, UpgradeLateInv, UpgradeEarly, UpgradeLate

\* What a helper that goes back finds.
LEMMA UpgradeBacks ==
  ASSUME UpgradeTypeInv, UpgradeRest, NEW r \in UpgradeRequests, Upgrade!Back(r), upgradeHelper[r].step \in UpgradeLate,
         upgradePast'.crossed = upgradePast.crossed,
         \A s \in UpgradeRequests \ {r} : upgradeHelper[s] = Upgrade!NoHelper => upgradeBox'[s] = "absent" /\ upgradeName' # s,
         \A s \in UpgradeRequests : upgradeApi'[s] # "idle" => upgradeApi[s] # "idle" /\ Upgrade!Serving',
         \A c, d \in Upgrade!Containers : upgradeBox'[c] = "running" /\ upgradeBox'[d] = "running" => c = d,
         \A c \in Upgrade!Containers : upgradeBox'[c] = "running" => upgradeDb' <= upgradeVersion'[c] \/ UpgradeStarted',
         \A c \in Upgrade!Containers : upgradeBox'[c] = "running" => c \in {r, Upgrade!Own(r)},
         upgradeBox'[Upgrade!Own(r)] # "running", ~upgradeHelper[r].made => upgradeBox'[r] # "running",
         upgradeHelper[r].backup <= upgradeVersion'[Upgrade!Own(r)] \/ UpgradeStarted',
         upgradeDb' <= upgradeVersion'[Upgrade!Own(r)] \/ UpgradeStarted' \/ upgradeHelper[r].written,
         UpgradeWell' => /\ upgradeName' = r <=> upgradeHelper[r].made
                         /\ upgradeName' = Upgrade!Own(r) <=> ~upgradeHelper[r].renamed
                         /\ upgradeName' \in {"none", r, Upgrade!Own(r)} /\ upgradeBox'[Upgrade!Own(r)] = "stopped"
  PROVE  UpgradeRest'
<1>1. upgradeHelper[r].stopped /\ Upgrade!Own(r) \in Upgrade!Containers \ {r} /\ Upgrade!Works(r)
  BY DEF UpgradeRest, UpgradeLateInv, Upgrade!Works, UpgradeLate
<1>2. Upgrade!Goto(r, "undo new") /\ upgradeStatus' = [upgradeStatus EXCEPT !.phase = "rolling_back"]
  BY <1>1 DEF Upgrade!Back, Upgrade!Phase
<1>3. upgradeStatus'.phase = "rolling_back"
  BY <1>2, UpgradeTypes
<1>4. PICK h \in UpgradeHelper :
           /\ upgradeHelper' = [upgradeHelper EXCEPT ![r] = h] /\ h.step = "undo new"
           /\ h.own = upgradeHelper[r].own /\ h.backup = upgradeHelper[r].backup
           /\ h.stopped = upgradeHelper[r].stopped /\ h.renamed = upgradeHelper[r].renamed
           /\ h.made = upgradeHelper[r].made /\ h.written = upgradeHelper[r].written
  <2>1. "undo new" \in UpgradeEarly \cup UpgradeLate
    BY DEF UpgradeLate
  <2> QED BY <1>2, <2>1, UpgradeMoves
<1>5. upgradeHelper'[r] = h
  BY <1>4 DEF UpgradeTypeInv
<1>6. UpgradeEarlyInv(r)' /\ UpgradeForthInv(r)'
  BY <1>4, <1>5 DEF UpgradeEarlyInv, UpgradeForthInv, UpgradeEarly
<1>7. UpgradeBackInv(r)'
  BY <1>4, <1>5 DEF UpgradeBackInv, Upgrade!Own
<1>8. UpgradeLateInv(r)'
  BY <1>1, <1>3, <1>4, <1>5 DEF UpgradeLateInv, Upgrade!Own, UpgradeMoving
<1> QED BY <1>1, <1>3, <1>4, <1>6, <1>7, <1>8, UpgradeFrame DEF UpgradeMoving

UpgradeDockerType ==
  /\ upgradeBox \in [Upgrade!Containers -> {"absent", "created", "running", "stopped"}]
  /\ upgradeName \in Upgrade!Containers \cup {"none"} /\ upgradeDb \in Nat /\ upgradeVersion \in [Upgrade!Containers -> Nat]
  /\ upgradeApi \in [UpgradeRequests -> {"idle", "admitted", "entered", "boot"}]
  /\ upgradePoll \in [step : {"none", "look"}, seen : [phase : Upgrade!Phases, request : UpgradeRequests \cup {"none"}]]

LEMMA UpgradeWrites ==
  ASSUME UpgradeTypeInv, NEW phase \in Upgrade!Phases, Upgrade!Phase(phase)
  PROVE  upgradeStatus' \in [phase : Upgrade!Phases, request : UpgradeRequests \cup {"none"}] /\ upgradeStatus'.phase = phase
BY DEF UpgradeTypeInv, Upgrade!Phase

LEMMA UpgradeReports ==
  ASSUME UpgradeTypeInv, NEW r \in UpgradeRequests, NEW phase \in Upgrade!Phases, Upgrade!Report(r, phase)
  PROVE  /\ upgradeHelper' = [upgradeHelper EXCEPT ![r] = Upgrade!Gone] /\ upgradeHelper' \in [UpgradeRequests -> UpgradeHelper]
         /\ upgradeStatus' \in [phase : Upgrade!Phases, request : UpgradeRequests \cup {"none"}] /\ upgradeStatus'.phase = phase
BY UpgradeWrites, UpgradeTypes DEF Upgrade!Report, UpgradeTypeInv

LEMMA UpgradeBackTypes ==
  ASSUME UpgradeTypeInv, NEW r \in UpgradeRequests, Upgrade!Back(r)
  PROVE  /\ upgradeHelper' \in [UpgradeRequests -> UpgradeHelper]
         /\ upgradeStatus' \in [phase : Upgrade!Phases, request : UpgradeRequests \cup {"none"}]
<1>1. "rolling_back" \in Upgrade!Phases /\ "failed" \in Upgrade!Phases
  BY DEF Upgrade!Phases, Upgrade!Active
<1>2. CASE upgradeHelper[r].stopped
  <2>1. "undo new" \in UpgradeEarly \cup UpgradeLate
    BY DEF UpgradeLate
  <2>2. PICK h \in UpgradeHelper : upgradeHelper' = [upgradeHelper EXCEPT ![r] = h]
    BY <1>2, <2>1, UpgradeMoves DEF Upgrade!Back
  <2> QED BY <1>1, <1>2, <2>2, UpgradeWrites DEF Upgrade!Back, UpgradeTypeInv
<1>3. CASE ~upgradeHelper[r].stopped
  BY <1>1, <1>3, UpgradeReports DEF Upgrade!Back
<1> QED BY <1>2, <1>3

LEMMA UpgradeTyped ==
  ASSUME UpgradeTypeInv, upgradeHelper' \in [UpgradeRequests -> UpgradeHelper], UpgradeDockerType',
         upgradeStatus' \in [phase : Upgrade!Phases, request : UpgradeRequests \cup {"none"}],
         upgradePast' \in [lost : SUBSET UpgradeOps, crossed : BOOLEAN], upgradeFaults' \in 0..UpgradeFaults,
         upgradeFresh' \in BOOLEAN
  PROVE  UpgradeTypeInv'
BY DEF UpgradeTypeInv, UpgradeDockerType

\* A step of a helper that leaves Docker as it is.
LEMMA UpgradeStill ==
  ASSUME UpgradeTypeInv, UpgradeRest, NEW r \in UpgradeRequests, Upgrade!Works(r), NEW h \in UpgradeHelper,
         upgradeHelper' = [upgradeHelper EXCEPT ![r] = h], h.step # "none",
         UNCHANGED <<upgradeFresh, upgradeApi, upgradePoll, upgradeBox, upgradeName, upgradeVersion, upgradeDb, upgradePast>>, upgradeFaults' \in 0..UpgradeFaults,
         upgradeStatus' \in [phase : Upgrade!Phases, request : UpgradeRequests \cup {"none"}],
         UpgradeWell /\ upgradeStatus'.phase \notin UpgradeMoving => Upgrade!Serving,
         UpgradeEarlyInv(r)', UpgradeForthInv(r)', UpgradeBackInv(r)', UpgradeLateInv(r)'
  PROVE  UpgradeTypeInv' /\ UpgradeRest'
<1>1. UpgradeTypeInv'
  BY DEF UpgradeTypeInv
<1>2. /\ \A s \in UpgradeRequests \ {r} : upgradeHelper[s] = Upgrade!NoHelper => upgradeBox'[s] = "absent" /\ upgradeName' # s
      /\ \A s \in UpgradeRequests : upgradeApi'[s] # "idle" => upgradeApi[s] # "idle" /\ Upgrade!Serving'
      /\ \A c, d \in Upgrade!Containers : upgradeBox'[c] = "running" /\ upgradeBox'[d] = "running" => c = d
      /\ \A c \in Upgrade!Containers : upgradeBox'[c] = "running" => upgradeDb' <= upgradeVersion'[c] \/ UpgradeStarted'
      /\ UpgradeWell' /\ upgradeStatus'.phase \notin UpgradeMoving => Upgrade!Serving'
  BY DEF UpgradeRest, UpgradeOneInv, Upgrade!Serving, UpgradeWell, UpgradeStarted
<1>3. UpgradeRest'
  BY <1>2, UpgradeFrame
<1> QED BY <1>1, <1>3

\* A helper that reports, and is gone.
LEMMA UpgradeEnds ==
  ASSUME UpgradeTypeInv, UpgradeRest, NEW r \in UpgradeRequests, Upgrade!Works(r), NEW phase \in Upgrade!Phases,
         Upgrade!Report(r, phase), UNCHANGED <<upgradeFresh, upgradeApi, upgradePoll, upgradeBox, upgradeName, upgradeVersion, upgradeDb, upgradePast>>,
         upgradeFaults' \in 0..UpgradeFaults, UpgradeWell /\ phase \notin UpgradeMoving => Upgrade!Serving
  PROVE  UpgradeTypeInv' /\ UpgradeRest'
<1>1. /\ upgradeHelper' = [upgradeHelper EXCEPT ![r] = Upgrade!Gone] /\ Upgrade!Gone \in UpgradeHelper /\ Upgrade!Gone.step = "gone"
      /\ upgradeStatus' \in [phase : Upgrade!Phases, request : UpgradeRequests \cup {"none"}] /\ upgradeStatus'.phase = phase
  BY UpgradeReports, UpgradeTypes
<1>2. upgradeHelper'[r].step = "gone"
  BY <1>1 DEF UpgradeTypeInv
<1>3. UpgradeEarlyInv(r)' /\ UpgradeForthInv(r)' /\ UpgradeBackInv(r)' /\ UpgradeLateInv(r)'
  BY <1>2, UpgradeGone
<1> QED BY <1>1, <1>3, UpgradeStill

\* A helper that goes back after a step that had no effect.
LEMMA UpgradeTurns ==
  ASSUME UpgradeTypeInv, UpgradeRest, NEW r \in UpgradeRequests, Upgrade!Back(r),
         upgradeHelper[r].step \in {"stop", "backup", "rename", "create", "start", "verify", "remove"},
         UNCHANGED <<upgradeFresh, upgradeApi, upgradePoll, upgradeBox, upgradeName, upgradeVersion, upgradeDb, upgradePast>>, upgradeFaults' \in 0..UpgradeFaults
  PROVE  UpgradeTypeInv' /\ UpgradeRest'
<1>1. UpgradeTypeInv'
  <2>1. UpgradeDockerType' /\ upgradePast' \in [lost : SUBSET UpgradeOps, crossed : BOOLEAN] /\ upgradeFresh' \in BOOLEAN
    BY DEF UpgradeDockerType, UpgradeTypeInv
  <2> QED BY <2>1, UpgradeBackTypes, UpgradeTyped
<1>2. CASE upgradeHelper[r].step = "stop"
  <2>1. Upgrade!Serving /\ ~upgradeHelper[r].stopped /\ Upgrade!Works(r)
    BY <1>2 DEF UpgradeRest, UpgradeEarlyInv, UpgradeEarly, Upgrade!Works
  <2>2. Upgrade!Report(r, "failed") /\ "failed" \in Upgrade!Phases
    BY <2>1 DEF Upgrade!Back, Upgrade!Phases
  <2> QED BY <2>1, <2>2, UpgradeEnds
<1>3. CASE upgradeHelper[r].step # "stop"
  <2>1. upgradeHelper[r].step \in UpgradeLate
    BY <1>3 DEF UpgradeLate
  <2>2. /\ \A c \in Upgrade!Containers : upgradeBox[c] = "running" => c \in {r, Upgrade!Own(r)}
        /\ upgradeHelper[r].backup <= upgradeVersion[Upgrade!Own(r)] \/ UpgradeStarted
        /\ upgradeDb <= upgradeVersion[Upgrade!Own(r)] \/ UpgradeStarted \/ upgradeHelper[r].written
        /\ Upgrade!Own(r) \in Upgrade!Containers \ {r}
    BY <2>1 DEF UpgradeRest, UpgradeLateInv
  <2>3. /\ ~upgradeHelper[r].made => upgradeBox[r] # "running"
        /\ upgradeName = r <=> upgradeHelper[r].made
        /\ upgradeName = Upgrade!Own(r) <=> ~upgradeHelper[r].renamed
        /\ upgradeName \in {"none", r, Upgrade!Own(r)} /\ upgradeBox[Upgrade!Own(r)] = "stopped"
    BY <1>3, <2>2, UpgradeTypes DEF UpgradeRest, UpgradeForthInv
  <2>4. /\ \A s \in UpgradeRequests \ {r} : upgradeHelper[s] = Upgrade!NoHelper => upgradeBox'[s] = "absent" /\ upgradeName' # s
        /\ \A s \in UpgradeRequests : upgradeApi'[s] # "idle" => upgradeApi[s] # "idle" /\ Upgrade!Serving'
        /\ \A c, d \in Upgrade!Containers : upgradeBox'[c] = "running" /\ upgradeBox'[d] = "running" => c = d
        /\ \A c \in Upgrade!Containers : upgradeBox'[c] = "running" => upgradeDb' <= upgradeVersion'[c] \/ UpgradeStarted'
    BY DEF UpgradeRest, UpgradeOneInv, Upgrade!Serving, UpgradeStarted
  <2>5. /\ \A c \in Upgrade!Containers : upgradeBox'[c] = "running" => c \in {r, Upgrade!Own(r)}
        /\ upgradeBox'[Upgrade!Own(r)] # "running" /\ (~upgradeHelper[r].made => upgradeBox'[r] # "running")
        /\ upgradeDb' <= upgradeVersion'[Upgrade!Own(r)] \/ UpgradeStarted' \/ upgradeHelper[r].written
        /\ UpgradeWell' => /\ upgradeName' = r <=> upgradeHelper[r].made
                           /\ upgradeName' = Upgrade!Own(r) <=> ~upgradeHelper[r].renamed
                           /\ upgradeName' \in {"none", r, Upgrade!Own(r)} /\ upgradeBox'[Upgrade!Own(r)] = "stopped"
    BY <2>2, <2>3 DEF UpgradeStarted
  <2>6. upgradeHelper[r].backup <= upgradeVersion'[Upgrade!Own(r)] \/ UpgradeStarted'
    BY <2>2 DEF UpgradeStarted
  <2> QED BY <1>1, <2>1, <2>4, <2>5, <2>6, UpgradeBacks
<1> QED BY <1>2, <1>3

LEMMA UpgradeBegins ==
  ASSUME UpgradeTypeInv, UpgradeRest, NEW r \in UpgradeRequests, Upgrade!Begin(r) \/ Upgrade!Plan(r) \/ Upgrade!Pull(r)
  PROVE  UpgradeTypeInv' /\ UpgradeRest'
<1>1. /\ upgradeHelper[r].step \in {"begin", "plan", "pull"} /\ Upgrade!Works(r)
      /\ UNCHANGED <<upgradeFresh, upgradeApi, upgradePoll, upgradeBox, upgradeName, upgradeVersion, upgradeDb, upgradePast>>
      /\ {"failed", "pulling", "stopping", "accepted"} \subseteq Upgrade!Phases
      /\ upgradeFaults' \in 0..UpgradeFaults
  BY UpgradeAssumption DEF Upgrade!Begin, Upgrade!Plan, Upgrade!Pull, Upgrade!At, Upgrade!Works, Upgrade!docker, Upgrade!Phases, Upgrade!Active, UpgradeTypeInv
<1>2. /\ Upgrade!Serving /\ upgradeBox[r] = "absent" /\ upgradeName # r /\ upgradeHelper[r].backup = 0
      /\ ~upgradeHelper[r].stopped /\ ~upgradeHelper[r].renamed /\ ~upgradeHelper[r].made /\ ~upgradeHelper[r].written
      /\ upgradeHelper[r].step = "pull" => Upgrade!Own(r) = upgradeName
  BY <1>1 DEF UpgradeRest, UpgradeEarlyInv, UpgradeEarly
<1>3. ASSUME NEW h \in UpgradeHelper, upgradeHelper' = [upgradeHelper EXCEPT ![r] = h],
             h.step \in {"plan", "pull", "stop"}, h.backup = 0,
             ~h.stopped, ~h.renamed, ~h.made, ~h.written,
             h.step \in {"pull", "stop"} => h.own = upgradeName,
             h.step = "stop" => upgradeStatus'.phase \in UpgradeMoving,
             upgradeStatus' \in [phase : Upgrade!Phases, request : UpgradeRequests \cup {"none"}]
      PROVE  UpgradeTypeInv' /\ UpgradeRest'
  <2>1. upgradeHelper'[r] = h
    BY <1>3 DEF UpgradeTypeInv
  <2>2. UpgradeEarlyInv(r)'
    BY <1>1, <1>2, <1>3, <2>1 DEF UpgradeEarlyInv, Upgrade!Serving, Upgrade!Own
  <2>3. UpgradeForthInv(r)' /\ UpgradeBackInv(r)' /\ UpgradeLateInv(r)'
    BY <1>3, <2>1 DEF UpgradeForthInv, UpgradeBackInv, UpgradeLateInv, UpgradeLate
  <2> QED BY <1>1, <1>2, <1>3, <2>2, <2>3, UpgradeStill
<1>4. CASE Upgrade!Begin(r)
  <2>1. PICK h \in UpgradeHelper :
           /\ upgradeHelper' = [upgradeHelper EXCEPT ![r] = h] /\ h.step = "plan"
           /\ h.own = upgradeHelper[r].own /\ h.backup = upgradeHelper[r].backup
           /\ h.stopped = upgradeHelper[r].stopped /\ h.renamed = upgradeHelper[r].renamed
           /\ h.made = upgradeHelper[r].made /\ h.written = upgradeHelper[r].written
    <3>1. "plan" \in UpgradeEarly \cup UpgradeLate
      BY DEF UpgradeEarly
    <3> QED BY <1>4, <3>1, UpgradeMoves DEF Upgrade!Begin
  <2>2. upgradeStatus' \in [phase : Upgrade!Phases, request : UpgradeRequests \cup {"none"}]
    BY <1>1, <1>4, UpgradeTypes DEF Upgrade!Begin
  <2> QED BY <1>2, <1>3, <2>1, <2>2
<1>5. CASE Upgrade!Plan(r)
  <2>1. upgradeName # "none"
    BY <1>2 DEF Upgrade!Serving
  <2>2. upgradeHelper' = [upgradeHelper EXCEPT ![r].step = "pull", ![r].own = upgradeName] /\ Upgrade!Phase("pulling")
    BY <1>5, <2>1 DEF Upgrade!Plan
  <2> DEFINE h == [upgradeHelper[r] EXCEPT !.step = "pull", !.own = upgradeName]
  <2>3. upgradeHelper[r] \in UpgradeHelper /\ upgradeName \in Upgrade!Containers \cup {"none"}
    BY DEF UpgradeTypeInv
  <2>4. /\ h \in UpgradeHelper /\ h.step = "pull" /\ h.own = upgradeName /\ h.backup = upgradeHelper[r].backup
        /\ h.stopped = upgradeHelper[r].stopped /\ h.renamed = upgradeHelper[r].renamed
        /\ h.made = upgradeHelper[r].made /\ h.written = upgradeHelper[r].written
    BY <2>3 DEF UpgradeHelper, UpgradeEarly
  <2>5. upgradeHelper' = [upgradeHelper EXCEPT ![r] = h]
    BY <2>2, <2>3 DEF UpgradeTypeInv
  <2>6. upgradeStatus' \in [phase : Upgrade!Phases, request : UpgradeRequests \cup {"none"}]
    BY <1>1, <2>2, UpgradeWrites
  <2> HIDE DEF h
  <2> QED BY <1>2, <1>3, <2>4, <2>5, <2>6
<1>6. CASE Upgrade!Pull(r)
  <2>1. CASE Upgrade!Report(r, "failed")
    BY <1>1, <1>2, <2>1, UpgradeEnds
  <2>2. CASE Upgrade!Goto(r, "stop") /\ Upgrade!Phase("stopping")
    <3>1. PICK h \in UpgradeHelper :
             /\ upgradeHelper' = [upgradeHelper EXCEPT ![r] = h] /\ h.step = "stop"
             /\ h.own = upgradeHelper[r].own /\ h.backup = upgradeHelper[r].backup
             /\ h.stopped = upgradeHelper[r].stopped /\ h.renamed = upgradeHelper[r].renamed
             /\ h.made = upgradeHelper[r].made /\ h.written = upgradeHelper[r].written
      <4>1. "stop" \in UpgradeEarly \cup UpgradeLate
        BY DEF UpgradeEarly
      <4> QED BY <2>2, <4>1, UpgradeMoves
    <3>2. /\ upgradeStatus' \in [phase : Upgrade!Phases, request : UpgradeRequests \cup {"none"}]
          /\ upgradeStatus'.phase \in UpgradeMoving
      BY <1>1, <2>2, UpgradeWrites DEF UpgradeMoving
    <3>3. upgradeHelper[r].step = "pull"
      BY <1>6 DEF Upgrade!Pull, Upgrade!At
    <3> QED BY <1>2, <1>3, <3>1, <3>2, <3>3 DEF Upgrade!Own
  <2> QED BY <1>6, <2>1, <2>2 DEF Upgrade!Pull
<1> QED BY <1>4, <1>5, <1>6

\* What a call that took effect, but whose answer was lost, leaves behind.
LEMMA UpgradeLost ==
  ASSUME UpgradeTypeInv, NEW op \in UpgradeOps, upgradePast' = [upgradePast EXCEPT !.lost = @ \cup {op}]
  PROVE  /\ upgradePast' \in [lost : SUBSET UpgradeOps, crossed : BOOLEAN] /\ upgradePast'.crossed = upgradePast.crossed
         /\ ~UpgradeWell' /\ (UpgradeStarted => UpgradeStarted') /\ (op = "start" => UpgradeStarted')
BY DEF UpgradeTypeInv, UpgradeWell, UpgradeStarted

LEMMA UpgradeStops ==
  ASSUME UpgradeTypeInv, UpgradeRest, NEW r \in UpgradeRequests, Upgrade!Stop(r)
  PROVE  UpgradeTypeInv' /\ UpgradeRest'
<1>1. upgradeHelper[r].step = "stop" /\ Upgrade!Works(r) /\ upgradeFresh' = upgradeFresh
  BY DEF Upgrade!Stop, Upgrade!At, Upgrade!Works
<1>2. /\ Upgrade!Serving /\ upgradeBox[r] = "absent" /\ upgradeName # r /\ upgradeHelper[r].backup = 0 /\ Upgrade!Own(r) = upgradeName
      /\ ~upgradeHelper[r].stopped /\ ~upgradeHelper[r].renamed /\ ~upgradeHelper[r].made /\ ~upgradeHelper[r].written
      /\ upgradeStatus.phase \in UpgradeMoving
  BY <1>1 DEF UpgradeRest, UpgradeEarlyInv, UpgradeEarly
<1>3. Upgrade!Own(r) \in Upgrade!Containers \ {r} /\ upgradeBox[Upgrade!Own(r)] = "running"
  BY <1>2 DEF Upgrade!Serving, UpgradeTypeInv
<1>4. CASE Upgrade!Back(r) /\ UNCHANGED <<Upgrade!docker, upgradeApi, upgradePoll, upgradePast>> /\ upgradeFaults' \in 0..UpgradeFaults
  BY <1>1, <1>4, UpgradeTurns DEF Upgrade!docker
<1>5. ASSUME Upgrade!StopBox(Upgrade!Own(r))
      PROVE  /\ UpgradeDockerType' /\ upgradeBox' = [upgradeBox EXCEPT ![Upgrade!Own(r)] = "stopped"]
             /\ \A s \in UpgradeRequests : upgradeApi'[s] = "idle"
             /\ \A c \in Upgrade!Containers : upgradeBox'[c] # "running"
             /\ UNCHANGED <<upgradeName, upgradeVersion, upgradeDb>>
  <2>1. upgradeBox' = [upgradeBox EXCEPT ![Upgrade!Own(r)] = "stopped"] /\ Upgrade!Dies /\ UNCHANGED <<upgradeName, upgradeVersion, upgradeDb>>
    BY <1>3, <1>5 DEF Upgrade!StopBox
  <2>2. \A c \in Upgrade!Containers : upgradeBox'[c] # "running"
    BY <1>3, <2>1 DEF UpgradeRest, UpgradeOneInv, UpgradeTypeInv
  <2>3. UpgradeDockerType'
    BY <2>1 DEF Upgrade!Dies, Upgrade!NoPoll, Upgrade!Phases, UpgradeDockerType, UpgradeTypeInv
  <2> QED BY <2>1, <2>2, <2>3 DEF Upgrade!Dies
<1>6. CASE /\ Upgrade!StopBox(Upgrade!Own(r)) /\ Upgrade!Set(r, "backup", "stopped")
           /\ UNCHANGED <<upgradeStatus, upgradePast, upgradeFaults>>
  <2>1. PICK h \in UpgradeHelper :
           /\ upgradeHelper' = [upgradeHelper EXCEPT ![r] = h] /\ h.step = "backup"
           /\ h.own = upgradeHelper[r].own /\ h.backup = upgradeHelper[r].backup
           /\ h.stopped /\ h.renamed = upgradeHelper[r].renamed
           /\ h.made = upgradeHelper[r].made /\ h.written = upgradeHelper[r].written
    <3>1. "backup" \in UpgradeLate /\ "stopped" \in {"stopped", "renamed", "made", "written"}
      BY DEF UpgradeLate
    <3>2. upgradeHelper[r] \in UpgradeHelper
      BY UpgradeTypes
    <3> QED BY <1>6, <3>1, <3>2, UpgradeSets DEF UpgradeHelper
  <2>2. upgradeHelper'[r] = h
    BY <2>1 DEF UpgradeTypeInv
  <2>3. UpgradeEarlyInv(r)' /\ UpgradeBackInv(r)'
    BY <2>1, <2>2 DEF UpgradeEarlyInv, UpgradeEarly, UpgradeBackInv
  <2>4. UpgradeForthInv(r)'
    <3>1. upgradeBox'[Upgrade!Own(r)] = "stopped" /\ upgradeBox'[r] = "absent"
      BY <1>2, <1>3, <1>5, <1>6 DEF UpgradeTypeInv, Upgrade!Containers
    <3> QED BY <1>2, <1>5, <1>6, <2>1, <2>2, <3>1 DEF UpgradeForthInv, Upgrade!Own
  <2>5. UpgradeLateInv(r)'
    <3>1. upgradeDb <= upgradeVersion[Upgrade!Own(r)] \/ UpgradeStarted
      BY <1>3 DEF UpgradeRest, UpgradeOneInv
    <3>2. upgradeHelper[r].backup <= upgradeVersion[Upgrade!Own(r)]
      BY <1>2, <1>3 DEF UpgradeTypeInv
    <3> QED BY <1>2, <1>3, <1>5, <1>6, <2>1, <2>2, <3>1, <3>2 DEF UpgradeLateInv, Upgrade!Own, UpgradeStarted
  <2>6. \A s \in UpgradeRequests \ {r} : upgradeHelper[s] = Upgrade!NoHelper => upgradeBox'[s] = "absent" /\ upgradeName' # s
    <3>1. upgradeBox' = [upgradeBox EXCEPT ![Upgrade!Own(r)] = "stopped"] /\ upgradeName' = upgradeName
      BY <1>5, <1>6
    <3>2. \A s \in UpgradeRequests : upgradeHelper[s] = Upgrade!NoHelper => upgradeBox[s] = "absent" /\ upgradeName # s
      BY DEF UpgradeRest, UpgradeOneInv
    <3> QED BY <1>3, <3>1, <3>2 DEF UpgradeTypeInv, Upgrade!Containers
  <2>7. UpgradeRest'
    BY <1>1, <1>2, <1>5, <1>6, <2>1, <2>3, <2>4, <2>5, <2>6, UpgradeFrame
  <2>8. UpgradeTypeInv'
    BY <1>1, <1>5, <1>6, <2>1 DEF UpgradeTypeInv, UpgradeDockerType
  <2> QED BY <2>7, <2>8
<1>7. CASE /\ Upgrade!StopBox(Upgrade!Own(r)) /\ Upgrade!Back(r) /\ upgradeFaults' \in 0..UpgradeFaults
           /\ upgradePast' = [upgradePast EXCEPT !.lost = @ \cup {"stop"}]
  <2>1. Upgrade!Report(r, "failed") /\ "failed" \in Upgrade!Phases
    BY <1>2, <1>7 DEF Upgrade!Back, Upgrade!Phases
  <2>2. /\ upgradeHelper' = [upgradeHelper EXCEPT ![r] = Upgrade!Gone] /\ upgradeHelper' \in [UpgradeRequests -> UpgradeHelper]
        /\ Upgrade!Gone \in UpgradeHelper /\ Upgrade!Gone.step = "gone"
        /\ upgradeStatus' \in [phase : Upgrade!Phases, request : UpgradeRequests \cup {"none"}]
    BY <2>1, UpgradeReports, UpgradeTypes
  <2>3. UpgradeEarlyInv(r)' /\ UpgradeForthInv(r)' /\ UpgradeBackInv(r)' /\ UpgradeLateInv(r)'
    <3>1. upgradeHelper'[r].step = "gone"
      BY <2>2 DEF UpgradeTypeInv
    <3> QED BY <3>1, UpgradeGone
  <2>4. /\ upgradePast' \in [lost : SUBSET UpgradeOps, crossed : BOOLEAN] /\ ~UpgradeWell'
    <3>1. "stop" \in UpgradeOps
      BY DEF UpgradeOps
    <3> QED BY <1>7, <3>1, UpgradeLost
  <2>5. \A s \in UpgradeRequests \ {r} : upgradeHelper[s] = Upgrade!NoHelper => upgradeBox'[s] = "absent" /\ upgradeName' # s
    <3>1. upgradeBox' = [upgradeBox EXCEPT ![Upgrade!Own(r)] = "stopped"] /\ upgradeName' = upgradeName
      BY <1>5, <1>7
    <3>2. \A s \in UpgradeRequests : upgradeHelper[s] = Upgrade!NoHelper => upgradeBox[s] = "absent" /\ upgradeName # s
      BY DEF UpgradeRest, UpgradeOneInv
    <3> QED BY <1>3, <3>1, <3>2 DEF UpgradeTypeInv, Upgrade!Containers
  <2>6. UpgradeRest'
    BY <1>1, <1>5, <1>7, <2>2, <2>3, <2>4, <2>5, UpgradeFrame
  <2> QED BY <1>1, <1>5, <1>7, <2>2, <2>4, <2>6 DEF UpgradeTypeInv, UpgradeDockerType
<1>8. upgradeBox[Upgrade!Own(r)] # "absent" /\ upgradeFaults \in 0..UpgradeFaults
  BY <1>3 DEF UpgradeTypeInv
<1> QED BY <1>4, <1>6, <1>7, <1>8, UpgradeAssumption DEF Upgrade!Stop, Upgrade!Call

\* What a helper that goes forth knows.
LEMMA UpgradeForth ==
  ASSUME UpgradeTypeInv, UpgradeRest, NEW r \in UpgradeRequests,
         upgradeHelper[r].step \in {"backup", "rename", "create", "start", "verify", "remove"}
  PROVE  /\ upgradeHelper[r].step \in UpgradeLate /\ Upgrade!Works(r) /\ upgradeHelper[r] \in UpgradeHelper
         /\ Upgrade!Own(r) \in Upgrade!Containers \ {r} /\ r \in Upgrade!Containers \ {"none"} /\ upgradeHelper[r].stopped
         /\ upgradeStatus.phase \in UpgradeMoving /\ upgradeBox[Upgrade!Own(r)] = "stopped"
         /\ \A c \in Upgrade!Containers : upgradeBox[c] = "running" => c = r
         /\ upgradeHelper[r].backup <= upgradeVersion[Upgrade!Own(r)] \/ UpgradeStarted
         /\ upgradeDb <= upgradeVersion[Upgrade!Own(r)] \/ UpgradeStarted \/ upgradeHelper[r].written
         /\ \A s \in UpgradeRequests : upgradeHelper[s] = Upgrade!NoHelper => upgradeBox[s] = "absent" /\ upgradeName # s /\ s # Upgrade!Own(r) /\ s # r
         /\ upgradeHelper[r].step \in {"backup", "rename", "create", "start"} =>
              /\ \A c \in Upgrade!Containers : upgradeBox[c] # "running"
              /\ ~Upgrade!Serving /\ \A s \in UpgradeRequests : upgradeApi[s] = "idle"
<1>1. upgradeHelper[r].step \in UpgradeLate /\ Upgrade!Works(r) /\ upgradeHelper[r] \in UpgradeHelper
  BY UpgradeTypes DEF UpgradeLate, Upgrade!Works
<1>2. /\ Upgrade!Own(r) \in Upgrade!Containers \ {r} /\ upgradeHelper[r].stopped /\ upgradeStatus.phase \in UpgradeMoving
      /\ \A c \in Upgrade!Containers : upgradeBox[c] = "running" => c \in {r, Upgrade!Own(r)}
      /\ upgradeHelper[r].backup <= upgradeVersion[Upgrade!Own(r)] \/ UpgradeStarted
      /\ upgradeDb <= upgradeVersion[Upgrade!Own(r)] \/ UpgradeStarted \/ upgradeHelper[r].written
  BY <1>1 DEF UpgradeRest, UpgradeLateInv
<1>3. upgradeBox[Upgrade!Own(r)] = "stopped"
  BY DEF UpgradeRest, UpgradeForthInv
<1>4. \A s \in UpgradeRequests : upgradeHelper[s] = Upgrade!NoHelper => upgradeBox[s] = "absent" /\ upgradeName # s /\ s # Upgrade!Own(r) /\ s # r
  BY <1>1, <1>3, UpgradeTypes DEF UpgradeRest, UpgradeOneInv, Upgrade!Works
<1>5. ASSUME upgradeHelper[r].step \in {"backup", "rename", "create", "start"}
      PROVE  /\ \A c \in Upgrade!Containers : upgradeBox[c] # "running"
             /\ ~Upgrade!Serving /\ \A s \in UpgradeRequests : upgradeApi[s] = "idle"
  <2>1. upgradeBox[r] # "running"
    BY <1>5 DEF UpgradeRest, UpgradeForthInv
  <2>2. \A c \in Upgrade!Containers : upgradeBox[c] # "running"
    BY <1>2, <1>3, <2>1
  <2>3. ~Upgrade!Serving
    BY <2>2 DEF Upgrade!Serving, UpgradeTypeInv
  <2> QED BY <2>2, <2>3 DEF UpgradeRest, UpgradeOneInv
<1> QED BY <1>1, <1>2, <1>3, <1>4, <1>5, UpgradeTypes

LEMMA UpgradeBacksUp ==
  ASSUME UpgradeTypeInv, UpgradeRest, NEW r \in UpgradeRequests, Upgrade!Backup(r)
  PROVE  UpgradeTypeInv' /\ UpgradeRest'
<1>1. upgradeHelper[r].step = "backup" /\ UNCHANGED <<upgradeFresh, upgradeApi, upgradePoll, upgradeBox, upgradeName, upgradeVersion, upgradeDb, upgradePast>>
  BY DEF Upgrade!Backup, Upgrade!At, Upgrade!docker
<1>2. CASE Upgrade!Back(r) /\ upgradeFaults' \in 0..UpgradeFaults
  BY <1>1, <1>2, UpgradeTurns
<1>3. CASE /\ upgradeHelper' = [upgradeHelper EXCEPT ![r].step = "rename", ![r].backup = upgradeDb]
           /\ UNCHANGED <<upgradeStatus, upgradeFaults>>
  <2> DEFINE h == [upgradeHelper[r] EXCEPT !.step = "rename", !.backup = upgradeDb]
  <2>1. /\ upgradeHelper[r].step \in UpgradeLate /\ Upgrade!Works(r) /\ upgradeHelper[r] \in UpgradeHelper
        /\ Upgrade!Own(r) \in Upgrade!Containers \ {r} /\ upgradeHelper[r].stopped
        /\ upgradeStatus.phase \in UpgradeMoving /\ upgradeBox[Upgrade!Own(r)] = "stopped"
        /\ \A c \in Upgrade!Containers : upgradeBox[c] = "running" => c = r
        /\ upgradeDb <= upgradeVersion[Upgrade!Own(r)] \/ UpgradeStarted \/ upgradeHelper[r].written
    BY <1>1, UpgradeForth
  <2>2. upgradeDb \in Nat
    BY DEF UpgradeTypeInv
  <2>3. /\ h \in UpgradeHelper /\ h.step = "rename" /\ h.own = upgradeHelper[r].own /\ h.backup = upgradeDb
        /\ h.stopped = upgradeHelper[r].stopped /\ h.renamed = upgradeHelper[r].renamed
        /\ h.made = upgradeHelper[r].made /\ h.written = upgradeHelper[r].written
    BY <2>1, <2>2 DEF UpgradeHelper, UpgradeLate
  <2>4. upgradeHelper' = [upgradeHelper EXCEPT ![r] = h]
    BY <1>3 DEF UpgradeTypeInv
  <2> HIDE DEF h
  <2>5. upgradeHelper'[r] = h
    BY <2>4 DEF UpgradeTypeInv
  <2>6. /\ upgradeName = Upgrade!Own(r) /\ upgradeBox[r] = "absent"
        /\ ~upgradeHelper[r].renamed /\ ~upgradeHelper[r].made /\ ~upgradeHelper[r].written
    BY <1>1 DEF UpgradeRest, UpgradeForthInv
  <2>7. UpgradeEarlyInv(r)' /\ UpgradeBackInv(r)'
    BY <2>3, <2>5 DEF UpgradeEarlyInv, UpgradeEarly, UpgradeBackInv
  <2>8. UpgradeForthInv(r)'
    BY <1>1, <2>1, <2>3, <2>5, <2>6 DEF UpgradeForthInv, Upgrade!Own
  <2>9. UpgradeLateInv(r)'
    BY <1>1, <1>3, <2>1, <2>3, <2>5, <2>6 DEF UpgradeLateInv, Upgrade!Own, UpgradeStarted
  <2>10. upgradeStatus' \in [phase : Upgrade!Phases, request : UpgradeRequests \cup {"none"}] /\ upgradeFaults' \in 0..UpgradeFaults
    BY <1>3 DEF UpgradeTypeInv
  <2> QED BY <1>1, <1>3, <2>1, <2>3, <2>4, <2>7, <2>8, <2>9, <2>10, UpgradeStill
<1> QED BY <1>1, <1>2, <1>3, UpgradeAssumption DEF Upgrade!Backup, UpgradeTypeInv

LEMMA UpgradeRenames ==
  ASSUME UpgradeTypeInv, UpgradeRest, NEW r \in UpgradeRequests, Upgrade!RenameOld(r)
  PROVE  UpgradeTypeInv' /\ UpgradeRest'
<1>1. upgradeHelper[r].step = "rename" /\ upgradeFresh' = upgradeFresh
  BY DEF Upgrade!RenameOld, Upgrade!At
<1>2. /\ upgradeHelper[r].step \in UpgradeLate /\ Upgrade!Works(r) /\ upgradeHelper[r] \in UpgradeHelper
      /\ Upgrade!Own(r) \in Upgrade!Containers \ {r} /\ r \in Upgrade!Containers \ {"none"} /\ upgradeHelper[r].stopped
      /\ upgradeStatus.phase \in UpgradeMoving /\ upgradeBox[Upgrade!Own(r)] = "stopped"
      /\ upgradeHelper[r].backup <= upgradeVersion[Upgrade!Own(r)] \/ UpgradeStarted
      /\ upgradeDb <= upgradeVersion[Upgrade!Own(r)] \/ UpgradeStarted \/ upgradeHelper[r].written
      /\ \A s \in UpgradeRequests : upgradeHelper[s] = Upgrade!NoHelper => upgradeBox[s] = "absent" /\ upgradeName # s /\ s # Upgrade!Own(r) /\ s # r
      /\ \A c \in Upgrade!Containers : upgradeBox[c] # "running"
      /\ \A s \in UpgradeRequests : upgradeApi[s] = "idle"
  BY <1>1, UpgradeForth
<1>3. /\ upgradeName = Upgrade!Own(r) /\ upgradeBox[r] = "absent"
      /\ ~upgradeHelper[r].renamed /\ ~upgradeHelper[r].made /\ ~upgradeHelper[r].written
  BY <1>1 DEF UpgradeRest, UpgradeForthInv
<1>4. CASE Upgrade!Back(r) /\ UNCHANGED <<Upgrade!docker, upgradeApi, upgradePoll, upgradePast>> /\ upgradeFaults' \in 0..UpgradeFaults
  BY <1>1, <1>4, UpgradeTurns DEF Upgrade!docker
<1>5. ASSUME Upgrade!Rename(IF upgradeName = Upgrade!Own(r) THEN "none" ELSE upgradeName)
      PROVE  /\ UpgradeDockerType' /\ upgradeName' = "none" /\ UNCHANGED <<upgradeBox, upgradeVersion, upgradeDb, upgradeApi, upgradePoll>>
  BY <1>3, <1>5 DEF Upgrade!Rename, UpgradeDockerType, UpgradeTypeInv
<1>9. ASSUME upgradeName' = "none", UNCHANGED <<upgradeBox, upgradeVersion, upgradeDb, upgradeApi, upgradePoll>>
      PROVE  /\ \A s \in UpgradeRequests \ {r} : upgradeHelper[s] = Upgrade!NoHelper => upgradeBox'[s] = "absent" /\ upgradeName' # s
             /\ \A s \in UpgradeRequests : upgradeApi'[s] # "idle" => upgradeApi[s] # "idle" /\ Upgrade!Serving'
             /\ \A c, d \in Upgrade!Containers : upgradeBox'[c] = "running" /\ upgradeBox'[d] = "running" => c = d
             /\ \A c \in Upgrade!Containers : upgradeBox'[c] = "running" => upgradeDb' <= upgradeVersion'[c] \/ UpgradeStarted'
  BY <1>2, <1>9, UpgradeTypes
<1>6. CASE /\ upgradeName' = "none" /\ UNCHANGED <<upgradeBox, upgradeVersion, upgradeDb, upgradeApi, upgradePoll>> /\ UpgradeDockerType'
           /\ Upgrade!Set(r, "create", "renamed") /\ Upgrade!Phase("starting")
           /\ UNCHANGED <<upgradePast, upgradeFaults>>
  <2>1. PICK h \in UpgradeHelper :
           /\ upgradeHelper' = [upgradeHelper EXCEPT ![r] = h] /\ h.step = "create"
           /\ h.own = upgradeHelper[r].own /\ h.backup = upgradeHelper[r].backup
           /\ h.stopped = upgradeHelper[r].stopped /\ h.renamed
           /\ h.made = upgradeHelper[r].made /\ h.written = upgradeHelper[r].written
    <3>1. "create" \in UpgradeLate /\ "renamed" \in {"stopped", "renamed", "made", "written"}
      BY DEF UpgradeLate
    <3>2. PICK h \in UpgradeHelper :
             /\ upgradeHelper' = [upgradeHelper EXCEPT ![r] = h] /\ h.step = "create"
             /\ h.own = upgradeHelper[r].own /\ h.backup = upgradeHelper[r].backup
             /\ h.stopped = (upgradeHelper[r].stopped \/ "renamed" = "stopped")
             /\ h.renamed = (upgradeHelper[r].renamed \/ "renamed" = "renamed")
             /\ h.made = (upgradeHelper[r].made \/ "renamed" = "made")
             /\ h.written = (upgradeHelper[r].written \/ "renamed" = "written")
      BY <1>6, <3>1, UpgradeSets
    <3> QED BY <1>2, <3>2 DEF UpgradeHelper
  <2>2. upgradeHelper'[r] = h
    BY <2>1 DEF UpgradeTypeInv
  <2>3. /\ upgradeStatus' \in [phase : Upgrade!Phases, request : UpgradeRequests \cup {"none"}]
        /\ upgradeStatus'.phase \in UpgradeMoving
    <3>1. "starting" \in Upgrade!Phases
      BY DEF Upgrade!Phases, Upgrade!Active
    <3> QED BY <1>6, <3>1, UpgradeWrites DEF UpgradeMoving
  <2>4. UpgradeEarlyInv(r)' /\ UpgradeBackInv(r)'
    BY <2>1, <2>2 DEF UpgradeEarlyInv, UpgradeEarly, UpgradeBackInv
  <2>5. UpgradeForthInv(r)'
    BY <1>2, <1>3, <1>6, <2>1, <2>2 DEF UpgradeForthInv, Upgrade!Own
  <2>6. UpgradeLateInv(r)'
    BY <1>2, <1>3, <1>6, <2>1, <2>2, <2>3 DEF UpgradeLateInv, Upgrade!Own, UpgradeStarted
  <2>7. UpgradeRest'
    <3>1. /\ \A s \in UpgradeRequests \ {r} : upgradeHelper[s] = Upgrade!NoHelper => upgradeBox'[s] = "absent" /\ upgradeName' # s
          /\ \A s \in UpgradeRequests : upgradeApi'[s] # "idle" => upgradeApi[s] # "idle" /\ Upgrade!Serving'
          /\ \A c, d \in Upgrade!Containers : upgradeBox'[c] = "running" /\ upgradeBox'[d] = "running" => c = d
          /\ \A c \in Upgrade!Containers : upgradeBox'[c] = "running" => upgradeDb' <= upgradeVersion'[c] \/ UpgradeStarted'
      BY <1>6, <1>9
    <3> QED BY <1>2, <2>1, <2>3, <2>4, <2>5, <2>6, <3>1, UpgradeFrame
  <2> QED BY <1>1, <1>6, <2>1, <2>3, <2>7 DEF UpgradeTypeInv, UpgradeDockerType
<1>7. CASE /\ upgradeName' = "none" /\ UNCHANGED <<upgradeBox, upgradeVersion, upgradeDb, upgradeApi, upgradePoll>> /\ UpgradeDockerType'
           /\ Upgrade!Back(r) /\ upgradeFaults' \in 0..UpgradeFaults
           /\ upgradePast' = [upgradePast EXCEPT !.lost = @ \cup {"rename"}]
  <2>1. /\ upgradePast' \in [lost : SUBSET UpgradeOps, crossed : BOOLEAN] /\ ~UpgradeWell'
        /\ upgradePast'.crossed = upgradePast.crossed /\ (UpgradeStarted => UpgradeStarted')
    <3>1. "rename" \in UpgradeOps
      BY DEF UpgradeOps
    <3> QED BY <1>7, <3>1, UpgradeLost
  <2>2. /\ \A c \in Upgrade!Containers : upgradeBox'[c] = "running" => c \in {r, Upgrade!Own(r)}
        /\ upgradeBox'[Upgrade!Own(r)] # "running" /\ (~upgradeHelper[r].made => upgradeBox'[r] # "running")
        /\ upgradeHelper[r].backup <= upgradeVersion'[Upgrade!Own(r)] \/ UpgradeStarted'
        /\ upgradeDb' <= upgradeVersion'[Upgrade!Own(r)] \/ UpgradeStarted' \/ upgradeHelper[r].written
        /\ UpgradeWell' => /\ upgradeName' = r <=> upgradeHelper[r].made
                           /\ upgradeName' = Upgrade!Own(r) <=> ~upgradeHelper[r].renamed
                           /\ upgradeName' \in {"none", r, Upgrade!Own(r)} /\ upgradeBox'[Upgrade!Own(r)] = "stopped"
    BY <1>2, <1>7, <2>1
  <2>3. UpgradeRest'
    <3>1. /\ \A s \in UpgradeRequests \ {r} : upgradeHelper[s] = Upgrade!NoHelper => upgradeBox'[s] = "absent" /\ upgradeName' # s
          /\ \A s \in UpgradeRequests : upgradeApi'[s] # "idle" => upgradeApi[s] # "idle" /\ Upgrade!Serving'
          /\ \A c, d \in Upgrade!Containers : upgradeBox'[c] = "running" /\ upgradeBox'[d] = "running" => c = d
          /\ \A c \in Upgrade!Containers : upgradeBox'[c] = "running" => upgradeDb' <= upgradeVersion'[c] \/ UpgradeStarted'
      BY <1>7, <1>9
    <3>2. Upgrade!Back(r) /\ upgradeHelper[r].step \in UpgradeLate /\ upgradePast'.crossed = upgradePast.crossed
      BY <1>2, <1>7, <2>1
    <3> QED BY <2>2, <3>1, <3>2, UpgradeBacks
  <2> QED BY <1>1, <1>7, <2>1, <2>3, UpgradeBackTypes, UpgradeTyped DEF UpgradeTypeInv
<1>8. upgradeBox[Upgrade!Own(r)] # "absent" /\ upgradeFaults \in 0..UpgradeFaults
  BY <1>2 DEF UpgradeTypeInv
<1> QED BY <1>4, <1>5, <1>6, <1>7, <1>8, UpgradeAssumption DEF Upgrade!RenameOld, Upgrade!Call

LEMMA UpgradeCreates ==
  ASSUME UpgradeTypeInv, UpgradeRest, NEW r \in UpgradeRequests, Upgrade!Create(r)
  PROVE  UpgradeTypeInv' /\ UpgradeRest'
<1>1. upgradeHelper[r].step = "create" /\ upgradeFresh' = upgradeFresh
  BY DEF Upgrade!Create, Upgrade!At
<1>2. /\ upgradeHelper[r].step \in UpgradeLate /\ Upgrade!Works(r) /\ upgradeHelper[r] \in UpgradeHelper
      /\ Upgrade!Own(r) \in Upgrade!Containers \ {r} /\ r \in Upgrade!Containers \ {"none"} /\ upgradeHelper[r].stopped
      /\ upgradeStatus.phase \in UpgradeMoving /\ upgradeBox[Upgrade!Own(r)] = "stopped"
      /\ upgradeHelper[r].backup <= upgradeVersion[Upgrade!Own(r)] \/ UpgradeStarted
      /\ upgradeDb <= upgradeVersion[Upgrade!Own(r)] \/ UpgradeStarted \/ upgradeHelper[r].written
      /\ \A s \in UpgradeRequests : upgradeHelper[s] = Upgrade!NoHelper => upgradeBox[s] = "absent" /\ upgradeName # s /\ s # Upgrade!Own(r) /\ s # r
      /\ \A c \in Upgrade!Containers : upgradeBox[c] # "running"
      /\ \A s \in UpgradeRequests : upgradeApi[s] = "idle"
  BY <1>1, UpgradeForth
<1>3. /\ upgradeName = "none" /\ upgradeBox[r] = "absent"
      /\ upgradeHelper[r].renamed /\ ~upgradeHelper[r].made /\ ~upgradeHelper[r].written
  BY <1>1 DEF UpgradeRest, UpgradeForthInv
<1>4. CASE Upgrade!Back(r) /\ UNCHANGED <<Upgrade!docker, upgradeApi, upgradePoll, upgradePast>> /\ upgradeFaults' \in 0..UpgradeFaults
  BY <1>1, <1>4, UpgradeTurns DEF Upgrade!docker
<1>5. ASSUME Upgrade!CreateBox(r)
      PROVE  /\ UpgradeDockerType' /\ upgradeName' = r /\ upgradeBox'[r] = "created" /\ upgradeBox'[Upgrade!Own(r)] = "stopped"
             /\ upgradeVersion'[Upgrade!Own(r)] = upgradeVersion[Upgrade!Own(r)] /\ upgradeVersion[Upgrade!Own(r)] < upgradeVersion'[r]
             /\ \A c \in Upgrade!Containers : upgradeBox'[c] # "running"
             /\ \A c \in Upgrade!Containers \ {r} : upgradeBox'[c] = upgradeBox[c]
             /\ UNCHANGED <<upgradeDb, upgradeApi, upgradePoll>>
  <2>1. /\ upgradeBox' = [upgradeBox EXCEPT ![r] = "created"] /\ upgradeName' = r /\ UNCHANGED <<upgradeDb, upgradeApi, upgradePoll>>
        /\ upgradeVersion' = [upgradeVersion EXCEPT ![r] = upgradeVersion[Upgrade!Own(r)] + 1]
    BY <1>5 DEF Upgrade!CreateBox
  <2>2. upgradeVersion[Upgrade!Own(r)] \in Nat
    BY <1>2 DEF UpgradeTypeInv
  <2> QED BY <1>2, <2>1, <2>2 DEF UpgradeDockerType, UpgradeTypeInv
<1>6. ASSUME Upgrade!CreateBox(r)
      PROVE  /\ \A s \in UpgradeRequests \ {r} : upgradeHelper[s] = Upgrade!NoHelper => upgradeBox'[s] = "absent" /\ upgradeName' # s
             /\ \A s \in UpgradeRequests : upgradeApi'[s] # "idle" => upgradeApi[s] # "idle" /\ Upgrade!Serving'
             /\ \A c, d \in Upgrade!Containers : upgradeBox'[c] = "running" /\ upgradeBox'[d] = "running" => c = d
             /\ \A c \in Upgrade!Containers : upgradeBox'[c] = "running" => upgradeDb' <= upgradeVersion'[c] \/ UpgradeStarted'
  BY <1>2, <1>5, <1>6, UpgradeTypes
<1>7. CASE Upgrade!CreateBox(r) /\ Upgrade!Set(r, "start", "made") /\ UNCHANGED <<upgradeStatus, upgradePast, upgradeFaults>>
  <2>1. PICK h \in UpgradeHelper :
           /\ upgradeHelper' = [upgradeHelper EXCEPT ![r] = h] /\ h.step = "start"
           /\ h.own = upgradeHelper[r].own /\ h.backup = upgradeHelper[r].backup
           /\ h.stopped = (upgradeHelper[r].stopped \/ "made" = "stopped")
           /\ h.renamed = (upgradeHelper[r].renamed \/ "made" = "renamed")
           /\ h.made = (upgradeHelper[r].made \/ "made" = "made")
           /\ h.written = (upgradeHelper[r].written \/ "made" = "written")
    <3>1. "start" \in UpgradeLate /\ "made" \in {"stopped", "renamed", "made", "written"}
      BY DEF UpgradeLate
    <3> QED BY <1>7, <3>1, UpgradeSets
  <2>2. upgradeHelper'[r] = h
    BY <2>1 DEF UpgradeTypeInv
  <2>3. UpgradeEarlyInv(r)' /\ UpgradeBackInv(r)'
    BY <2>1, <2>2 DEF UpgradeEarlyInv, UpgradeEarly, UpgradeBackInv
  <2>4. UpgradeForthInv(r)'
    BY <1>3, <1>5, <1>7, <2>1, <2>2 DEF UpgradeForthInv, Upgrade!Own
  <2>5. UpgradeLateInv(r)'
    <3>1. Upgrade!Own(r)' = Upgrade!Own(r) /\ (UpgradeStarted' <=> UpgradeStarted) /\ upgradeDb' = upgradeDb /\ upgradeStatus' = upgradeStatus
      BY <1>5, <1>7, <2>1, <2>2 DEF Upgrade!Own, UpgradeStarted
    <3>2. /\ \A c \in Upgrade!Containers : upgradeBox'[c] # "running"
          /\ upgradeVersion'[Upgrade!Own(r)] = upgradeVersion[Upgrade!Own(r)]
          /\ upgradeHelper[r].backup <= upgradeVersion[Upgrade!Own(r)] \/ UpgradeStarted
          /\ upgradeDb <= upgradeVersion[Upgrade!Own(r)] \/ UpgradeStarted
          /\ Upgrade!Own(r) \in Upgrade!Containers \ {r} /\ upgradeStatus.phase \in UpgradeMoving /\ upgradeHelper[r].stopped
      BY <1>2, <1>3, <1>5, <1>7
    <3> QED BY <2>1, <2>2, <3>1, <3>2 DEF UpgradeLateInv
  <2>6. UpgradeRest'
    <3>1. /\ \A s \in UpgradeRequests \ {r} : upgradeHelper[s] = Upgrade!NoHelper => upgradeBox'[s] = "absent" /\ upgradeName' # s
          /\ \A s \in UpgradeRequests : upgradeApi'[s] # "idle" => upgradeApi[s] # "idle" /\ Upgrade!Serving'
          /\ \A c, d \in Upgrade!Containers : upgradeBox'[c] = "running" /\ upgradeBox'[d] = "running" => c = d
          /\ \A c \in Upgrade!Containers : upgradeBox'[c] = "running" => upgradeDb' <= upgradeVersion'[c] \/ UpgradeStarted'
          /\ upgradeStatus'.phase \in UpgradeMoving
      BY <1>2, <1>6, <1>7
    <3> QED BY <1>2, <2>1, <2>3, <2>4, <2>5, <3>1, UpgradeFrame
  <2>7. UpgradeDockerType'
    BY <1>5, <1>7
  <2> QED BY <1>1, <1>7, <2>1, <2>6, <2>7 DEF UpgradeTypeInv, UpgradeDockerType
<1>8. CASE /\ Upgrade!CreateBox(r) /\ Upgrade!Back(r) /\ upgradeFaults' \in 0..UpgradeFaults
           /\ upgradePast' = [upgradePast EXCEPT !.lost = @ \cup {"create"}]
  <2>1. /\ upgradePast' \in [lost : SUBSET UpgradeOps, crossed : BOOLEAN] /\ ~UpgradeWell'
        /\ upgradePast'.crossed = upgradePast.crossed /\ (UpgradeStarted => UpgradeStarted')
    <3>1. "create" \in UpgradeOps
      BY DEF UpgradeOps
    <3> QED BY <1>8, <3>1, UpgradeLost
  <2>2. /\ \A c \in Upgrade!Containers : upgradeBox'[c] = "running" => c \in {r, Upgrade!Own(r)}
        /\ upgradeBox'[Upgrade!Own(r)] # "running" /\ (~upgradeHelper[r].made => upgradeBox'[r] # "running")
        /\ upgradeHelper[r].backup <= upgradeVersion'[Upgrade!Own(r)] \/ UpgradeStarted'
        /\ upgradeDb' <= upgradeVersion'[Upgrade!Own(r)] \/ UpgradeStarted' \/ upgradeHelper[r].written
        /\ UpgradeWell' => /\ upgradeName' = r <=> upgradeHelper[r].made
                           /\ upgradeName' = Upgrade!Own(r) <=> ~upgradeHelper[r].renamed
                           /\ upgradeName' \in {"none", r, Upgrade!Own(r)} /\ upgradeBox'[Upgrade!Own(r)] = "stopped"
    BY <1>2, <1>5, <1>8, <2>1
  <2>3. UpgradeRest'
    <3>1. /\ \A s \in UpgradeRequests \ {r} : upgradeHelper[s] = Upgrade!NoHelper => upgradeBox'[s] = "absent" /\ upgradeName' # s
          /\ \A s \in UpgradeRequests : upgradeApi'[s] # "idle" => upgradeApi[s] # "idle" /\ Upgrade!Serving'
          /\ \A c, d \in Upgrade!Containers : upgradeBox'[c] = "running" /\ upgradeBox'[d] = "running" => c = d
          /\ \A c \in Upgrade!Containers : upgradeBox'[c] = "running" => upgradeDb' <= upgradeVersion'[c] \/ UpgradeStarted'
      BY <1>6, <1>8
    <3>2. Upgrade!Back(r) /\ upgradeHelper[r].step \in UpgradeLate /\ upgradePast'.crossed = upgradePast.crossed
      BY <1>2, <1>8, <2>1
    <3> QED BY <2>2, <3>1, <3>2, UpgradeBacks
  <2>4. UpgradeDockerType' /\ upgradeFresh' \in BOOLEAN
    BY <1>1, <1>5, <1>8 DEF UpgradeTypeInv
  <2> QED BY <1>8, <2>1, <2>3, <2>4, UpgradeBackTypes, UpgradeTyped
<1>9. upgradeFaults \in 0..UpgradeFaults
  BY DEF UpgradeTypeInv
<1> QED BY <1>3, <1>4, <1>7, <1>8, <1>9, UpgradeAssumption DEF Upgrade!Create, Upgrade!Call

LEMMA UpgradeStarts ==
  ASSUME UpgradeTypeInv, UpgradeRest, NEW r \in UpgradeRequests, Upgrade!Start(r)
  PROVE  UpgradeTypeInv' /\ UpgradeRest'
<1>1. upgradeHelper[r].step = "start" /\ upgradeFresh' = upgradeFresh
  BY DEF Upgrade!Start, Upgrade!At
<1>2. /\ upgradeHelper[r].step \in UpgradeLate /\ Upgrade!Works(r) /\ upgradeHelper[r] \in UpgradeHelper
      /\ Upgrade!Own(r) \in Upgrade!Containers \ {r} /\ r \in Upgrade!Containers \ {"none"} /\ upgradeHelper[r].stopped
      /\ upgradeStatus.phase \in UpgradeMoving /\ upgradeBox[Upgrade!Own(r)] = "stopped"
      /\ upgradeHelper[r].backup <= upgradeVersion[Upgrade!Own(r)] \/ UpgradeStarted
      /\ upgradeDb <= upgradeVersion[Upgrade!Own(r)] \/ UpgradeStarted \/ upgradeHelper[r].written
      /\ \A s \in UpgradeRequests : upgradeHelper[s] = Upgrade!NoHelper => upgradeBox[s] = "absent" /\ upgradeName # s /\ s # Upgrade!Own(r) /\ s # r
      /\ \A c \in Upgrade!Containers : upgradeBox[c] # "running"
      /\ \A s \in UpgradeRequests : upgradeApi[s] = "idle"
  BY <1>1, UpgradeForth
<1>3. /\ upgradeName = r /\ upgradeBox[r] = "created" /\ upgradeVersion[Upgrade!Own(r)] < upgradeVersion[r]
      /\ upgradeHelper[r].renamed /\ upgradeHelper[r].made /\ ~upgradeHelper[r].written
  BY <1>1 DEF UpgradeRest, UpgradeForthInv
<1>4. CASE Upgrade!Back(r) /\ UNCHANGED <<Upgrade!docker, upgradeApi, upgradePoll, upgradePast>> /\ upgradeFaults' \in 0..UpgradeFaults
  BY <1>1, <1>4, UpgradeTurns DEF Upgrade!docker
<1>5. ASSUME Upgrade!StartBox(r), UpgradeStarted => UpgradeStarted'
      PROVE  /\ UpgradeDockerType' /\ upgradeBox'[r] = "running" /\ upgradeBox'[Upgrade!Own(r)] = "stopped"
             /\ upgradeDb' <= upgradeVersion[r] \/ UpgradeStarted'
             /\ \A c \in Upgrade!Containers : upgradeBox'[c] = "running" => c = r
             /\ \A c \in Upgrade!Containers \ {r} : upgradeBox'[c] = upgradeBox[c]
             /\ UNCHANGED <<upgradeName, upgradeVersion, upgradeApi, upgradePoll>>
  <2>1. /\ upgradeBox' = [upgradeBox EXCEPT ![r] = "running"] /\ UNCHANGED <<upgradeName, upgradeVersion, upgradeApi, upgradePoll>>
        /\ upgradeDb' \in IF upgradeDb < upgradeVersion[r] THEN {upgradeDb, upgradeVersion[r]} ELSE {upgradeDb}
    BY <1>5 DEF Upgrade!StartBox
  <2>2. upgradeVersion[Upgrade!Own(r)] \in Nat /\ upgradeVersion[r] \in Nat /\ upgradeDb \in Nat
    BY <1>2 DEF UpgradeTypeInv
  <2>3. upgradeDb' \in Nat /\ (upgradeDb' <= upgradeVersion[r] \/ UpgradeStarted)
    BY <1>2, <1>3, <2>1, <2>2
  <2> QED BY <1>2, <1>5, <2>1, <2>2, <2>3 DEF UpgradeDockerType, UpgradeTypeInv
<1>6. ASSUME Upgrade!StartBox(r), UpgradeStarted => UpgradeStarted'
      PROVE  /\ \A s \in UpgradeRequests \ {r} : upgradeHelper[s] = Upgrade!NoHelper => upgradeBox'[s] = "absent" /\ upgradeName' # s
             /\ \A s \in UpgradeRequests : upgradeApi'[s] # "idle" => upgradeApi[s] # "idle" /\ Upgrade!Serving'
             /\ \A c, d \in Upgrade!Containers : upgradeBox'[c] = "running" /\ upgradeBox'[d] = "running" => c = d
             /\ \A c \in Upgrade!Containers : upgradeBox'[c] = "running" => upgradeDb' <= upgradeVersion'[c] \/ UpgradeStarted'
  BY <1>2, <1>5, <1>6, UpgradeTypes
<1>7. CASE /\ Upgrade!StartBox(r) /\ Upgrade!Set(r, "verify", "written") /\ Upgrade!Phase("verifying")
           /\ UNCHANGED <<upgradePast, upgradeFaults>>
  <2>1. PICK h \in UpgradeHelper :
           /\ upgradeHelper' = [upgradeHelper EXCEPT ![r] = h] /\ h.step = "verify"
           /\ h.own = upgradeHelper[r].own /\ h.backup = upgradeHelper[r].backup
           /\ h.stopped = (upgradeHelper[r].stopped \/ "written" = "stopped")
           /\ h.renamed = (upgradeHelper[r].renamed \/ "written" = "renamed")
           /\ h.made = (upgradeHelper[r].made \/ "written" = "made")
           /\ h.written = (upgradeHelper[r].written \/ "written" = "written")
    <3>1. "verify" \in UpgradeLate /\ "written" \in {"stopped", "renamed", "made", "written"}
      BY DEF UpgradeLate
    <3> QED BY <1>7, <3>1, UpgradeSets
  <2>2. upgradeHelper'[r] = h
    BY <2>1 DEF UpgradeTypeInv
  <2>3. /\ upgradeStatus' \in [phase : Upgrade!Phases, request : UpgradeRequests \cup {"none"}]
        /\ upgradeStatus'.phase \in UpgradeMoving
    <3>1. "verifying" \in Upgrade!Phases
      BY DEF Upgrade!Phases, Upgrade!Active
    <3> QED BY <1>7, <3>1, UpgradeWrites DEF UpgradeMoving
  <2>4. UpgradeEarlyInv(r)' /\ UpgradeBackInv(r)'
    BY <2>1, <2>2 DEF UpgradeEarlyInv, UpgradeEarly, UpgradeBackInv
  <2>5. UpgradeStarted => UpgradeStarted'
    BY <1>7 DEF UpgradeStarted
  <2>6. UpgradeForthInv(r)'
    BY <1>3, <1>5, <1>7, <2>1, <2>2, <2>5 DEF UpgradeForthInv, Upgrade!Own
  <2>7. UpgradeLateInv(r)'
    BY <1>2, <1>5, <1>7, <2>1, <2>2, <2>3, <2>5 DEF UpgradeLateInv, Upgrade!Own
  <2>8. UpgradeRest'
    <3>1. /\ \A s \in UpgradeRequests \ {r} : upgradeHelper[s] = Upgrade!NoHelper => upgradeBox'[s] = "absent" /\ upgradeName' # s
          /\ \A s \in UpgradeRequests : upgradeApi'[s] # "idle" => upgradeApi[s] # "idle" /\ Upgrade!Serving'
          /\ \A c, d \in Upgrade!Containers : upgradeBox'[c] = "running" /\ upgradeBox'[d] = "running" => c = d
          /\ \A c \in Upgrade!Containers : upgradeBox'[c] = "running" => upgradeDb' <= upgradeVersion'[c] \/ UpgradeStarted'
      BY <1>6, <1>7, <2>5
    <3> QED BY <1>2, <2>1, <2>3, <2>4, <2>6, <2>7, <3>1, UpgradeFrame
  <2>9. UpgradeDockerType'
    BY <1>5, <1>7, <2>5
  <2> QED BY <1>1, <1>7, <2>1, <2>3, <2>8, <2>9 DEF UpgradeTypeInv, UpgradeDockerType
<1>8. CASE /\ Upgrade!StartBox(r) /\ Upgrade!Back(r) /\ upgradeFaults' \in 0..UpgradeFaults
           /\ upgradePast' = [upgradePast EXCEPT !.lost = @ \cup {"start"}]
  <2>1. /\ upgradePast' \in [lost : SUBSET UpgradeOps, crossed : BOOLEAN] /\ ~UpgradeWell'
        /\ upgradePast'.crossed = upgradePast.crossed /\ UpgradeStarted'
    <3>1. "start" \in UpgradeOps
      BY DEF UpgradeOps
    <3> QED BY <1>8, <3>1, UpgradeLost
  <2>2. /\ \A c \in Upgrade!Containers : upgradeBox'[c] = "running" => c \in {r, Upgrade!Own(r)}
        /\ upgradeBox'[Upgrade!Own(r)] # "running" /\ (~upgradeHelper[r].made => upgradeBox'[r] # "running")
        /\ upgradeHelper[r].backup <= upgradeVersion'[Upgrade!Own(r)] \/ UpgradeStarted'
        /\ upgradeDb' <= upgradeVersion'[Upgrade!Own(r)] \/ UpgradeStarted' \/ upgradeHelper[r].written
        /\ UpgradeWell' => /\ upgradeName' = r <=> upgradeHelper[r].made
                           /\ upgradeName' = Upgrade!Own(r) <=> ~upgradeHelper[r].renamed
                           /\ upgradeName' \in {"none", r, Upgrade!Own(r)} /\ upgradeBox'[Upgrade!Own(r)] = "stopped"
    BY <1>2, <1>3, <1>5, <1>8, <2>1
  <2>3. UpgradeRest'
    <3>1. /\ \A s \in UpgradeRequests \ {r} : upgradeHelper[s] = Upgrade!NoHelper => upgradeBox'[s] = "absent" /\ upgradeName' # s
          /\ \A s \in UpgradeRequests : upgradeApi'[s] # "idle" => upgradeApi[s] # "idle" /\ Upgrade!Serving'
          /\ \A c, d \in Upgrade!Containers : upgradeBox'[c] = "running" /\ upgradeBox'[d] = "running" => c = d
          /\ \A c \in Upgrade!Containers : upgradeBox'[c] = "running" => upgradeDb' <= upgradeVersion'[c] \/ UpgradeStarted'
      BY <1>6, <1>8, <2>1
    <3>2. Upgrade!Back(r) /\ upgradeHelper[r].step \in UpgradeLate /\ upgradePast'.crossed = upgradePast.crossed
      BY <1>2, <1>8, <2>1
    <3> QED BY <2>2, <3>1, <3>2, UpgradeBacks
  <2>4. UpgradeDockerType' /\ upgradeFresh' \in BOOLEAN
    BY <1>1, <1>5, <1>8, <2>1 DEF UpgradeTypeInv
  <2> QED BY <1>8, <2>1, <2>3, <2>4, UpgradeBackTypes, UpgradeTyped
<1>9. upgradeFaults \in 0..UpgradeFaults
  BY DEF UpgradeTypeInv
<1> QED BY <1>3, <1>4, <1>7, <1>8, <1>9, UpgradeAssumption DEF Upgrade!Start, Upgrade!Call

LEMMA UpgradeVerifies ==
  ASSUME UpgradeTypeInv, UpgradeRest, NEW r \in UpgradeRequests, Upgrade!Verify(r)
  PROVE  UpgradeTypeInv' /\ UpgradeRest'
<1>1. /\ upgradeHelper[r].step = "verify" /\ Upgrade!Works(r)
      /\ UNCHANGED <<upgradeFresh, upgradeApi, upgradePoll, upgradeBox, upgradeName, upgradeVersion, upgradeDb, upgradePast>> /\ upgradeFaults' \in 0..UpgradeFaults
  BY DEF Upgrade!Verify, Upgrade!At, Upgrade!Works, Upgrade!docker, UpgradeTypeInv
<1>2. CASE Upgrade!Back(r)
  BY <1>1, <1>2, UpgradeTurns
<1>3. CASE Upgrade!Healthy(r) /\ Upgrade!Goto(r, "remove") /\ UNCHANGED upgradeStatus
  <2>1. PICK h \in UpgradeHelper :
           /\ upgradeHelper' = [upgradeHelper EXCEPT ![r] = h] /\ h.step = "remove"
           /\ h.own = upgradeHelper[r].own /\ h.backup = upgradeHelper[r].backup
           /\ h.stopped = upgradeHelper[r].stopped /\ h.renamed = upgradeHelper[r].renamed
           /\ h.made = upgradeHelper[r].made /\ h.written = upgradeHelper[r].written
    <3>1. "remove" \in UpgradeEarly \cup UpgradeLate
      BY DEF UpgradeLate
    <3> QED BY <1>3, <3>1, UpgradeMoves
  <2>2. upgradeHelper'[r] = h
    BY <2>1 DEF UpgradeTypeInv
  <2>3. UpgradeEarlyInv(r)' /\ UpgradeBackInv(r)'
    BY <2>1, <2>2 DEF UpgradeEarlyInv, UpgradeEarly, UpgradeBackInv
  <2>4. UpgradeForthInv(r)'
    BY <1>1, <2>1, <2>2 DEF UpgradeRest, UpgradeForthInv, Upgrade!Own
  <2>5. UpgradeLateInv(r)'
    <3>1. upgradeHelper[r].step \in UpgradeLate
      BY <1>1 DEF UpgradeLate
    <3> QED BY <1>1, <1>3, <2>1, <2>2, <3>1 DEF UpgradeRest, UpgradeLateInv, Upgrade!Own, UpgradeStarted
  <2>6. /\ upgradeStatus' \in [phase : Upgrade!Phases, request : UpgradeRequests \cup {"none"}]
        /\ UpgradeWell /\ upgradeStatus'.phase \notin UpgradeMoving => Upgrade!Serving
    BY <1>3, UpgradeTypes DEF UpgradeRest, UpgradeOneInv
  <2> QED BY <1>1, <2>1, <2>3, <2>4, <2>5, <2>6, UpgradeStill
<1> QED BY <1>2, <1>3 DEF Upgrade!Verify

\* A helper that reports after a step that touched one container, and is gone.
LEMMA UpgradeLeaves ==
  ASSUME UpgradeTypeInv, UpgradeRest, NEW r \in UpgradeRequests, Upgrade!Works(r), NEW phase \in Upgrade!Phases,
         Upgrade!Report(r, phase), UpgradeDockerType', upgradeFresh' = upgradeFresh, upgradeFaults' \in 0..UpgradeFaults,
         upgradePast' \in [lost : SUBSET UpgradeOps, crossed : BOOLEAN],
         \A s \in UpgradeRequests \ {r} : upgradeHelper[s] = Upgrade!NoHelper => upgradeBox'[s] = "absent" /\ upgradeName' # s,
         \A s \in UpgradeRequests : upgradeApi'[s] # "idle" => upgradeApi[s] # "idle" /\ Upgrade!Serving',
         \A c, d \in Upgrade!Containers : upgradeBox'[c] = "running" /\ upgradeBox'[d] = "running" => c = d,
         \A c \in Upgrade!Containers : upgradeBox'[c] = "running" => upgradeDb' <= upgradeVersion'[c] \/ UpgradeStarted',
         UpgradeWell' /\ phase \notin UpgradeMoving => Upgrade!Serving'
  PROVE  UpgradeTypeInv' /\ UpgradeRest'
<1>1. /\ upgradeHelper' = [upgradeHelper EXCEPT ![r] = Upgrade!Gone] /\ Upgrade!Gone \in UpgradeHelper /\ Upgrade!Gone.step = "gone"
      /\ upgradeHelper' \in [UpgradeRequests -> UpgradeHelper]
      /\ upgradeStatus' \in [phase : Upgrade!Phases, request : UpgradeRequests \cup {"none"}] /\ upgradeStatus'.phase = phase
  BY UpgradeReports, UpgradeTypes
<1>2. upgradeHelper'[r].step = "gone"
  BY <1>1 DEF UpgradeTypeInv
<1>3. UpgradeEarlyInv(r)' /\ UpgradeForthInv(r)' /\ UpgradeBackInv(r)' /\ UpgradeLateInv(r)'
  BY <1>2, UpgradeGone
<1>4. upgradeFresh' \in BOOLEAN
  BY DEF UpgradeTypeInv
<1>5. UpgradeTypeInv'
  BY <1>1, <1>4, UpgradeTyped
<1>6. Upgrade!Gone.step # "none" /\ (UpgradeWell' /\ upgradeStatus'.phase \notin UpgradeMoving => Upgrade!Serving')
  BY <1>1
<1>7. UpgradeRest'
  BY <1>1, <1>3, <1>6, UpgradeFrame
<1> QED BY <1>5, <1>7

LEMMA UpgradeRemoves ==
  ASSUME UpgradeTypeInv, UpgradeRest, NEW r \in UpgradeRequests, Upgrade!RemoveOld(r)
  PROVE  UpgradeTypeInv' /\ UpgradeRest'
<1>1. upgradeHelper[r].step = "remove" /\ upgradeHelper[r].step \in UpgradeLate /\ Upgrade!Works(r) /\ upgradeFresh' = upgradeFresh
  BY DEF Upgrade!RemoveOld, Upgrade!At, Upgrade!Works, UpgradeLate
<1>2. /\ Upgrade!Own(r) \in Upgrade!Containers \ {r} /\ upgradeName = r /\ upgradeBox[r] = "running" /\ upgradeBox[Upgrade!Own(r)] = "stopped"
      /\ upgradeHelper[r].renamed /\ upgradeHelper[r].made /\ upgradeHelper[r].written
      /\ upgradeHelper[r].backup <= upgradeVersion[Upgrade!Own(r)] \/ UpgradeStarted
      /\ \A c \in Upgrade!Containers : upgradeBox[c] = "running" => c = r
      /\ upgradeDb <= upgradeVersion[r] \/ UpgradeStarted
  <2>1. /\ Upgrade!Own(r) \in Upgrade!Containers \ {r}
        /\ \A c \in Upgrade!Containers : upgradeBox[c] = "running" => c \in {r, Upgrade!Own(r)}
        /\ upgradeHelper[r].backup <= upgradeVersion[Upgrade!Own(r)] \/ UpgradeStarted
    BY <1>1 DEF UpgradeRest, UpgradeLateInv
  <2>2. /\ upgradeName = r /\ upgradeBox[r] = "running" /\ upgradeBox[Upgrade!Own(r)] = "stopped"
        /\ upgradeHelper[r].renamed /\ upgradeHelper[r].made /\ upgradeHelper[r].written
    BY <1>1 DEF UpgradeRest, UpgradeForthInv
  <2>3. upgradeDb <= upgradeVersion[r] \/ UpgradeStarted
    BY <2>2, UpgradeTypes DEF UpgradeRest, UpgradeOneInv
  <2> QED BY <2>1, <2>2, <2>3
<1>3. /\ \A s \in UpgradeRequests : upgradeHelper[s] = Upgrade!NoHelper => upgradeBox[s] = "absent" /\ upgradeName # s
      /\ \A s \in UpgradeRequests : upgradeApi[s] # "idle" => Upgrade!Serving
      /\ upgradeFaults \in 0..UpgradeFaults /\ "succeeded" \in Upgrade!Phases /\ Upgrade!Serving
  BY <1>2, UpgradeTypes DEF UpgradeRest, UpgradeOneInv, UpgradeTypeInv, Upgrade!Phases, Upgrade!Serving
<1>4. CASE Upgrade!Back(r) /\ UNCHANGED <<Upgrade!docker, upgradeApi, upgradePoll, upgradePast>> /\ upgradeFaults' \in 0..UpgradeFaults
  BY <1>1, <1>4, UpgradeTurns DEF Upgrade!docker
<1>5. CASE Upgrade!Report(r, "succeeded") /\ UNCHANGED <<Upgrade!docker, upgradeApi, upgradePoll, upgradePast>> /\ upgradeFaults' \in 0..UpgradeFaults
  BY <1>1, <1>3, <1>5, UpgradeEnds DEF Upgrade!docker
<1>6. ASSUME Upgrade!RemoveBox(Upgrade!Own(r))
      PROVE  /\ UpgradeDockerType' /\ upgradeName' = r /\ upgradeBox'[r] = "running" /\ upgradeBox'[Upgrade!Own(r)] = "absent"
             /\ \A c \in Upgrade!Containers : upgradeBox'[c] = "running" => c = r
             /\ \A s \in UpgradeRequests \ {r} : upgradeHelper[s] = Upgrade!NoHelper => upgradeBox'[s] = "absent" /\ upgradeName' # s
             /\ UNCHANGED <<upgradeVersion, upgradeDb, upgradeApi, upgradePoll>>
  <2>1. /\ upgradeBox' = [upgradeBox EXCEPT ![Upgrade!Own(r)] = "absent"] /\ upgradeName' = upgradeName
        /\ UNCHANGED <<upgradeVersion, upgradeDb, upgradeApi, upgradePoll>>
    BY <1>2, <1>6 DEF Upgrade!RemoveBox
  <2>2. UpgradeDockerType'
    BY <2>1 DEF UpgradeDockerType, UpgradeTypeInv
  <2> QED BY <1>2, <1>3, <2>1, <2>2, UpgradeTypes DEF UpgradeTypeInv
<1>7. CASE Upgrade!RemoveBox(Upgrade!Own(r)) /\ Upgrade!Report(r, "succeeded") /\ UNCHANGED <<upgradePast, upgradeFaults>>
  <2>1. /\ \A s \in UpgradeRequests : upgradeApi'[s] # "idle" => upgradeApi[s] # "idle" /\ Upgrade!Serving'
        /\ \A c, d \in Upgrade!Containers : upgradeBox'[c] = "running" /\ upgradeBox'[d] = "running" => c = d
        /\ \A c \in Upgrade!Containers : upgradeBox'[c] = "running" => upgradeDb' <= upgradeVersion'[c] \/ UpgradeStarted'
        /\ Upgrade!Serving'
    BY <1>2, <1>3, <1>6, <1>7, UpgradeTypes DEF Upgrade!Serving, UpgradeStarted
  <2>2. upgradePast' \in [lost : SUBSET UpgradeOps, crossed : BOOLEAN] /\ upgradeFaults' \in 0..UpgradeFaults
    BY <1>7 DEF UpgradeTypeInv
  <2> QED BY <1>1, <1>3, <1>6, <1>7, <2>1, <2>2, UpgradeLeaves
<1>8. CASE /\ Upgrade!RemoveBox(Upgrade!Own(r)) /\ Upgrade!Back(r) /\ upgradeFaults' \in 0..UpgradeFaults
           /\ upgradePast' = [upgradePast EXCEPT !.lost = @ \cup {"remove"}]
  <2>1. /\ upgradePast' \in [lost : SUBSET UpgradeOps, crossed : BOOLEAN] /\ ~UpgradeWell'
        /\ upgradePast'.crossed = upgradePast.crossed /\ (UpgradeStarted => UpgradeStarted')
    <3>1. "remove" \in UpgradeOps
      BY DEF UpgradeOps
    <3> QED BY <1>8, <3>1, UpgradeLost
  <2>2. /\ \A c \in Upgrade!Containers : upgradeBox'[c] = "running" => c \in {r, Upgrade!Own(r)}
        /\ upgradeBox'[Upgrade!Own(r)] # "running" /\ (~upgradeHelper[r].made => upgradeBox'[r] # "running")
        /\ upgradeHelper[r].backup <= upgradeVersion'[Upgrade!Own(r)] \/ UpgradeStarted'
        /\ upgradeDb' <= upgradeVersion'[Upgrade!Own(r)] \/ UpgradeStarted' \/ upgradeHelper[r].written
        /\ UpgradeWell' => /\ upgradeName' = r <=> upgradeHelper[r].made
                           /\ upgradeName' = Upgrade!Own(r) <=> ~upgradeHelper[r].renamed
                           /\ upgradeName' \in {"none", r, Upgrade!Own(r)} /\ upgradeBox'[Upgrade!Own(r)] = "stopped"
    BY <1>2, <1>6, <1>8, <2>1
  <2>3. UpgradeRest'
    <3>1. /\ \A s \in UpgradeRequests \ {r} : upgradeHelper[s] = Upgrade!NoHelper => upgradeBox'[s] = "absent" /\ upgradeName' # s
          /\ \A s \in UpgradeRequests : upgradeApi'[s] # "idle" => upgradeApi[s] # "idle" /\ Upgrade!Serving'
          /\ \A c, d \in Upgrade!Containers : upgradeBox'[c] = "running" /\ upgradeBox'[d] = "running" => c = d
          /\ \A c \in Upgrade!Containers : upgradeBox'[c] = "running" => upgradeDb' <= upgradeVersion'[c] \/ UpgradeStarted'
      BY <1>2, <1>3, <1>6, <1>8, <2>1, UpgradeTypes DEF Upgrade!Serving
    <3>2. Upgrade!Back(r) /\ upgradeHelper[r].step \in UpgradeLate /\ upgradePast'.crossed = upgradePast.crossed
      BY <1>1, <1>8, <2>1
    <3> QED BY <2>2, <3>1, <3>2, UpgradeBacks
  <2>4. UpgradeDockerType' /\ upgradeFresh' \in BOOLEAN
    BY <1>1, <1>6, <1>8 DEF UpgradeTypeInv
  <2> QED BY <1>8, <2>1, <2>3, <2>4, UpgradeBackTypes, UpgradeTyped
<1>9. upgradeBox[Upgrade!Own(r)] # "running"
  BY <1>2
<1> QED BY <1>3, <1>4, <1>5, <1>7, <1>8, <1>9, UpgradeAssumption DEF Upgrade!RemoveOld, Upgrade!Call

-----------------------------------------------------------------------------
(* Going back. *)

\* What a step back may rely on.
LEMMA UpgradeUndo ==
  ASSUME UpgradeTypeInv, UpgradeRest, NEW r \in UpgradeRequests,
         upgradeHelper[r].step \in {"undo new", "undo db", "undo name", "undo stop", "undone"}
  PROVE  /\ upgradeHelper[r].step \in UpgradeLate /\ Upgrade!Works(r)
         /\ Upgrade!Own(r) \in Upgrade!Containers \ {r} /\ upgradeHelper[r].stopped /\ upgradeStatus.phase \in UpgradeMoving
         /\ \A c \in Upgrade!Containers : upgradeBox[c] = "running" => c \in {r, Upgrade!Own(r)}
         /\ upgradeHelper[r].backup <= upgradeVersion[Upgrade!Own(r)] \/ UpgradeStarted
         /\ \A s \in UpgradeRequests : upgradeHelper[s] = Upgrade!NoHelper => upgradeBox[s] = "absent" /\ upgradeName # s
         /\ \A s \in UpgradeRequests : upgradeApi[s] # "idle" => Upgrade!Serving
         /\ upgradeFaults \in 0..UpgradeFaults /\ "manual" \in Upgrade!Phases /\ "manual" \in UpgradeMoving
         /\ upgradePast \in [lost : SUBSET UpgradeOps, crossed : BOOLEAN] /\ r \in Upgrade!Containers
<1>1. upgradeHelper[r].step \in UpgradeLate /\ Upgrade!Works(r)
  BY DEF UpgradeLate, Upgrade!Works
<1>2. /\ Upgrade!Own(r) \in Upgrade!Containers \ {r} /\ upgradeHelper[r].stopped /\ upgradeStatus.phase \in UpgradeMoving
      /\ \A c \in Upgrade!Containers : upgradeBox[c] = "running" => c \in {r, Upgrade!Own(r)}
      /\ upgradeHelper[r].backup <= upgradeVersion[Upgrade!Own(r)] \/ UpgradeStarted
  BY <1>1 DEF UpgradeRest, UpgradeLateInv
<1>3. /\ \A s \in UpgradeRequests : upgradeHelper[s] = Upgrade!NoHelper => upgradeBox[s] = "absent" /\ upgradeName # s
      /\ \A s \in UpgradeRequests : upgradeApi[s] # "idle" => Upgrade!Serving
  BY DEF UpgradeRest, UpgradeOneInv
<1>4. /\ upgradeFaults \in 0..UpgradeFaults /\ upgradePast \in [lost : SUBSET UpgradeOps, crossed : BOOLEAN]
  BY DEF UpgradeTypeInv
<1>5. "manual" \in Upgrade!Phases /\ "manual" \in UpgradeMoving /\ r \in Upgrade!Containers
  BY DEF Upgrade!Phases, UpgradeMoving, Upgrade!Containers
<1> QED BY <1>1, <1>2, <1>3, <1>4, <1>5

\* A step back that has its effect on Docker and goes on.
LEMMA UpgradeUndoes ==
  ASSUME UpgradeTypeInv, UpgradeRest, NEW r \in UpgradeRequests,
         upgradeHelper[r].step \in {"undo new", "undo db", "undo name", "undo stop"},
         NEW step \in {"undo db", "undo name", "undo stop", "undone"},
         Upgrade!Goto(r, step), UNCHANGED upgradeStatus, UpgradeDockerType', upgradeVersion' = upgradeVersion,
         upgradeFresh' = upgradeFresh, UNCHANGED <<upgradePast, upgradeFaults>>,
         \A s \in UpgradeRequests \ {r} : upgradeHelper[s] = Upgrade!NoHelper => upgradeBox'[s] = "absent" /\ upgradeName' # s,
         \A s \in UpgradeRequests : upgradeApi'[s] # "idle" => upgradeApi[s] # "idle" /\ Upgrade!Serving',
         \A c, d \in Upgrade!Containers : upgradeBox'[c] = "running" /\ upgradeBox'[d] = "running" => c = d,
         \A c \in Upgrade!Containers : upgradeBox'[c] = "running" => upgradeDb' <= upgradeVersion[c] \/ UpgradeStarted,
         \A c \in Upgrade!Containers : upgradeBox'[c] = "running" => c \in {r, Upgrade!Own(r)},
         upgradeBox'[r] # "running" /\ (UpgradeWell => upgradeName' # r),
         step \in {"undo db", "undo name"} /\ UpgradeWell =>
           (upgradeName' = Upgrade!Own(r) <=> ~upgradeHelper[r].renamed) /\ upgradeName' \in {"none", r, Upgrade!Own(r)},
         step \in {"undo stop", "undone"} /\ UpgradeWell => upgradeName' = Upgrade!Own(r),
         step = "undone" => upgradeBox'[Upgrade!Own(r)] = "running",
         step # "undone" => upgradeBox'[Upgrade!Own(r)] # "running" /\ (UpgradeWell => upgradeBox'[Upgrade!Own(r)] = "stopped"),
         upgradeDb' <= upgradeVersion[Upgrade!Own(r)] \/ UpgradeStarted \/ (upgradeHelper[r].written /\ step = "undo db")
  PROVE  UpgradeTypeInv' /\ UpgradeRest'
<1>1. PICK h \in UpgradeHelper :
         /\ upgradeHelper' = [upgradeHelper EXCEPT ![r] = h] /\ h.step = step
         /\ h.own = upgradeHelper[r].own /\ h.backup = upgradeHelper[r].backup
         /\ h.stopped = upgradeHelper[r].stopped /\ h.renamed = upgradeHelper[r].renamed
         /\ h.made = upgradeHelper[r].made /\ h.written = upgradeHelper[r].written
  <2>1. step \in UpgradeEarly \cup UpgradeLate
    BY DEF UpgradeLate
  <2> QED BY <2>1, UpgradeMoves
<1>2. upgradeHelper'[r] = h /\ upgradeHelper' \in [UpgradeRequests -> UpgradeHelper]
  BY <1>1 DEF UpgradeTypeInv
<1>3. /\ Upgrade!Own(r) \in Upgrade!Containers \ {r} /\ upgradeHelper[r].stopped /\ upgradeStatus.phase \in UpgradeMoving
      /\ Upgrade!Works(r)
      /\ upgradeHelper[r].backup <= upgradeVersion[Upgrade!Own(r)] \/ UpgradeStarted
  BY UpgradeUndo
<1>4. /\ Upgrade!Own(r)' = Upgrade!Own(r) /\ UpgradeStarted' = UpgradeStarted /\ UpgradeWell' = UpgradeWell
  BY <1>1, <1>2 DEF Upgrade!Own, UpgradeStarted, UpgradeWell
<1>5. UpgradeEarlyInv(r)' /\ UpgradeForthInv(r)'
  BY <1>1, <1>2 DEF UpgradeEarlyInv, UpgradeForthInv, UpgradeEarly
<1>6. UpgradeBackInv(r)'
  BY <1>1, <1>2, <1>4 DEF UpgradeBackInv
<1>7. UpgradeLateInv(r)'
  BY <1>1, <1>2, <1>3, <1>4 DEF UpgradeLateInv
<1>8. \A c \in Upgrade!Containers : upgradeBox'[c] = "running" => upgradeDb' <= upgradeVersion'[c] \/ UpgradeStarted'
  BY <1>4
<1>9. h.step # "none" /\ (UpgradeWell' /\ upgradeStatus'.phase \notin UpgradeMoving => Upgrade!Serving')
  BY <1>1, <1>3
<1>10. UpgradeRest'
  BY <1>1, <1>3, <1>5, <1>6, <1>7, <1>8, <1>9, UpgradeFrame
<1>11. /\ upgradeStatus' \in [phase : Upgrade!Phases, request : UpgradeRequests \cup {"none"}] /\ upgradeFresh' \in BOOLEAN
       /\ upgradePast' \in [lost : SUBSET UpgradeOps, crossed : BOOLEAN] /\ upgradeFaults' \in 0..UpgradeFaults
  BY DEF UpgradeTypeInv
<1>12. UpgradeTypeInv'
  BY <1>2, <1>11, UpgradeTyped
<1> QED BY <1>10, <1>12

\* A step back that fails, with or without its effect, leaves the rest to people.
LEMMA UpgradeGivesUp ==
  ASSUME UpgradeTypeInv, UpgradeRest, NEW r \in UpgradeRequests,
         upgradeHelper[r].step \in {"undo new", "undo db", "undo name", "undo stop", "undone"},
         Upgrade!Report(r, "manual"), UpgradeDockerType', upgradeFresh' = upgradeFresh, upgradeFaults' \in 0..UpgradeFaults,
         upgradePast' \in [lost : SUBSET UpgradeOps, crossed : BOOLEAN],
         \A s \in UpgradeRequests \ {r} : upgradeHelper[s] = Upgrade!NoHelper => upgradeBox'[s] = "absent" /\ upgradeName' # s,
         \A s \in UpgradeRequests : upgradeApi'[s] # "idle" => upgradeApi[s] # "idle" /\ Upgrade!Serving',
         \A c, d \in Upgrade!Containers : upgradeBox'[c] = "running" /\ upgradeBox'[d] = "running" => c = d,
         \A c \in Upgrade!Containers : upgradeBox'[c] = "running" => upgradeDb' <= upgradeVersion'[c] \/ UpgradeStarted'
  PROVE  UpgradeTypeInv' /\ UpgradeRest'
<1>1. Upgrade!Works(r) /\ "manual" \in Upgrade!Phases /\ "manual" \in UpgradeMoving
  BY UpgradeUndo
<1>2. UpgradeWell' /\ "manual" \notin UpgradeMoving => Upgrade!Serving'
  BY <1>1
<1> QED BY <1>1, <1>2, UpgradeLeaves

LEMMA UpgradeQuits ==
  ASSUME UpgradeTypeInv, UpgradeRest, NEW r \in UpgradeRequests,
         upgradeHelper[r].step \in {"undo new", "undo db", "undo name", "undo stop", "undone"},
         Upgrade!Report(r, "manual"), UNCHANGED <<Upgrade!docker, upgradeApi, upgradePoll, upgradePast>>, upgradeFresh' = upgradeFresh,
         upgradeFaults' \in 0..UpgradeFaults
  PROVE  UpgradeTypeInv' /\ UpgradeRest'
<1>1. Upgrade!Works(r) /\ "manual" \in Upgrade!Phases /\ "manual" \in UpgradeMoving
  BY UpgradeUndo
<1>2. UNCHANGED <<upgradeFresh, upgradeApi, upgradePoll, upgradeBox, upgradeName, upgradeVersion, upgradeDb, upgradePast>>
  BY DEF Upgrade!docker
<1>3. UpgradeWell /\ "manual" \notin UpgradeMoving => Upgrade!Serving
  BY <1>1
<1> QED BY <1>1, <1>2, <1>3, UpgradeEnds

LEMMA UpgradeUndoesNew ==
  ASSUME UpgradeTypeInv, UpgradeRest, NEW r \in UpgradeRequests, Upgrade!UndoNew(r)
  PROVE  UpgradeTypeInv' /\ UpgradeRest'
<1> DEFINE step == IF upgradeHelper[r].written THEN "undo db" ELSE "undo name"
           onward == Upgrade!Goto(r, step) /\ UNCHANGED upgradeStatus
<1>1. upgradeHelper[r].step = "undo new" /\ upgradeFresh' = upgradeFresh /\ step \in {"undo db", "undo name", "undo stop", "undone"}
  BY DEF Upgrade!UndoNew, Upgrade!At
<1>2. /\ Upgrade!Own(r) \in Upgrade!Containers \ {r}
      /\ \A c \in Upgrade!Containers : upgradeBox[c] = "running" => c \in {r, Upgrade!Own(r)}
      /\ \A s \in UpgradeRequests : upgradeHelper[s] = Upgrade!NoHelper => upgradeBox[s] = "absent" /\ upgradeName # s
      /\ \A s \in UpgradeRequests : upgradeApi[s] # "idle" => Upgrade!Serving
      /\ upgradeFaults \in 0..UpgradeFaults /\ r \in Upgrade!Containers
      /\ upgradePast \in [lost : SUBSET UpgradeOps, crossed : BOOLEAN]
  BY <1>1, UpgradeUndo
<1>3. /\ ~upgradeHelper[r].made => upgradeBox[r] # "running"
      /\ UpgradeWell => /\ upgradeName = r <=> upgradeHelper[r].made
                        /\ upgradeName = Upgrade!Own(r) <=> ~upgradeHelper[r].renamed
                        /\ upgradeName \in {"none", r, Upgrade!Own(r)}
      /\ upgradeBox[Upgrade!Own(r)] # "running" /\ (UpgradeWell => upgradeBox[Upgrade!Own(r)] = "stopped")
  BY <1>1 DEF UpgradeRest, UpgradeBackInv
<1>4. upgradeDb <= upgradeVersion[Upgrade!Own(r)] \/ UpgradeStarted \/ (upgradeHelper[r].written /\ step = "undo db")
  <2>1. upgradeHelper[r].step \in UpgradeLate
    BY <1>1 DEF UpgradeLate
  <2>2. upgradeDb <= upgradeVersion[Upgrade!Own(r)] \/ UpgradeStarted \/ upgradeHelper[r].written
    BY <2>1 DEF UpgradeRest, UpgradeLateInv
  <2> QED BY <2>2
<1>5. /\ \A c, d \in Upgrade!Containers : upgradeBox[c] = "running" /\ upgradeBox[d] = "running" => c = d
      /\ \A c \in Upgrade!Containers : upgradeBox[c] = "running" => upgradeDb <= upgradeVersion[c] \/ UpgradeStarted
  BY DEF UpgradeRest, UpgradeOneInv
<1>6. step # "undone" /\ step # "undo stop"
  OBVIOUS
<1>7. CASE ~upgradeHelper[r].made /\ onward /\ UNCHANGED <<Upgrade!docker, upgradeApi, upgradePoll, upgradePast, upgradeFaults>>
  <2>1. /\ UpgradeDockerType' /\ UNCHANGED <<upgradeBox, upgradeName, upgradeVersion, upgradeDb, upgradeApi, upgradePoll, upgradePast, upgradeFaults>>
    BY <1>7 DEF Upgrade!docker, UpgradeDockerType, UpgradeTypeInv
  <2>2. /\ \A s \in UpgradeRequests \ {r} : upgradeHelper[s] = Upgrade!NoHelper => upgradeBox'[s] = "absent" /\ upgradeName' # s
        /\ \A s \in UpgradeRequests : upgradeApi'[s] # "idle" => upgradeApi[s] # "idle" /\ Upgrade!Serving'
        /\ \A c, d \in Upgrade!Containers : upgradeBox'[c] = "running" /\ upgradeBox'[d] = "running" => c = d
        /\ \A c \in Upgrade!Containers : upgradeBox'[c] = "running" => upgradeDb' <= upgradeVersion[c] \/ UpgradeStarted
        /\ \A c \in Upgrade!Containers : upgradeBox'[c] = "running" => c \in {r, Upgrade!Own(r)}
    BY <1>2, <1>5, <2>1 DEF Upgrade!Serving
  <2>3. /\ upgradeBox'[r] # "running" /\ (UpgradeWell => upgradeName' # r)
        /\ step \in {"undo db", "undo name"} /\ UpgradeWell =>
             (upgradeName' = Upgrade!Own(r) <=> ~upgradeHelper[r].renamed) /\ upgradeName' \in {"none", r, Upgrade!Own(r)}
        /\ upgradeBox'[Upgrade!Own(r)] # "running" /\ (UpgradeWell => upgradeBox'[Upgrade!Own(r)] = "stopped")
        /\ upgradeDb' <= upgradeVersion[Upgrade!Own(r)] \/ UpgradeStarted \/ (upgradeHelper[r].written /\ step = "undo db")
    BY <1>3, <1>4, <1>7, <2>1
  <2>4. Upgrade!Goto(r, step) /\ UNCHANGED upgradeStatus
    BY <1>7
  <2> HIDE DEF step
  <2> QED BY <1>1, <1>6, <2>1, <2>2, <2>3, <2>4, UpgradeUndoes
<1>8. ASSUME Upgrade!RemoveBox(r), upgradeHelper[r].made
      PROVE  /\ UpgradeDockerType' /\ UNCHANGED <<upgradeVersion, upgradeDb>>
             /\ \A s \in UpgradeRequests \ {r} : upgradeHelper[s] = Upgrade!NoHelper => upgradeBox'[s] = "absent" /\ upgradeName' # s
             /\ \A s \in UpgradeRequests : upgradeApi'[s] # "idle" => upgradeApi[s] # "idle" /\ Upgrade!Serving'
             /\ \A c \in Upgrade!Containers : upgradeBox'[c] # "running"
             /\ upgradeName' # r /\ upgradeBox'[Upgrade!Own(r)] = upgradeBox[Upgrade!Own(r)]
             /\ UpgradeWell => (upgradeName' = Upgrade!Own(r) <=> ~upgradeHelper[r].renamed) /\ upgradeName' \in {"none", r, Upgrade!Own(r)}
  <2>1. /\ upgradeBox' = [upgradeBox EXCEPT ![r] = "absent"] /\ UNCHANGED <<upgradeVersion, upgradeDb>>
        /\ upgradeName' = IF upgradeName = r THEN "none" ELSE upgradeName
    BY <1>8 DEF Upgrade!RemoveBox
  <2>2. /\ upgradeBox \in [Upgrade!Containers -> {"absent", "created", "running", "stopped"}]
        /\ upgradeName \in Upgrade!Containers \cup {"none"} /\ r # "none" /\ "none" \notin Upgrade!Containers
        /\ upgradeApi \in [UpgradeRequests -> {"idle", "admitted", "entered", "boot"}]
    BY UpgradeTypes DEF UpgradeTypeInv
  <2>3. \A c \in Upgrade!Containers : upgradeBox'[c] # "running"
    BY <1>2, <1>3, <2>1, <2>2
  <2>4. \A s \in UpgradeRequests : upgradeApi'[s] # "idle" => upgradeApi[s] # "idle" /\ Upgrade!Serving'
    <3>1. CASE upgradeBox[r] = "running"
      BY <1>8, <3>1 DEF Upgrade!RemoveBox, Upgrade!Dies
    <3>2. CASE upgradeBox[r] # "running"
      <4>1. \A s \in UpgradeRequests : upgradeApi[s] = "idle"
        BY <1>2, <1>3, <2>2, <3>2 DEF Upgrade!Serving
      <4> QED BY <1>8, <3>2, <4>1 DEF Upgrade!RemoveBox
    <3> QED BY <3>1, <3>2
  <2>5. UpgradeDockerType'
    <3>1. /\ upgradeApi' \in [UpgradeRequests -> {"idle", "admitted", "entered", "boot"}]
          /\ upgradePoll' \in [step : {"none", "look"}, seen : [phase : Upgrade!Phases, request : UpgradeRequests \cup {"none"}]]
      BY <1>8 DEF Upgrade!RemoveBox, Upgrade!Dies, Upgrade!NoPoll, Upgrade!Phases, UpgradeTypeInv
    <3> QED BY <2>1, <2>2, <3>1 DEF UpgradeDockerType, UpgradeTypeInv
  <2>6. \A s \in UpgradeRequests \ {r} : upgradeHelper[s] = Upgrade!NoHelper => upgradeBox'[s] = "absent" /\ upgradeName' # s
    BY <1>2, <2>1, <2>2, UpgradeTypes
  <2> QED BY <1>2, <1>3, <2>1, <2>2, <2>3, <2>4, <2>5, <2>6
<1>9. CASE upgradeHelper[r].made /\ Upgrade!RemoveBox(r) /\ onward /\ UNCHANGED <<upgradePast, upgradeFaults>>
  <2>1. /\ \A s \in UpgradeRequests \ {r} : upgradeHelper[s] = Upgrade!NoHelper => upgradeBox'[s] = "absent" /\ upgradeName' # s
        /\ \A s \in UpgradeRequests : upgradeApi'[s] # "idle" => upgradeApi[s] # "idle" /\ Upgrade!Serving'
        /\ \A c, d \in Upgrade!Containers : upgradeBox'[c] = "running" /\ upgradeBox'[d] = "running" => c = d
        /\ \A c \in Upgrade!Containers : upgradeBox'[c] = "running" => upgradeDb' <= upgradeVersion[c] \/ UpgradeStarted
        /\ \A c \in Upgrade!Containers : upgradeBox'[c] = "running" => c \in {r, Upgrade!Own(r)}
        /\ UpgradeDockerType' /\ upgradeVersion' = upgradeVersion
    BY <1>8, <1>9
  <2>2. /\ upgradeBox'[r] # "running" /\ (UpgradeWell => upgradeName' # r)
        /\ step \in {"undo db", "undo name"} /\ UpgradeWell =>
             (upgradeName' = Upgrade!Own(r) <=> ~upgradeHelper[r].renamed) /\ upgradeName' \in {"none", r, Upgrade!Own(r)}
        /\ upgradeBox'[Upgrade!Own(r)] # "running" /\ (UpgradeWell => upgradeBox'[Upgrade!Own(r)] = "stopped")
        /\ upgradeDb' <= upgradeVersion[Upgrade!Own(r)] \/ UpgradeStarted \/ (upgradeHelper[r].written /\ step = "undo db")
    BY <1>2, <1>3, <1>4, <1>8, <1>9
  <2>3. Upgrade!Goto(r, step) /\ UNCHANGED upgradeStatus /\ UNCHANGED <<upgradePast, upgradeFaults>>
    BY <1>9
  <2> HIDE DEF step
  <2> QED BY <1>1, <1>6, <2>1, <2>2, <2>3, UpgradeUndoes
<1>10. CASE /\ upgradeHelper[r].made /\ Upgrade!RemoveBox(r) /\ Upgrade!Report(r, "manual") /\ upgradeFaults' \in 0..UpgradeFaults
            /\ upgradePast' = [upgradePast EXCEPT !.lost = @ \cup {"undo new"}]
  <2>1. upgradePast' \in [lost : SUBSET UpgradeOps, crossed : BOOLEAN]
    <3>1. "undo new" \in UpgradeOps
      BY DEF UpgradeOps
    <3> QED BY <1>10, <3>1, UpgradeLost
  <2>2. /\ \A s \in UpgradeRequests \ {r} : upgradeHelper[s] = Upgrade!NoHelper => upgradeBox'[s] = "absent" /\ upgradeName' # s
        /\ \A s \in UpgradeRequests : upgradeApi'[s] # "idle" => upgradeApi[s] # "idle" /\ Upgrade!Serving'
        /\ \A c, d \in Upgrade!Containers : upgradeBox'[c] = "running" /\ upgradeBox'[d] = "running" => c = d
        /\ \A c \in Upgrade!Containers : upgradeBox'[c] = "running" => upgradeDb' <= upgradeVersion'[c] \/ UpgradeStarted'
        /\ UpgradeDockerType'
    BY <1>8, <1>10
  <2> QED BY <1>1, <1>10, <2>1, <2>2, UpgradeGivesUp
<1>11. CASE Upgrade!Report(r, "manual") /\ UNCHANGED <<Upgrade!docker, upgradeApi, upgradePoll, upgradePast>> /\ upgradeFaults' \in 0..UpgradeFaults
  BY <1>1, <1>11, UpgradeQuits
<1>12. CASE upgradeHelper[r].made
  <2>1. Upgrade!Call("undo new", TRUE, Upgrade!RemoveBox(r), onward, Upgrade!Report(r, "manual"))
    BY <1>12 DEF Upgrade!UndoNew
  <2> HIDE DEF onward
  <2>2. upgradeFaults < UpgradeFaults /\ upgradeFaults' = upgradeFaults + 1 => upgradeFaults' \in 0..UpgradeFaults
    BY <1>2, UpgradeAssumption
  <2>3. \/ Upgrade!RemoveBox(r) /\ onward /\ UNCHANGED <<upgradePast, upgradeFaults>>
        \/ /\ upgradeFaults' \in 0..UpgradeFaults /\ Upgrade!Report(r, "manual")
           /\ \/ UNCHANGED <<Upgrade!docker, upgradeApi, upgradePoll, upgradePast>>
              \/ Upgrade!RemoveBox(r) /\ upgradePast' = [upgradePast EXCEPT !.lost = @ \cup {"undo new"}]
    BY <2>1, <2>2 DEF Upgrade!Call
  <2> QED BY <1>9, <1>10, <1>11, <1>12, <2>3
<1>13. CASE ~upgradeHelper[r].made
  BY <1>7, <1>13 DEF Upgrade!UndoNew
<1> QED BY <1>12, <1>13

LEMMA UpgradeUndoesDb ==
  ASSUME UpgradeTypeInv, UpgradeRest, NEW r \in UpgradeRequests, Upgrade!UndoDb(r)
  PROVE  UpgradeTypeInv' /\ UpgradeRest'
<1>1. upgradeHelper[r].step = "undo db" /\ upgradeFresh' = upgradeFresh
  BY DEF Upgrade!UndoDb, Upgrade!At
<1>2. /\ Upgrade!Own(r) \in Upgrade!Containers \ {r} /\ r \in Upgrade!Containers
      /\ \A c \in Upgrade!Containers : upgradeBox[c] = "running" => c \in {r, Upgrade!Own(r)}
      /\ upgradeHelper[r].backup <= upgradeVersion[Upgrade!Own(r)] \/ UpgradeStarted
      /\ \A s \in UpgradeRequests : upgradeHelper[s] = Upgrade!NoHelper => upgradeBox[s] = "absent" /\ upgradeName # s
      /\ \A s \in UpgradeRequests : upgradeApi[s] # "idle" => Upgrade!Serving
      /\ upgradeFaults \in 0..UpgradeFaults /\ upgradePast \in [lost : SUBSET UpgradeOps, crossed : BOOLEAN]
  BY <1>1, UpgradeUndo
<1>3. /\ upgradeBox[r] # "running" /\ (UpgradeWell => upgradeName # r)
      /\ UpgradeWell => (upgradeName = Upgrade!Own(r) <=> ~upgradeHelper[r].renamed) /\ upgradeName \in {"none", r, Upgrade!Own(r)}
      /\ upgradeBox[Upgrade!Own(r)] # "running" /\ (UpgradeWell => upgradeBox[Upgrade!Own(r)] = "stopped")
  BY <1>1 DEF UpgradeRest, UpgradeBackInv
<1>4. \A c \in Upgrade!Containers : upgradeBox[c] # "running"
  BY <1>2, <1>3
<1>5. ASSUME upgradeDb' = upgradeHelper[r].backup, UNCHANGED <<upgradeBox, upgradeName, upgradeVersion, upgradeApi, upgradePoll>>
      PROVE  /\ UpgradeDockerType' /\ UNCHANGED <<upgradeBox, upgradeName, upgradeVersion, upgradeApi, upgradePoll>>
             /\ \A s \in UpgradeRequests \ {r} : upgradeHelper[s] = Upgrade!NoHelper => upgradeBox'[s] = "absent" /\ upgradeName' # s
             /\ \A s \in UpgradeRequests : upgradeApi'[s] # "idle" => upgradeApi[s] # "idle" /\ Upgrade!Serving'
             /\ \A c \in Upgrade!Containers : upgradeBox'[c] # "running"
  <2>1. UpgradeDockerType'
    BY <1>5, UpgradeTypes DEF UpgradeDockerType, UpgradeTypeInv
  <2> QED BY <1>2, <1>4, <1>5, <2>1 DEF Upgrade!Serving
<1>6. CASE /\ upgradeDb' = upgradeHelper[r].backup /\ UNCHANGED <<upgradeBox, upgradeName, upgradeVersion, upgradeApi, upgradePoll>>
           /\ Upgrade!Goto(r, "undo name") /\ UNCHANGED upgradeStatus /\ UNCHANGED <<upgradePast, upgradeFaults>>
  <2>1. /\ \A s \in UpgradeRequests \ {r} : upgradeHelper[s] = Upgrade!NoHelper => upgradeBox'[s] = "absent" /\ upgradeName' # s
        /\ \A s \in UpgradeRequests : upgradeApi'[s] # "idle" => upgradeApi[s] # "idle" /\ Upgrade!Serving'
        /\ \A c, d \in Upgrade!Containers : upgradeBox'[c] = "running" /\ upgradeBox'[d] = "running" => c = d
        /\ \A c \in Upgrade!Containers : upgradeBox'[c] = "running" => upgradeDb' <= upgradeVersion[c] \/ UpgradeStarted
        /\ \A c \in Upgrade!Containers : upgradeBox'[c] = "running" => c \in {r, Upgrade!Own(r)}
        /\ UpgradeDockerType'
    BY <1>5, <1>6
  <2> DEFINE step == "undo name"
  <2>2. /\ upgradeBox'[r] # "running" /\ (UpgradeWell => upgradeName' # r)
        /\ step \in {"undo db", "undo name"} /\ UpgradeWell =>
             (upgradeName' = Upgrade!Own(r) <=> ~upgradeHelper[r].renamed) /\ upgradeName' \in {"none", r, Upgrade!Own(r)}
        /\ upgradeBox'[Upgrade!Own(r)] # "running" /\ (UpgradeWell => upgradeBox'[Upgrade!Own(r)] = "stopped")
        /\ upgradeDb' <= upgradeVersion[Upgrade!Own(r)] \/ UpgradeStarted \/ (upgradeHelper[r].written /\ step = "undo db")
    BY <1>2, <1>3, <1>6
  <2>3. Upgrade!Goto(r, step) /\ step # "undone" /\ step # "undo stop" /\ step \in {"undo db", "undo name", "undo stop", "undone"}
    BY <1>6
  <2> HIDE DEF step
  <2> QED BY <1>1, <1>6, <2>1, <2>2, <2>3, UpgradeUndoes
<1>7. CASE /\ upgradeDb' = upgradeHelper[r].backup /\ UNCHANGED <<upgradeBox, upgradeName, upgradeVersion, upgradeApi, upgradePoll>>
           /\ Upgrade!Report(r, "manual") /\ upgradeFaults' \in 0..UpgradeFaults
           /\ upgradePast' = [upgradePast EXCEPT !.lost = @ \cup {"undo db"}]
  <2>1. upgradePast' \in [lost : SUBSET UpgradeOps, crossed : BOOLEAN]
    <3>1. "undo db" \in UpgradeOps
      BY DEF UpgradeOps
    <3> QED BY <1>7, <3>1, UpgradeLost
  <2>2. /\ \A s \in UpgradeRequests \ {r} : upgradeHelper[s] = Upgrade!NoHelper => upgradeBox'[s] = "absent" /\ upgradeName' # s
        /\ \A s \in UpgradeRequests : upgradeApi'[s] # "idle" => upgradeApi[s] # "idle" /\ Upgrade!Serving'
        /\ \A c, d \in Upgrade!Containers : upgradeBox'[c] = "running" /\ upgradeBox'[d] = "running" => c = d
        /\ \A c \in Upgrade!Containers : upgradeBox'[c] = "running" => upgradeDb' <= upgradeVersion'[c] \/ UpgradeStarted'
        /\ UpgradeDockerType'
    BY <1>5, <1>7
  <2> QED BY <1>1, <1>7, <2>1, <2>2, UpgradeGivesUp
<1>8. CASE Upgrade!Report(r, "manual") /\ UNCHANGED <<Upgrade!docker, upgradeApi, upgradePoll, upgradePast>> /\ upgradeFaults' \in 0..UpgradeFaults
  BY <1>1, <1>8, UpgradeQuits
<1>9. upgradeFaults < UpgradeFaults /\ upgradeFaults' = upgradeFaults + 1 => upgradeFaults' \in 0..UpgradeFaults
  BY <1>2, UpgradeAssumption
<1>10. \/ /\ upgradeDb' = upgradeHelper[r].backup /\ UNCHANGED <<upgradeBox, upgradeName, upgradeVersion, upgradeApi, upgradePoll>>
          /\ Upgrade!Goto(r, "undo name") /\ UNCHANGED upgradeStatus /\ UNCHANGED <<upgradePast, upgradeFaults>>
       \/ /\ upgradeFaults' \in 0..UpgradeFaults /\ Upgrade!Report(r, "manual")
          /\ \/ UNCHANGED <<Upgrade!docker, upgradeApi, upgradePoll, upgradePast>>
             \/ /\ upgradeDb' = upgradeHelper[r].backup /\ UNCHANGED <<upgradeBox, upgradeName, upgradeVersion, upgradeApi, upgradePoll>>
                /\ upgradePast' = [upgradePast EXCEPT !.lost = @ \cup {"undo db"}]
  BY <1>9 DEF Upgrade!UndoDb, Upgrade!Call
<1> QED BY <1>6, <1>7, <1>8, <1>10

LEMMA UpgradeUndoesName ==
  ASSUME UpgradeTypeInv, UpgradeRest, NEW r \in UpgradeRequests, Upgrade!UndoName(r)
  PROVE  UpgradeTypeInv' /\ UpgradeRest'
<1>1. upgradeHelper[r].step = "undo name" /\ upgradeFresh' = upgradeFresh
  BY DEF Upgrade!UndoName, Upgrade!At
<1>2. /\ Upgrade!Own(r) \in Upgrade!Containers \ {r} /\ r \in Upgrade!Containers
      /\ \A c \in Upgrade!Containers : upgradeBox[c] = "running" => c \in {r, Upgrade!Own(r)}
      /\ \A s \in UpgradeRequests : upgradeHelper[s] = Upgrade!NoHelper => upgradeBox[s] = "absent" /\ upgradeName # s
      /\ \A s \in UpgradeRequests : upgradeApi[s] # "idle" => Upgrade!Serving
      /\ upgradeFaults \in 0..UpgradeFaults /\ upgradePast \in [lost : SUBSET UpgradeOps, crossed : BOOLEAN]
  BY <1>1, UpgradeUndo
<1>3. /\ upgradeBox[r] # "running" /\ (UpgradeWell => upgradeName # r)
      /\ UpgradeWell => (upgradeName = Upgrade!Own(r) <=> ~upgradeHelper[r].renamed) /\ upgradeName \in {"none", r, Upgrade!Own(r)}
      /\ upgradeBox[Upgrade!Own(r)] # "running" /\ (UpgradeWell => upgradeBox[Upgrade!Own(r)] = "stopped")
  BY <1>1 DEF UpgradeRest, UpgradeBackInv
<1>4. upgradeDb <= upgradeVersion[Upgrade!Own(r)] \/ UpgradeStarted
  <2>1. upgradeHelper[r].step \in UpgradeLate
    BY <1>1 DEF UpgradeLate
  <2> QED BY <1>1, <2>1 DEF UpgradeRest, UpgradeLateInv
<1>5. /\ \A c \in Upgrade!Containers : upgradeBox[c] # "running"
      /\ \A s \in UpgradeRequests : upgradeApi[s] = "idle"
  BY <1>2, <1>3 DEF Upgrade!Serving, UpgradeTypeInv
<1>6. ASSUME UNCHANGED <<upgradeBox, upgradeVersion, upgradeDb, upgradeApi, upgradePoll>>,
             upgradeName' = upgradeName \/ (upgradeName' = Upgrade!Own(r) /\ upgradeBox[Upgrade!Own(r)] # "absent")
      PROVE  /\ UpgradeDockerType'
             /\ \A s \in UpgradeRequests \ {r} : upgradeHelper[s] = Upgrade!NoHelper => upgradeBox'[s] = "absent" /\ upgradeName' # s
             /\ \A s \in UpgradeRequests : upgradeApi'[s] # "idle" => upgradeApi[s] # "idle" /\ Upgrade!Serving'
             /\ \A c \in Upgrade!Containers : upgradeBox'[c] # "running"
             /\ upgradeBox'[Upgrade!Own(r)] # "running" /\ (UpgradeWell => upgradeBox'[Upgrade!Own(r)] = "stopped")
             /\ upgradeDb' <= upgradeVersion[Upgrade!Own(r)] \/ UpgradeStarted
  <2>1. UpgradeDockerType'
    BY <1>2, <1>6 DEF UpgradeDockerType, UpgradeTypeInv
  <2>3. \A s \in UpgradeRequests \ {r} : upgradeHelper[s] = Upgrade!NoHelper => upgradeName' # s
    BY <1>2, <1>6
  <2> QED BY <1>2, <1>3, <1>4, <1>5, <1>6, <2>1, <2>3
<1> DEFINE step == "undo stop"
<1>7. step # "undone" /\ step \in {"undo db", "undo name", "undo stop", "undone"} /\ step \notin {"undo db", "undo name"}
  OBVIOUS
<1>8. ASSUME UNCHANGED <<upgradeBox, upgradeVersion, upgradeDb, upgradeApi, upgradePoll>>, Upgrade!Goto(r, step), UNCHANGED <<upgradeStatus, upgradePast, upgradeFaults>>,
             upgradeName' = upgradeName \/ (upgradeName' = Upgrade!Own(r) /\ upgradeBox[Upgrade!Own(r)] # "absent"),
             UpgradeWell => upgradeName' = Upgrade!Own(r)
      PROVE  UpgradeTypeInv' /\ UpgradeRest'
  <2>1. /\ \A s \in UpgradeRequests \ {r} : upgradeHelper[s] = Upgrade!NoHelper => upgradeBox'[s] = "absent" /\ upgradeName' # s
        /\ \A s \in UpgradeRequests : upgradeApi'[s] # "idle" => upgradeApi[s] # "idle" /\ Upgrade!Serving'
        /\ \A c, d \in Upgrade!Containers : upgradeBox'[c] = "running" /\ upgradeBox'[d] = "running" => c = d
        /\ \A c \in Upgrade!Containers : upgradeBox'[c] = "running" => upgradeDb' <= upgradeVersion[c] \/ UpgradeStarted
        /\ \A c \in Upgrade!Containers : upgradeBox'[c] = "running" => c \in {r, Upgrade!Own(r)}
        /\ UpgradeDockerType' /\ upgradeVersion' = upgradeVersion
    BY <1>6, <1>8
  <2>2. /\ upgradeBox'[r] # "running" /\ (UpgradeWell => upgradeName' # r)
        /\ upgradeBox'[Upgrade!Own(r)] # "running" /\ (UpgradeWell => upgradeBox'[Upgrade!Own(r)] = "stopped")
        /\ upgradeDb' <= upgradeVersion[Upgrade!Own(r)] \/ UpgradeStarted \/ (upgradeHelper[r].written /\ step = "undo db")
    BY <1>2, <1>6, <1>8
  <2>3. /\ step \in {"undo db", "undo name"} /\ UpgradeWell =>
             (upgradeName' = Upgrade!Own(r) <=> ~upgradeHelper[r].renamed) /\ upgradeName' \in {"none", r, Upgrade!Own(r)}
        /\ step \in {"undo stop", "undone"} /\ UpgradeWell => upgradeName' = Upgrade!Own(r)
        /\ Upgrade!Goto(r, step) /\ UNCHANGED upgradeStatus /\ UNCHANGED <<upgradePast, upgradeFaults>>
    BY <1>7, <1>8
  <2> HIDE DEF step
  <2> QED BY <1>1, <1>7, <2>1, <2>2, <2>3, UpgradeUndoes
<1>9. CASE ~upgradeHelper[r].renamed
  <2>1. Upgrade!Goto(r, step) /\ UNCHANGED <<upgradeStatus, upgradePast, upgradeFaults>> /\ UNCHANGED <<upgradeBox, upgradeName, upgradeVersion, upgradeDb, upgradeApi, upgradePoll>>
    BY <1>9 DEF Upgrade!UndoName, Upgrade!docker
  <2>2. UpgradeWell => upgradeName' = Upgrade!Own(r)
    BY <1>3, <1>9, <2>1
  <2> HIDE DEF step
  <2> QED BY <1>8, <2>1, <2>2
<1>10. CASE upgradeHelper[r].renamed
  <2>1. upgradeFaults < UpgradeFaults /\ upgradeFaults' = upgradeFaults + 1 => upgradeFaults' \in 0..UpgradeFaults
    BY <1>2, UpgradeAssumption
  <2>2. \/ /\ upgradeBox[Upgrade!Own(r)] # "absent" /\ upgradeName' = Upgrade!Own(r) /\ UNCHANGED <<upgradeBox, upgradeVersion, upgradeDb, upgradeApi, upgradePoll>>
           /\ Upgrade!Goto(r, step) /\ UNCHANGED upgradeStatus /\ UNCHANGED <<upgradePast, upgradeFaults>>
        \/ /\ upgradeFaults' \in 0..UpgradeFaults /\ Upgrade!Report(r, "manual")
           /\ \/ UNCHANGED <<Upgrade!docker, upgradeApi, upgradePoll, upgradePast>>
              \/ /\ upgradeBox[Upgrade!Own(r)] # "absent" /\ upgradeName' = Upgrade!Own(r) /\ UNCHANGED <<upgradeBox, upgradeVersion, upgradeDb, upgradeApi, upgradePoll>>
                 /\ upgradePast' = [upgradePast EXCEPT !.lost = @ \cup {"undo name"}]
    BY <1>2, <1>10, <2>1 DEF Upgrade!UndoName, Upgrade!Call, Upgrade!Rename
  <2>3. CASE /\ upgradeBox[Upgrade!Own(r)] # "absent" /\ upgradeName' = Upgrade!Own(r) /\ UNCHANGED <<upgradeBox, upgradeVersion, upgradeDb, upgradeApi, upgradePoll>>
             /\ Upgrade!Goto(r, step) /\ UNCHANGED upgradeStatus /\ UNCHANGED <<upgradePast, upgradeFaults>>
    <3> HIDE DEF step
    <3> QED BY <1>8, <2>3
  <2>4. CASE Upgrade!Report(r, "manual") /\ UNCHANGED <<Upgrade!docker, upgradeApi, upgradePoll, upgradePast>> /\ upgradeFaults' \in 0..UpgradeFaults
    BY <1>1, <2>4, UpgradeQuits
  <2>5. CASE /\ upgradeBox[Upgrade!Own(r)] # "absent" /\ upgradeName' = Upgrade!Own(r) /\ UNCHANGED <<upgradeBox, upgradeVersion, upgradeDb, upgradeApi, upgradePoll>>
             /\ Upgrade!Report(r, "manual") /\ upgradeFaults' \in 0..UpgradeFaults
             /\ upgradePast' = [upgradePast EXCEPT !.lost = @ \cup {"undo name"}]
    <3>1. upgradePast' \in [lost : SUBSET UpgradeOps, crossed : BOOLEAN]
      <4>1. "undo name" \in UpgradeOps
        BY DEF UpgradeOps
      <4> QED BY <2>5, <4>1, UpgradeLost
    <3>2. /\ \A s \in UpgradeRequests \ {r} : upgradeHelper[s] = Upgrade!NoHelper => upgradeBox'[s] = "absent" /\ upgradeName' # s
          /\ \A s \in UpgradeRequests : upgradeApi'[s] # "idle" => upgradeApi[s] # "idle" /\ Upgrade!Serving'
          /\ \A c, d \in Upgrade!Containers : upgradeBox'[c] = "running" /\ upgradeBox'[d] = "running" => c = d
          /\ \A c \in Upgrade!Containers : upgradeBox'[c] = "running" => upgradeDb' <= upgradeVersion'[c] \/ UpgradeStarted'
          /\ UpgradeDockerType'
      BY <1>6, <2>5
    <3> QED BY <1>1, <2>5, <3>1, <3>2, UpgradeGivesUp
  <2> QED BY <2>2, <2>3, <2>4, <2>5
<1> QED BY <1>9, <1>10

LEMMA UpgradeUndoesStop ==
  ASSUME UpgradeTypeInv, UpgradeRest, NEW r \in UpgradeRequests, Upgrade!UndoStop(r)
  PROVE  UpgradeTypeInv' /\ UpgradeRest'
<1>1. upgradeHelper[r].step = "undo stop" /\ upgradeFresh' = upgradeFresh
  BY DEF Upgrade!UndoStop, Upgrade!At
<1>2. /\ Upgrade!Own(r) \in Upgrade!Containers \ {r} /\ r \in Upgrade!Containers
      /\ \A c \in Upgrade!Containers : upgradeBox[c] = "running" => c \in {r, Upgrade!Own(r)}
      /\ \A s \in UpgradeRequests : upgradeHelper[s] = Upgrade!NoHelper => upgradeBox[s] = "absent" /\ upgradeName # s
      /\ \A s \in UpgradeRequests : upgradeApi[s] # "idle" => Upgrade!Serving
      /\ upgradeFaults \in 0..UpgradeFaults /\ upgradePast \in [lost : SUBSET UpgradeOps, crossed : BOOLEAN]
  BY <1>1, UpgradeUndo
<1>3. /\ upgradeBox[r] # "running" /\ (UpgradeWell => upgradeName # r)
      /\ UpgradeWell => upgradeName = Upgrade!Own(r)
      /\ upgradeBox[Upgrade!Own(r)] # "running" /\ (UpgradeWell => upgradeBox[Upgrade!Own(r)] = "stopped")
  BY <1>1 DEF UpgradeRest, UpgradeBackInv
<1>4. upgradeDb <= upgradeVersion[Upgrade!Own(r)] \/ UpgradeStarted
  <2>1. upgradeHelper[r].step \in UpgradeLate
    BY <1>1 DEF UpgradeLate
  <2> QED BY <1>1, <2>1 DEF UpgradeRest, UpgradeLateInv
<1>5. /\ \A c \in Upgrade!Containers : upgradeBox[c] # "running"
      /\ \A s \in UpgradeRequests : upgradeApi[s] = "idle"
  BY <1>2, <1>3 DEF Upgrade!Serving, UpgradeTypeInv
<1>6. ASSUME Upgrade!StartBox(Upgrade!Own(r)), upgradeBox[Upgrade!Own(r)] # "absent"
      PROVE  /\ UpgradeDockerType' /\ UNCHANGED <<upgradeName, upgradeVersion>>
             /\ \A s \in UpgradeRequests \ {r} : upgradeHelper[s] = Upgrade!NoHelper => upgradeBox'[s] = "absent" /\ upgradeName' # s
             /\ \A s \in UpgradeRequests : upgradeApi'[s] # "idle" => upgradeApi[s] # "idle" /\ Upgrade!Serving'
             /\ \A c \in Upgrade!Containers : upgradeBox'[c] = "running" => c = Upgrade!Own(r)
             /\ upgradeBox'[Upgrade!Own(r)] = "running" /\ upgradeBox'[r] # "running"
             /\ upgradeDb' <= upgradeVersion[Upgrade!Own(r)] \/ UpgradeStarted
  <2>1. /\ upgradeBox' = [upgradeBox EXCEPT ![Upgrade!Own(r)] = "running"] /\ UNCHANGED <<upgradeName, upgradeVersion, upgradeApi, upgradePoll>>
        /\ upgradeDb' = upgradeDb \/ upgradeDb' = upgradeVersion[Upgrade!Own(r)]
    BY <1>6 DEF Upgrade!StartBox
  <2>2. upgradeVersion[Upgrade!Own(r)] \in Nat
    BY <1>2 DEF UpgradeTypeInv
  <2>3. UpgradeDockerType'
    BY <1>2, <2>1, <2>2 DEF UpgradeDockerType, UpgradeTypeInv
  <2>4. upgradeBox'[Upgrade!Own(r)] = "running" /\ \A c \in Upgrade!Containers \ {Upgrade!Own(r)} : upgradeBox'[c] = upgradeBox[c]
    BY <1>2, <2>1 DEF UpgradeTypeInv
  <2>5. \A s \in UpgradeRequests \ {r} : upgradeHelper[s] = Upgrade!NoHelper => upgradeBox'[s] = "absent" /\ upgradeName' # s
    BY <1>2, <1>6, <2>1, <2>4, UpgradeTypes
  <2>6. upgradeDb' <= upgradeVersion[Upgrade!Own(r)] \/ UpgradeStarted
    BY <1>4, <2>1, <2>2
  <2> QED BY <1>2, <1>3, <1>5, <2>1, <2>3, <2>4, <2>5, <2>6
<1> DEFINE step == "undone"
<1>7. step = "undone" /\ step \in {"undo db", "undo name", "undo stop", "undone"} /\ step \notin {"undo db", "undo name"}
  OBVIOUS
<1>8. CASE /\ upgradeBox[Upgrade!Own(r)] # "absent" /\ Upgrade!StartBox(Upgrade!Own(r))
           /\ Upgrade!Goto(r, step) /\ UNCHANGED upgradeStatus /\ UNCHANGED <<upgradePast, upgradeFaults>>
  <2>1. /\ \A s \in UpgradeRequests \ {r} : upgradeHelper[s] = Upgrade!NoHelper => upgradeBox'[s] = "absent" /\ upgradeName' # s
        /\ \A s \in UpgradeRequests : upgradeApi'[s] # "idle" => upgradeApi[s] # "idle" /\ Upgrade!Serving'
        /\ \A c, d \in Upgrade!Containers : upgradeBox'[c] = "running" /\ upgradeBox'[d] = "running" => c = d
        /\ \A c \in Upgrade!Containers : upgradeBox'[c] = "running" => upgradeDb' <= upgradeVersion[c] \/ UpgradeStarted
        /\ \A c \in Upgrade!Containers : upgradeBox'[c] = "running" => c \in {r, Upgrade!Own(r)}
        /\ UpgradeDockerType' /\ upgradeVersion' = upgradeVersion
    BY <1>6, <1>8
  <2>2. /\ upgradeBox'[r] # "running" /\ (UpgradeWell => upgradeName' # r)
        /\ upgradeBox'[Upgrade!Own(r)] = "running" /\ (UpgradeWell => upgradeName' = Upgrade!Own(r))
        /\ upgradeDb' <= upgradeVersion[Upgrade!Own(r)] \/ UpgradeStarted \/ (upgradeHelper[r].written /\ step = "undo db")
    BY <1>3, <1>6, <1>8
  <2>3. /\ step \in {"undo db", "undo name"} /\ UpgradeWell =>
             (upgradeName' = Upgrade!Own(r) <=> ~upgradeHelper[r].renamed) /\ upgradeName' \in {"none", r, Upgrade!Own(r)}
        /\ step \in {"undo stop", "undone"} /\ UpgradeWell => upgradeName' = Upgrade!Own(r)
        /\ step = "undone" => upgradeBox'[Upgrade!Own(r)] = "running"
        /\ step # "undone" => upgradeBox'[Upgrade!Own(r)] # "running" /\ (UpgradeWell => upgradeBox'[Upgrade!Own(r)] = "stopped")
    BY <1>7, <2>2
  <2>4. Upgrade!Goto(r, step) /\ UNCHANGED upgradeStatus /\ UNCHANGED <<upgradePast, upgradeFaults>>
    BY <1>8
  <2> HIDE DEF step
  <2> QED BY <1>1, <1>7, <2>1, <2>2, <2>3, <2>4, UpgradeUndoes
<1>9. CASE Upgrade!Report(r, "manual") /\ UNCHANGED <<Upgrade!docker, upgradeApi, upgradePoll, upgradePast>> /\ upgradeFaults' \in 0..UpgradeFaults
  BY <1>1, <1>9, UpgradeQuits
<1>10. CASE /\ upgradeBox[Upgrade!Own(r)] # "absent" /\ Upgrade!StartBox(Upgrade!Own(r)) /\ Upgrade!Report(r, "manual") /\ upgradeFaults' \in 0..UpgradeFaults
            /\ upgradePast' = [upgradePast EXCEPT !.lost = @ \cup {"undo stop"}]
  <2>1. /\ upgradePast' \in [lost : SUBSET UpgradeOps, crossed : BOOLEAN] /\ (UpgradeStarted => UpgradeStarted')
    <3>1. "undo stop" \in UpgradeOps
      BY DEF UpgradeOps
    <3> QED BY <1>10, <3>1, UpgradeLost
  <2>2. /\ \A s \in UpgradeRequests \ {r} : upgradeHelper[s] = Upgrade!NoHelper => upgradeBox'[s] = "absent" /\ upgradeName' # s
        /\ \A s \in UpgradeRequests : upgradeApi'[s] # "idle" => upgradeApi[s] # "idle" /\ Upgrade!Serving'
        /\ \A c, d \in Upgrade!Containers : upgradeBox'[c] = "running" /\ upgradeBox'[d] = "running" => c = d
        /\ \A c \in Upgrade!Containers : upgradeBox'[c] = "running" => upgradeDb' <= upgradeVersion'[c] \/ UpgradeStarted'
        /\ UpgradeDockerType'
    BY <1>6, <1>10, <2>1
  <2> QED BY <1>1, <1>10, <2>1, <2>2, UpgradeGivesUp
<1>11. upgradeFaults < UpgradeFaults /\ upgradeFaults' = upgradeFaults + 1 => upgradeFaults' \in 0..UpgradeFaults
  BY <1>2, UpgradeAssumption
<1>12. \/ /\ upgradeBox[Upgrade!Own(r)] # "absent" /\ Upgrade!StartBox(Upgrade!Own(r))
          /\ Upgrade!Goto(r, step) /\ UNCHANGED upgradeStatus /\ UNCHANGED <<upgradePast, upgradeFaults>>
       \/ /\ upgradeFaults' \in 0..UpgradeFaults /\ Upgrade!Report(r, "manual")
          /\ \/ UNCHANGED <<Upgrade!docker, upgradeApi, upgradePoll, upgradePast>>
             \/ /\ upgradeBox[Upgrade!Own(r)] # "absent" /\ Upgrade!StartBox(Upgrade!Own(r))
                /\ upgradePast' = [upgradePast EXCEPT !.lost = @ \cup {"undo stop"}]
  BY <1>2, <1>11 DEF Upgrade!UndoStop, Upgrade!Call
<1> QED BY <1>8, <1>9, <1>10, <1>12

LEMMA UpgradeOver ==
  ASSUME UpgradeTypeInv, UpgradeRest, NEW r \in UpgradeRequests, Upgrade!Undone(r)
  PROVE  UpgradeTypeInv' /\ UpgradeRest'
<1>1. /\ upgradeHelper[r].step = "undone" /\ UNCHANGED <<upgradeFresh, Upgrade!docker, upgradeApi, upgradePoll, upgradePast, upgradeFaults>>
      /\ upgradeFaults' \in 0..UpgradeFaults
  BY DEF Upgrade!Undone, Upgrade!At, UpgradeTypeInv
<1>2. CASE Upgrade!Report(r, "manual")
  BY <1>1, <1>2, UpgradeQuits
<1>3. CASE Upgrade!Report(r, "rolled_back")
  <2>1. Upgrade!Own(r) \in Upgrade!Containers /\ Upgrade!Works(r) /\ "rolled_back" \in Upgrade!Phases
    BY <1>1, UpgradeUndo DEF Upgrade!Phases, Upgrade!Active
  <2>2. upgradeBox[Upgrade!Own(r)] = "running" /\ (UpgradeWell => upgradeName = Upgrade!Own(r))
    BY <1>1 DEF UpgradeRest, UpgradeBackInv
  <2>3. UpgradeWell => Upgrade!Serving
    BY <2>1, <2>2, UpgradeTypes DEF Upgrade!Serving
  <2> QED BY <1>1, <1>3, <2>1, <2>3, UpgradeEnds DEF Upgrade!docker
<1> QED BY <1>2, <1>3 DEF Upgrade!Undone

\* A helper dies where it is, and leaves what it has done.
LEMMA UpgradeDies ==
  ASSUME UpgradeTypeInv, UpgradeRest, NEW r \in UpgradeRequests, Upgrade!HelperDies(r)
  PROVE  UpgradeTypeInv' /\ UpgradeRest'
<1>1. /\ Upgrade!Works(r) /\ upgradeHelper' = [upgradeHelper EXCEPT ![r] = Upgrade!Gone] /\ Upgrade!Gone \in UpgradeHelper /\ Upgrade!Gone.step = "gone"
      /\ UNCHANGED <<upgradeFresh, upgradeApi, upgradePoll, upgradeBox, upgradeName, upgradeVersion, upgradeDb, upgradePast>> /\ upgradeStatus' = upgradeStatus
  BY UpgradeTypes DEF Upgrade!HelperDies, Upgrade!docker
<1>2. upgradeHelper'[r].step = "gone" /\ upgradeFaults' \in 0..UpgradeFaults
  BY <1>1, UpgradeAssumption DEF UpgradeTypeInv, Upgrade!HelperDies
<1>3. UpgradeEarlyInv(r)' /\ UpgradeForthInv(r)' /\ UpgradeBackInv(r)' /\ UpgradeLateInv(r)'
  BY <1>2, UpgradeGone
<1>4. /\ upgradeStatus' \in [phase : Upgrade!Phases, request : UpgradeRequests \cup {"none"}]
      /\ UpgradeWell /\ upgradeStatus'.phase \notin UpgradeMoving => Upgrade!Serving
  BY <1>1 DEF UpgradeRest, UpgradeOneInv, UpgradeTypeInv
<1> QED BY <1>1, <1>2, <1>3, <1>4, UpgradeStill

-----------------------------------------------------------------------------
(* The application. *)

\* What the application does leaves Docker and the helpers alone.
LEMMA UpgradeServes ==
  ASSUME UpgradeTypeInv, UpgradeRest, UNCHANGED <<upgradeHelper, Upgrade!docker>>, upgradePast'.lost = upgradePast.lost,
         \A r \in UpgradeRequests : upgradeHelper[r].step = "stop" \/ upgradeHelper[r].step \in UpgradeLate => upgradeStatus'.phase \in UpgradeMoving,
         UpgradeWell /\ upgradeStatus'.phase \notin UpgradeMoving => Upgrade!Serving,
         \A r \in UpgradeRequests : upgradeApi'[r] # "idle" => Upgrade!Serving /\ upgradeHelper[r] = Upgrade!NoHelper
  PROVE  UpgradeRest'
<1>1. UNCHANGED <<upgradeBox, upgradeName, upgradeVersion, upgradeDb, upgradeHelper>> /\ UpgradeWell' = UpgradeWell /\ UpgradeStarted' = UpgradeStarted
  BY DEF Upgrade!docker, UpgradeWell, UpgradeStarted
<1>2. UpgradeOneInv'
  BY <1>1 DEF UpgradeRest, UpgradeOneInv, Upgrade!Serving, Upgrade!Works
<1>3. ASSUME NEW r \in UpgradeRequests
      PROVE  UpgradeEarlyInv(r)' /\ UpgradeForthInv(r)' /\ UpgradeBackInv(r)' /\ UpgradeLateInv(r)'
  <2>1. UpgradeEarlyInv(r) /\ UpgradeForthInv(r) /\ UpgradeBackInv(r) /\ UpgradeLateInv(r)
    BY DEF UpgradeRest
  <2>2. UpgradeEarlyInv(r)'
    BY <1>1, <2>1 DEF UpgradeEarlyInv, Upgrade!Serving, Upgrade!Own
  <2>3. UpgradeForthInv(r)'
    BY <1>1, <2>1 DEF UpgradeForthInv, Upgrade!Own
  <2>4. UpgradeBackInv(r)'
    BY <1>1, <2>1 DEF UpgradeBackInv, Upgrade!Own
  <2>5. UpgradeLateInv(r)'
    BY <1>1, <2>1 DEF UpgradeLateInv, Upgrade!Own
  <2> QED BY <2>2, <2>3, <2>4, <2>5
<1> QED BY <1>2, <1>3 DEF UpgradeRest

\* While a request is served, nothing but the image has been touched.
LEMMA UpgradeIdle ==
  ASSUME UpgradeTypeInv, UpgradeRest
  PROVE  /\ \A r \in UpgradeRequests : upgradeHelper[r].step = "stop" \/ upgradeHelper[r].step \in UpgradeLate => upgradeStatus.phase \in UpgradeMoving
         /\ UpgradeWell /\ upgradeStatus.phase \notin UpgradeMoving => Upgrade!Serving
         /\ \A r \in UpgradeRequests : upgradeApi[r] # "idle" => Upgrade!Serving /\ upgradeHelper[r] = Upgrade!NoHelper
         /\ \A r \in UpgradeRequests : upgradeHelper[r].step = "stop" \/ upgradeHelper[r].step \in UpgradeLate => Upgrade!Works(r)
<1>1. \A r \in UpgradeRequests : upgradeHelper[r].step = "stop" => upgradeStatus.phase \in UpgradeMoving
  BY DEF UpgradeRest, UpgradeEarlyInv, UpgradeEarly
<1>2. \A r \in UpgradeRequests : upgradeHelper[r].step \in UpgradeLate => upgradeStatus.phase \in UpgradeMoving
  BY DEF UpgradeRest, UpgradeLateInv
<1>3. \A r \in UpgradeRequests : upgradeHelper[r].step = "stop" \/ upgradeHelper[r].step \in UpgradeLate => Upgrade!Works(r)
  BY DEF Upgrade!Works, UpgradeLate
<1> QED BY <1>1, <1>2, <1>3 DEF UpgradeRest, UpgradeOneInv

LEMMA UpgradeAsked ==
  ASSUME UpgradeTypeInv, UpgradeRest, NEW r \in UpgradeRequests, Upgrade!Admit(r) \/ Upgrade!Enter(r)
  PROVE  UpgradeTypeInv' /\ UpgradeRest'
<1>1. /\ UNCHANGED <<upgradeStatus, upgradeFresh, upgradePoll, upgradeHelper, Upgrade!docker, upgradePast, upgradeFaults>>
      /\ upgradeApi' \in [UpgradeRequests -> {"idle", "admitted", "entered", "boot"}]
      /\ \A s \in UpgradeRequests : upgradeApi'[s] # "idle" => Upgrade!Serving /\ upgradeHelper[s] = Upgrade!NoHelper
  <2>1. upgradeApi \in [UpgradeRequests -> {"idle", "admitted", "entered", "boot"}]
    BY DEF UpgradeTypeInv
  <2> QED BY <2>1, UpgradeIdle DEF Upgrade!Admit, Upgrade!Enter
<1>2. UpgradeTypeInv'
  BY <1>1 DEF UpgradeTypeInv, Upgrade!docker
<1>3. upgradePast'.lost = upgradePast.lost /\ upgradeStatus' = upgradeStatus
  BY <1>1
<1> QED BY <1>1, <1>2, <1>3, UpgradeIdle, UpgradeServes

LEMMA UpgradeAccepts ==
  ASSUME UpgradeTypeInv, UpgradeRest, NEW r \in UpgradeRequests, Upgrade!Accept(r), ~upgradePast'.crossed
  PROVE  UpgradeTypeInv' /\ UpgradeRest' /\ \A s \in UpgradeRequests : ~Upgrade!Works(s)
<1>1. /\ upgradeStatus' = [phase |-> "accepted", request |-> r] /\ upgradeFresh' = TRUE
      /\ upgradeApi' = [upgradeApi EXCEPT ![r] = "boot"] /\ upgradeApi[r] = "entered"
      /\ UNCHANGED <<upgradePoll, upgradeHelper, Upgrade!docker, upgradeFaults>>
      /\ upgradePast' = [upgradePast EXCEPT !.crossed = @ \/ Upgrade!Blocked(r) \/ \E other \in UpgradeRequests : Upgrade!Works(other)]
  BY DEF Upgrade!Accept
<1>2. /\ upgradeApi \in [UpgradeRequests -> {"idle", "admitted", "entered", "boot"}]
      /\ upgradePast \in [lost : SUBSET UpgradeOps, crossed : BOOLEAN] /\ "accepted" \in Upgrade!Phases
  BY DEF UpgradeTypeInv, Upgrade!Phases, Upgrade!Active
<1>3. /\ upgradePast'.lost = upgradePast.lost /\ upgradePast' \in [lost : SUBSET UpgradeOps, crossed : BOOLEAN]
      /\ \A s \in UpgradeRequests : ~Upgrade!Works(s)
  <2> DEFINE crossed == upgradePast.crossed \/ Upgrade!Blocked(r) \/ \E other \in UpgradeRequests : Upgrade!Works(other)
  <2>1. crossed \in BOOLEAN /\ upgradePast' = [upgradePast EXCEPT !.crossed = crossed]
    BY <1>1, <1>2
  <2>2. upgradePast'.crossed = crossed
    BY <1>2, <2>1
  <2>3. \A s \in UpgradeRequests : ~Upgrade!Works(s)
    BY <2>2
  <2> HIDE DEF crossed
  <2> QED BY <1>2, <2>1, <2>3
<1>4. Upgrade!Serving /\ \A s \in UpgradeRequests : upgradeApi'[s] # "idle" => Upgrade!Serving /\ upgradeHelper[s] = Upgrade!NoHelper
  BY <1>1, <1>2, UpgradeIdle
<1>5. UpgradeTypeInv'
  BY <1>1, <1>2, <1>3 DEF UpgradeTypeInv, Upgrade!docker
<1>6. \A s \in UpgradeRequests : upgradeHelper[s].step = "stop" \/ upgradeHelper[s].step \in UpgradeLate => upgradeStatus'.phase \in UpgradeMoving
  BY <1>3, UpgradeIdle
<1> QED BY <1>1, <1>3, <1>4, <1>5, <1>6, UpgradeServes

LEMMA UpgradeBoots ==
  ASSUME UpgradeTypeInv, UpgradeRest, UpgradeAskInv, NEW r \in UpgradeRequests, Upgrade!Boot(r), ~upgradePast'.crossed
  PROVE  UpgradeTypeInv' /\ UpgradeRest' /\ UpgradeAskInv'
<1>1. /\ upgradeApi[r] = "boot" /\ upgradeApi' = [upgradeApi EXCEPT ![r] = "idle"] /\ UNCHANGED <<upgradeFresh, upgradePoll, Upgrade!docker>>
      /\ upgradeApi' \in [UpgradeRequests -> {"idle", "admitted", "entered", "boot"}]
      /\ Upgrade!Serving /\ upgradeHelper[r] = Upgrade!NoHelper /\ upgradeBox[r] = "absent" /\ upgradeName # r
      /\ upgradePast \in [lost : SUBSET UpgradeOps, crossed : BOOLEAN]
      /\ upgradeHelper \in [UpgradeRequests -> UpgradeHelper]
      /\ \A s \in UpgradeRequests : upgradeApi'[s] # "idle" => s # r /\ Upgrade!Serving /\ upgradeHelper[s] = Upgrade!NoHelper
  BY UpgradeIdle DEF Upgrade!Boot, UpgradeTypeInv, UpgradeRest, UpgradeOneInv
<1>2. CASE /\ upgradeHelper' = [upgradeHelper EXCEPT ![r] = [Upgrade!NoHelper EXCEPT !.step = "begin"]]
           /\ upgradePast' = [upgradePast EXCEPT !.crossed = @ \/ \E other \in UpgradeRequests : Upgrade!Works(other)]
           /\ UNCHANGED <<upgradeStatus, upgradeFaults>>
  <2> DEFINE h == [Upgrade!NoHelper EXCEPT !.step = "begin"]
  <2>1. /\ h \in UpgradeHelper /\ h.step = "begin" /\ h.own = "none" /\ h.backup = 0
        /\ ~h.stopped /\ ~h.renamed /\ ~h.made /\ ~h.written
    BY DEF Upgrade!NoHelper, UpgradeHelper, UpgradeEarly
  <2>2. upgradeHelper' = [upgradeHelper EXCEPT ![r] = h] /\ upgradeHelper'[r] = h /\ \A s \in UpgradeRequests \ {r} : upgradeHelper'[s] = upgradeHelper[s]
    BY <1>1, <1>2
  <2> HIDE DEF h
  <2>3. /\ upgradePast'.lost = upgradePast.lost /\ upgradePast' \in [lost : SUBSET UpgradeOps, crossed : BOOLEAN]
        /\ \A s \in UpgradeRequests : ~Upgrade!Works(s)
    <3> DEFINE crossed == upgradePast.crossed \/ \E other \in UpgradeRequests : Upgrade!Works(other)
    <3>1. crossed \in BOOLEAN /\ upgradePast' = [upgradePast EXCEPT !.crossed = crossed]
      BY <1>1, <1>2
    <3>2. upgradePast'.crossed = crossed
      BY <1>1, <3>1
    <3>3. \A s \in UpgradeRequests : ~Upgrade!Works(s)
      BY <3>2
    <3> HIDE DEF crossed
    <3> QED BY <1>1, <3>1, <3>3
  <2>4. UNCHANGED <<upgradeBox, upgradeName, upgradeVersion, upgradeDb, upgradeStatus>> /\ UpgradeWell' = UpgradeWell /\ UpgradeStarted' = UpgradeStarted
    BY <1>1, <1>2, <2>3 DEF Upgrade!docker, UpgradeWell, UpgradeStarted
  <2>5. UpgradeTypeInv'
    BY <1>1, <1>2, <2>1, <2>2, <2>3, <2>4 DEF UpgradeTypeInv
  <2>6. UpgradeOneInv'
    <3>1. \A s \in UpgradeRequests : upgradeHelper'[s] = Upgrade!NoHelper => upgradeHelper[s] = Upgrade!NoHelper
      BY <1>1, <2>2
    <3>2. \A s, t \in UpgradeRequests : Upgrade!Works(s)' /\ Upgrade!Works(t)' => s = t
      BY <2>2, <2>3 DEF Upgrade!Works
    <3>3. \A s \in UpgradeRequests : upgradeApi'[s] # "idle" => Upgrade!Serving' /\ upgradeHelper'[s] = Upgrade!NoHelper
      BY <1>1, <2>2, <2>4 DEF Upgrade!Serving
    <3> QED BY <2>4, <3>1, <3>2, <3>3 DEF UpgradeRest, UpgradeOneInv, Upgrade!Serving
  <2>7. ASSUME NEW s \in UpgradeRequests \ {r}
        PROVE  UpgradeEarlyInv(s)' /\ UpgradeForthInv(s)' /\ UpgradeBackInv(s)' /\ UpgradeLateInv(s)'
    <3>1. upgradeHelper'[s].step \in {"none", "gone"}
      BY <2>2, <2>3 DEF Upgrade!Works
    <3> QED BY <3>1 DEF UpgradeEarlyInv, UpgradeForthInv, UpgradeBackInv, UpgradeLateInv, UpgradeEarly, UpgradeLate
  <2>8. UpgradeEarlyInv(r)'
    BY <1>1, <2>1, <2>2, <2>4 DEF UpgradeEarlyInv, Upgrade!Serving
  <2>9. UpgradeForthInv(r)' /\ UpgradeBackInv(r)' /\ UpgradeLateInv(r)'
    BY <2>1, <2>2 DEF UpgradeForthInv, UpgradeBackInv, UpgradeLateInv, UpgradeLate
  <2>10. UpgradeAskInv'
    BY <2>1, <2>2, <2>3 DEF UpgradeAskInv, Upgrade!Works
  <2> QED BY <2>5, <2>6, <2>7, <2>8, <2>9, <2>10 DEF UpgradeRest
<1>3. CASE /\ upgradeFaults < UpgradeFaults /\ upgradeFaults' = upgradeFaults + 1
           /\ upgradeStatus' = [phase |-> "failed", request |-> r]
           /\ upgradePast' = [upgradePast EXCEPT !.crossed = @ \/ upgradeStatus.request # r]
           /\ UNCHANGED upgradeHelper
  <2>1. /\ upgradePast'.lost = upgradePast.lost /\ upgradePast' \in [lost : SUBSET UpgradeOps, crossed : BOOLEAN]
        /\ upgradeStatus.request = r
    BY <1>1, <1>3
  <2>2. \A s \in UpgradeRequests : upgradeHelper[s].step \in {"none", "gone", "begin"}
    <3>1. Upgrade!NoHelper.step = "none"
      BY UpgradeTypes
    <3> QED BY <1>1, <2>1, <3>1 DEF UpgradeAskInv
  <2>3. UpgradeTypeInv'
    <3>1. "failed" \in Upgrade!Phases /\ upgradeFaults' \in 0..UpgradeFaults
      BY <1>3, UpgradeAssumption DEF Upgrade!Phases, UpgradeTypeInv
    <3> QED BY <1>1, <1>3, <2>1, <3>1 DEF UpgradeTypeInv, Upgrade!docker
  <2>4. \A s \in UpgradeRequests : upgradeHelper[s].step = "stop" \/ upgradeHelper[s].step \in UpgradeLate => upgradeStatus'.phase \in UpgradeMoving
    BY <2>2 DEF UpgradeLate
  <2>5. UpgradeRest'
    BY <1>1, <1>3, <2>1, <2>4, UpgradeServes
  <2>6. UpgradeAskInv'
    BY <1>3, <2>2 DEF UpgradeAskInv
  <2> QED BY <2>3, <2>5, <2>6
<1> QED BY <1>2, <1>3 DEF Upgrade!Boot

LEMMA UpgradeReads ==
  ASSUME UpgradeTypeInv, UpgradeRest, Upgrade!ReadStatus \/ Upgrade!AcceptanceAges
  PROVE  UpgradeTypeInv' /\ UpgradeRest'
<1>1. /\ UNCHANGED <<upgradeStatus, upgradeApi, upgradeHelper, Upgrade!docker, upgradePast, upgradeFaults>> /\ upgradeFresh' \in BOOLEAN
      /\ upgradePoll' \in [step : {"none", "look"}, seen : [phase : Upgrade!Phases, request : UpgradeRequests \cup {"none"}]]
  <2>1. /\ upgradeStatus \in [phase : Upgrade!Phases, request : UpgradeRequests \cup {"none"}] /\ upgradeFresh \in BOOLEAN
        /\ upgradePoll \in [step : {"none", "look"}, seen : [phase : Upgrade!Phases, request : UpgradeRequests \cup {"none"}]]
    BY DEF UpgradeTypeInv
  <2>2. CASE Upgrade!ReadStatus
    BY <2>1, <2>2 DEF Upgrade!ReadStatus
  <2>3. CASE Upgrade!AcceptanceAges
    BY <2>1, <2>3 DEF Upgrade!AcceptanceAges
  <2> QED BY <2>2, <2>3
<1>2. UpgradeTypeInv'
  BY <1>1 DEF UpgradeTypeInv, Upgrade!docker
<1>3. upgradePast'.lost = upgradePast.lost
  BY <1>1
<1> QED BY <1>1, <1>2, <1>3, UpgradeIdle, UpgradeServes

\* A state file that nobody wrote over keeps the request it names.
LEMMA UpgradeLooks ==
  ASSUME UpgradeTypeInv, UpgradeRest, Upgrade!LookForHelper, ~upgradePast'.crossed
  PROVE  UpgradeTypeInv' /\ UpgradeRest' /\ upgradeStatus'.request = upgradeStatus.request
<1> DEFINE lost == IF upgradePoll.seen.phase \in {"accepted", "pulling"} THEN "failed" ELSE "manual"
<1>1. upgradePoll' = Upgrade!NoPoll /\ UNCHANGED <<upgradeFresh, upgradeApi, upgradeHelper, Upgrade!docker>>
  BY DEF Upgrade!LookForHelper
<1>2. /\ Upgrade!NoPoll \in [step : {"none", "look"}, seen : [phase : Upgrade!Phases, request : UpgradeRequests \cup {"none"}]]
      /\ upgradePast \in [lost : SUBSET UpgradeOps, crossed : BOOLEAN] /\ upgradeFaults \in 0..UpgradeFaults
      /\ upgradePoll.seen \in [phase : Upgrade!Phases, request : UpgradeRequests \cup {"none"}] /\ lost \in Upgrade!Phases
  BY DEF Upgrade!NoPoll, UpgradeTypeInv, Upgrade!Phases
<1>3. CASE UNCHANGED <<upgradeStatus, upgradePast, upgradeFaults>>
  <2>1. UpgradeTypeInv'
    BY <1>1, <1>2, <1>3 DEF UpgradeTypeInv, Upgrade!docker
  <2>2. upgradePast'.lost = upgradePast.lost /\ upgradeStatus' = upgradeStatus
    BY <1>3
  <2> QED BY <1>1, <2>1, <2>2, UpgradeIdle, UpgradeServes
<1>4. CASE Upgrade!WriteOver(lost) /\ upgradeFaults' \in 0..UpgradeFaults
  <2>1. /\ upgradePast' = [upgradePast EXCEPT !.crossed = @ \/ upgradeStatus # upgradePoll.seen]
        /\ upgradeStatus' = [phase |-> lost, request |-> upgradePoll.seen.request]
    BY <1>4 DEF Upgrade!WriteOver
  <2>2. /\ upgradePast'.lost = upgradePast.lost /\ upgradePast' \in [lost : SUBSET UpgradeOps, crossed : BOOLEAN]
        /\ upgradeStatus = upgradePoll.seen
    BY <1>2, <2>1
  <2>3. lost \notin UpgradeMoving => upgradeStatus.phase \in {"accepted", "pulling"}
    BY <2>2 DEF UpgradeMoving
  <2>4. upgradeStatus.phase \in {"accepted", "pulling"} => upgradeStatus.phase \notin UpgradeMoving
    BY DEF UpgradeMoving
  <2>5. upgradeStatus'.phase = lost /\ upgradeStatus'.request = upgradeStatus.request
    BY <2>1, <2>2
  <2>6. UpgradeTypeInv'
    BY <1>1, <1>2, <1>4, <2>1, <2>2 DEF UpgradeTypeInv, Upgrade!docker
  <2>7. /\ \A r \in UpgradeRequests : upgradeHelper[r].step = "stop" \/ upgradeHelper[r].step \in UpgradeLate => upgradeStatus'.phase \in UpgradeMoving
        /\ UpgradeWell /\ upgradeStatus'.phase \notin UpgradeMoving => Upgrade!Serving
        /\ \A r \in UpgradeRequests : upgradeApi'[r] # "idle" => Upgrade!Serving /\ upgradeHelper[r] = Upgrade!NoHelper
    <3> HIDE DEF lost
    <3> QED BY <1>1, <2>3, <2>4, <2>5, UpgradeIdle
  <2> QED BY <1>1, <2>2, <2>5, <2>6, <2>7, UpgradeServes
<1>5. upgradeFaults < UpgradeFaults /\ upgradeFaults' = upgradeFaults + 1 => upgradeFaults' \in 0..UpgradeFaults
  BY <1>2, UpgradeAssumption
<1> QED BY <1>2, <1>3, <1>4, <1>5 DEF Upgrade!LookForHelper

\* No step of a helper but its first writes a request into the state file.
LEMMA UpgradeOwns ==
  ASSUME UpgradeTypeInv, UpgradeRest, UpgradeAskInv, NEW r \in UpgradeRequests, Upgrade!Helper(r)
  PROVE  UpgradeAskInv'
<1> DEFINE Alone == \A s \in UpgradeRequests \ {r} : upgradeHelper'[s] = upgradeHelper[s]
           Kept == upgradeStatus'.request = upgradeStatus.request
<1>1. upgradeHelper \in [UpgradeRequests -> UpgradeHelper] /\ upgradeStatus \in [phase : Upgrade!Phases, request : UpgradeRequests \cup {"none"}]
  BY DEF UpgradeTypeInv
<1>2. Upgrade!Works(r) /\ \A s \in UpgradeRequests \ {r} : upgradeHelper[s].step \in {"none", "gone"}
  <2>1. Upgrade!Works(r)
    BY DEF Upgrade!Helper, Upgrade!Begin, Upgrade!Plan, Upgrade!Pull, Upgrade!Stop, Upgrade!Backup, Upgrade!RenameOld, Upgrade!Create, Upgrade!Start, Upgrade!Verify, Upgrade!RemoveOld,
           Upgrade!UndoNew, Upgrade!UndoDb, Upgrade!UndoName, Upgrade!UndoStop, Upgrade!Undone, Upgrade!HelperDies, Upgrade!At, Upgrade!Works
  <2> QED BY <2>1 DEF UpgradeRest, UpgradeOneInv, Upgrade!Works
<1>3. ASSUME NEW phase, Upgrade!Phase(phase)
      PROVE  Kept
  BY <1>1, <1>3 DEF Upgrade!Phase
<1>4. ASSUME NEW phase, Upgrade!Report(r, phase)
      PROVE  Alone /\ Kept
  BY <1>1, <1>3, <1>4 DEF Upgrade!Report
<1>5. ASSUME NEW step, Upgrade!Goto(r, step)
      PROVE  Alone
  BY <1>1, <1>5 DEF Upgrade!Goto
<1>6. ASSUME NEW step, NEW field, Upgrade!Set(r, step, field)
      PROVE  Alone
  BY <1>1, <1>6 DEF Upgrade!Set
<1>7. ASSUME Upgrade!Back(r)
      PROVE  Alone /\ Kept
  BY <1>3, <1>4, <1>5, <1>7 DEF Upgrade!Back
<1>8. ASSUME UNCHANGED upgradeStatus
      PROVE  Kept
  BY <1>8
<1>9. ASSUME NEW step, NEW phase, Upgrade!Plan(r)
      PROVE  Alone /\ Kept
  BY <1>1, <1>3, <1>4, <1>9 DEF Upgrade!Plan
<1> HIDE DEF Alone, Kept
<1>10. CASE Upgrade!Begin(r)
  <2>1. Alone /\ upgradeStatus'.request = r
    BY <1>5, <1>10, <1>1 DEF Upgrade!Begin
  <2> QED BY <1>2, <2>1 DEF UpgradeAskInv, Alone
<1>11. CASE Upgrade!HelperDies(r)
  <2>1. upgradeHelper' = [upgradeHelper EXCEPT ![r] = Upgrade!Gone] /\ upgradeStatus' = upgradeStatus /\ Upgrade!Gone.step = "gone"
    BY <1>11, UpgradeTypes DEF Upgrade!HelperDies
  <2> QED BY <1>1, <2>1 DEF UpgradeAskInv
<1>12. CASE ~Upgrade!Begin(r) /\ ~Upgrade!HelperDies(r)
  <2>1. Alone /\ Kept
    <3>1. CASE Upgrade!Plan(r)
      BY <1>9, <3>1
    <3>2. CASE Upgrade!Pull(r) \/ Upgrade!Verify(r) \/ Upgrade!Undone(r)
      BY <1>3, <1>4, <1>5, <1>7, <1>8, <3>2 DEF Upgrade!Pull, Upgrade!Verify, Upgrade!Undone
    <3>3. CASE Upgrade!Stop(r) \/ Upgrade!RenameOld(r)
      BY <1>3, <1>6, <1>7, <1>8, <3>3 DEF Upgrade!Stop, Upgrade!RenameOld, Upgrade!Call
    <3>4. CASE Upgrade!Create(r) \/ Upgrade!Start(r)
      BY <1>3, <1>6, <1>7, <1>8, <3>4 DEF Upgrade!Create, Upgrade!Start, Upgrade!Call
    <3>5. CASE Upgrade!RemoveOld(r)
      BY <1>4, <1>7, <3>5 DEF Upgrade!RemoveOld, Upgrade!Call
    <3>6. CASE Upgrade!UndoNew(r)
      BY <1>4, <1>5, <1>8, <3>6 DEF Upgrade!UndoNew, Upgrade!Call
    <3>7. CASE Upgrade!UndoDb(r)
      BY <1>4, <1>5, <1>8, <3>7 DEF Upgrade!UndoDb, Upgrade!Call
    <3>8. CASE Upgrade!UndoName(r)
      BY <1>4, <1>5, <1>8, <3>8 DEF Upgrade!UndoName, Upgrade!Call
    <3>9. CASE Upgrade!UndoStop(r)
      BY <1>4, <1>5, <1>8, <3>9 DEF Upgrade!UndoStop, Upgrade!Call
    <3>10. CASE Upgrade!Backup(r)
      <4>1. CASE Upgrade!Back(r)
        BY <1>7, <4>1
      <4>2. CASE upgradeHelper' = [upgradeHelper EXCEPT ![r].step = "rename", ![r].backup = upgradeDb] /\ UNCHANGED upgradeStatus
        BY <1>1, <1>8, <4>2 DEF Alone
      <4> QED BY <3>10, <4>1, <4>2 DEF Upgrade!Backup
    <3> QED BY <1>12, <3>1, <3>2, <3>3, <3>4, <3>5, <3>6, <3>7, <3>8, <3>9, <3>10 DEF Upgrade!Helper
  <2>2. upgradeHelper[r].step \notin {"none", "gone", "begin"}
    BY <1>2, <1>12 DEF Upgrade!Helper, Upgrade!Plan, Upgrade!Pull, Upgrade!Stop, Upgrade!Backup, Upgrade!RenameOld, Upgrade!Create, Upgrade!Start, Upgrade!Verify, Upgrade!RemoveOld,
           Upgrade!UndoNew, Upgrade!UndoDb, Upgrade!UndoName, Upgrade!UndoStop, Upgrade!Undone, Upgrade!At
  <2> QED BY <1>2, <2>1, <2>2 DEF UpgradeAskInv, Alone, Kept
<1> QED BY <1>10, <1>11, <1>12

\* The application writes what a state file may hold, whoever wrote before it.
LEMMA UpgradeAppTyped ==
  ASSUME UpgradeTypeInv, NEW r \in UpgradeRequests, Upgrade!Accept(r) \/ Upgrade!Boot(r)
  PROVE  UpgradeTypeInv'
<1>1. /\ upgradePast \in [lost : SUBSET UpgradeOps, crossed : BOOLEAN] /\ upgradeFaults \in 0..UpgradeFaults
      /\ upgradeApi \in [UpgradeRequests -> {"idle", "admitted", "entered", "boot"}]
      /\ upgradePoll \in [step : {"none", "look"}, seen : [phase : Upgrade!Phases, request : UpgradeRequests \cup {"none"}]]
      /\ upgradeHelper \in [UpgradeRequests -> UpgradeHelper] /\ upgradeFresh \in BOOLEAN
      /\ upgradeStatus \in [phase : Upgrade!Phases, request : UpgradeRequests \cup {"none"}]
  BY DEF UpgradeTypeInv
<1>2. {"accepted", "failed", "manual", "idle"} \subseteq Upgrade!Phases
  BY DEF Upgrade!Phases, Upgrade!Active
<1>3. ASSUME NEW crossed \in BOOLEAN, upgradePast' = [upgradePast EXCEPT !.crossed = crossed]
      PROVE  upgradePast' \in [lost : SUBSET UpgradeOps, crossed : BOOLEAN]
  BY <1>1, <1>3
<1>4. upgradeFaults < UpgradeFaults /\ upgradeFaults' = upgradeFaults + 1 => upgradeFaults' \in 0..UpgradeFaults
  BY <1>1, UpgradeAssumption
<1>5. CASE Upgrade!Accept(r)
  <2>1. upgradePast' \in [lost : SUBSET UpgradeOps, crossed : BOOLEAN]
    <3> DEFINE c == upgradePast.crossed \/ Upgrade!Blocked(r) \/ \E other \in UpgradeRequests : Upgrade!Works(other)
    <3>1. c \in BOOLEAN /\ upgradePast' = [upgradePast EXCEPT !.crossed = c]
      BY <1>1, <1>5 DEF Upgrade!Accept
    <3> HIDE DEF c
    <3> QED BY <1>3, <3>1
  <2> QED BY <1>1, <1>2, <1>5, <2>1 DEF Upgrade!Accept, UpgradeTypeInv, Upgrade!docker
<1>6. CASE Upgrade!Boot(r)
  <2>1. upgradePast' \in [lost : SUBSET UpgradeOps, crossed : BOOLEAN]
    <3> DEFINE c == upgradePast.crossed \/ \E other \in UpgradeRequests : Upgrade!Works(other)
               d == upgradePast.crossed \/ upgradeStatus.request # r
    <3>1. c \in BOOLEAN /\ d \in BOOLEAN
      BY <1>1
    <3>2. upgradePast' = [upgradePast EXCEPT !.crossed = c] \/ upgradePast' = [upgradePast EXCEPT !.crossed = d]
      BY <1>1, <1>6 DEF Upgrade!Boot
    <3> HIDE DEF c, d
    <3> QED BY <1>3, <3>1, <3>2
  <2> DEFINE h == [Upgrade!NoHelper EXCEPT !.step = "begin"]
  <2>2. h \in UpgradeHelper
    BY DEF Upgrade!NoHelper, UpgradeHelper, UpgradeEarly
  <2>3. upgradeHelper' \in [UpgradeRequests -> UpgradeHelper]
    <3>1. upgradeHelper' = upgradeHelper \/ upgradeHelper' = [upgradeHelper EXCEPT ![r] = h]
      BY <1>6 DEF Upgrade!Boot
    <3> HIDE DEF h
    <3> QED BY <1>1, <2>2, <3>1
  <2>4. /\ upgradeStatus' \in [phase : Upgrade!Phases, request : UpgradeRequests \cup {"none"}] /\ upgradeFaults' \in 0..UpgradeFaults
    BY <1>1, <1>2, <1>4, <1>6 DEF Upgrade!Boot
  <2> QED BY <1>1, <1>6, <2>1, <2>3, <2>4 DEF Upgrade!Boot, UpgradeTypeInv, Upgrade!docker
<1> QED BY <1>5, <1>6

LEMMA UpgradeLookTyped ==
  ASSUME UpgradeTypeInv, Upgrade!LookForHelper
  PROVE  UpgradeTypeInv'
<1> DEFINE lost == IF upgradePoll.seen.phase \in {"accepted", "pulling"} THEN "failed" ELSE "manual"
<1>1. /\ upgradePast \in [lost : SUBSET UpgradeOps, crossed : BOOLEAN] /\ upgradeFaults \in 0..UpgradeFaults
      /\ upgradePoll.seen \in [phase : Upgrade!Phases, request : UpgradeRequests \cup {"none"}]
      /\ upgradeStatus \in [phase : Upgrade!Phases, request : UpgradeRequests \cup {"none"}]
      /\ lost \in Upgrade!Phases /\ "idle" \in Upgrade!Phases
  BY DEF UpgradeTypeInv, Upgrade!Phases
<1>2. upgradeFaults < UpgradeFaults /\ upgradeFaults' = upgradeFaults + 1 => upgradeFaults' \in 0..UpgradeFaults
  BY <1>1, UpgradeAssumption
<1>3. /\ upgradePoll' = Upgrade!NoPoll /\ UNCHANGED <<upgradeFresh, upgradeApi, upgradeHelper, Upgrade!docker>>
      /\ UNCHANGED <<upgradeStatus, upgradePast>> \/ Upgrade!WriteOver(lost)
      /\ upgradeFaults' \in 0..UpgradeFaults
  BY <1>1, <1>2 DEF Upgrade!LookForHelper
<1>4. /\ upgradePast' \in [lost : SUBSET UpgradeOps, crossed : BOOLEAN]
      /\ upgradeStatus' \in [phase : Upgrade!Phases, request : UpgradeRequests \cup {"none"}]
  <2>1. CASE UNCHANGED <<upgradeStatus, upgradePast>>
    BY <1>1, <2>1
  <2>2. CASE Upgrade!WriteOver(lost)
    <3> DEFINE c == upgradePast.crossed \/ upgradeStatus # upgradePoll.seen
    <3>1. c \in BOOLEAN /\ upgradePast' = [upgradePast EXCEPT !.crossed = c]
      BY <1>1, <2>2 DEF Upgrade!WriteOver
    <3>2. upgradeStatus' = [phase |-> lost, request |-> upgradePoll.seen.request]
      BY <2>2 DEF Upgrade!WriteOver
    <3> HIDE DEF c, lost
    <3> QED BY <1>1, <3>1, <3>2
  <2> QED BY <1>3, <2>1, <2>2
<1>5. upgradePoll' \in [step : {"none", "look"}, seen : [phase : Upgrade!Phases, request : UpgradeRequests \cup {"none"}]]
  BY <1>1, <1>3 DEF Upgrade!NoPoll
<1> QED BY <1>3, <1>4, <1>5 DEF UpgradeTypeInv, Upgrade!docker

LEMMA UpgradeBeginning == Upgrade!Init => UpgradeInv
<1> SUFFICES ASSUME Upgrade!Init PROVE UpgradeInv
  OBVIOUS
<1>1. /\ {"first", "none"} \cap UpgradeRequests = {} /\ UpgradeFaults \in Nat /\ "idle" \in Upgrade!Phases
      /\ Upgrade!NoHelper \in UpgradeHelper /\ Upgrade!NoHelper.step = "none"
      /\ "first" \in Upgrade!Containers /\ "none" \notin Upgrade!Containers /\ UpgradeRequests \subseteq Upgrade!Containers
  BY UpgradeAssumption DEF Upgrade!NoHelper, UpgradeHelper, Upgrade!Containers, Upgrade!Phases
<1>2. UpgradeTypeInv
  <2>1. /\ upgradeStatus \in [phase : Upgrade!Phases, request : UpgradeRequests \cup {"none"}] /\ upgradeFresh \in BOOLEAN
        /\ upgradeApi \in [UpgradeRequests -> {"idle", "admitted", "entered", "boot"}]
    BY <1>1 DEF Upgrade!Init
  <2>2. upgradePoll \in [step : {"none", "look"}, seen : [phase : Upgrade!Phases, request : UpgradeRequests \cup {"none"}]]
    BY <1>1 DEF Upgrade!Init, Upgrade!NoPoll
  <2>3. upgradeHelper \in [UpgradeRequests -> UpgradeHelper]
    BY <1>1 DEF Upgrade!Init
  <2>4. /\ upgradeBox \in [Upgrade!Containers -> {"absent", "created", "running", "stopped"}]
        /\ upgradeName \in Upgrade!Containers \cup {"none"} /\ upgradeDb \in Nat /\ upgradeVersion \in [Upgrade!Containers -> Nat]
    BY <1>1 DEF Upgrade!Init
  <2>5. upgradePast \in [lost : SUBSET UpgradeOps, crossed : BOOLEAN] /\ upgradeFaults \in 0..UpgradeFaults
    BY <1>1 DEF Upgrade!Init
  <2> QED BY <2>1, <2>2, <2>3, <2>4, <2>5 DEF UpgradeTypeInv
<1>3. /\ Upgrade!Serving /\ \A c \in Upgrade!Containers : upgradeBox[c] = (IF c = "first" THEN "running" ELSE "absent")
      /\ upgradeName = "first" /\ \A r \in UpgradeRequests : upgradeHelper[r] = Upgrade!NoHelper /\ upgradeApi[r] = "idle"
      /\ \A c \in Upgrade!Containers : upgradeDb <= upgradeVersion[c]
  BY <1>1 DEF Upgrade!Init, Upgrade!Serving
<1>4. UpgradeOneInv
  BY <1>1, <1>3 DEF UpgradeOneInv, Upgrade!Works
<1>5. ASSUME NEW r \in UpgradeRequests
      PROVE  UpgradeEarlyInv(r) /\ UpgradeForthInv(r) /\ UpgradeBackInv(r) /\ UpgradeLateInv(r)
  <2>1. upgradeHelper[r].step = "none"
    BY <1>1, <1>3
  <2> QED BY <2>1 DEF UpgradeEarlyInv, UpgradeForthInv, UpgradeBackInv, UpgradeLateInv, UpgradeEarly, UpgradeLate
<1>6. UpgradeAskInv
  BY <1>1, <1>3 DEF UpgradeAskInv
<1> QED BY <1>2, <1>4, <1>5, <1>6 DEF UpgradeInv, UpgradeRest

LEMMA UpgradeHelps ==
  ASSUME UpgradeTypeInv, UpgradeRest, UpgradeAskInv, NEW r \in UpgradeRequests, Upgrade!Helper(r)
  PROVE  UpgradeTypeInv' /\ UpgradeRest' /\ UpgradeAskInv'
<1>1. UpgradeAskInv'
  BY UpgradeOwns
<1>2. CASE Upgrade!Begin(r) \/ Upgrade!Plan(r) \/ Upgrade!Pull(r)
  BY <1>1, <1>2, UpgradeBegins
<1>3. CASE Upgrade!Stop(r)
  BY <1>1, <1>3, UpgradeStops
<1>4. CASE Upgrade!Backup(r)
  BY <1>1, <1>4, UpgradeBacksUp
<1>5. CASE Upgrade!RenameOld(r)
  BY <1>1, <1>5, UpgradeRenames
<1>6. CASE Upgrade!Create(r)
  BY <1>1, <1>6, UpgradeCreates
<1>7. CASE Upgrade!Start(r)
  BY <1>1, <1>7, UpgradeStarts
<1>8. CASE Upgrade!Verify(r)
  BY <1>1, <1>8, UpgradeVerifies
<1>9. CASE Upgrade!RemoveOld(r)
  BY <1>1, <1>9, UpgradeRemoves
<1>10. CASE Upgrade!UndoNew(r)
  BY <1>1, <1>10, UpgradeUndoesNew
<1>11. CASE Upgrade!UndoDb(r)
  BY <1>1, <1>11, UpgradeUndoesDb
<1>12. CASE Upgrade!UndoName(r)
  BY <1>1, <1>12, UpgradeUndoesName
<1>13. CASE Upgrade!UndoStop(r)
  BY <1>1, <1>13, UpgradeUndoesStop
<1>14. CASE Upgrade!Undone(r)
  BY <1>1, <1>14, UpgradeOver
<1>15. CASE Upgrade!HelperDies(r)
  BY <1>1, <1>15, UpgradeDies
<1> QED BY <1>2, <1>3, <1>4, <1>5, <1>6, <1>7, <1>8, <1>9, <1>10, <1>11, <1>12, <1>13, <1>14, <1>15 DEF Upgrade!Helper

LEMMA UpgradeStep == UpgradeInv /\ [Upgrade!Next]_(Upgrade!vars) => UpgradeInv'
<1> SUFFICES ASSUME UpgradeInv, [Upgrade!Next]_(Upgrade!vars) PROVE UpgradeInv'
  OBVIOUS
<1>1. UpgradeTypeInv
  BY DEF UpgradeInv
<1>2. ASSUME Upgrade!Next
      PROVE  UpgradeRest /\ UpgradeAskInv
  BY <1>2 DEF UpgradeInv, Upgrade!Next
<1>3. ASSUME NEW r \in UpgradeRequests, Upgrade!Next, Upgrade!Admit(r) \/ Upgrade!Enter(r)
      PROVE  UpgradeInv'
  <2>1. UpgradeTypeInv' /\ UpgradeRest'
    BY <1>1, <1>2, <1>3, UpgradeAsked
  <2>2. UNCHANGED <<upgradeHelper, upgradeStatus>>
    BY <1>3 DEF Upgrade!Admit, Upgrade!Enter
  <2>3. UpgradeAskInv'
    BY <1>2, <1>3, <2>2 DEF UpgradeAskInv
  <2> QED BY <2>1, <2>3 DEF UpgradeInv
<1>4. ASSUME NEW r \in UpgradeRequests, Upgrade!Next, Upgrade!Accept(r)
      PROVE  UpgradeInv'
  <2>1. UpgradeTypeInv'
    BY <1>1, <1>4, UpgradeAppTyped
  <2>2. ASSUME ~upgradePast'.crossed
        PROVE  UpgradeRest' /\ UpgradeAskInv'
    <3>1. UpgradeRest' /\ (\A s \in UpgradeRequests : ~Upgrade!Works(s)) /\ upgradeHelper' = upgradeHelper
      BY <1>1, <1>2, <1>4, <2>2, UpgradeAccepts DEF Upgrade!Accept
    <3> QED BY <3>1 DEF UpgradeAskInv, Upgrade!Works
  <2> QED BY <2>1, <2>2 DEF UpgradeInv
<1>5. ASSUME NEW r \in UpgradeRequests, Upgrade!Next, Upgrade!Boot(r)
      PROVE  UpgradeInv'
  <2>1. UpgradeTypeInv'
    BY <1>1, <1>5, UpgradeAppTyped
  <2>2. ASSUME ~upgradePast'.crossed
        PROVE  UpgradeRest' /\ UpgradeAskInv'
    BY <1>1, <1>2, <1>5, <2>2, UpgradeBoots
  <2> QED BY <2>1, <2>2 DEF UpgradeInv
<1>6. ASSUME NEW r \in UpgradeRequests, Upgrade!Next, Upgrade!Helper(r)
      PROVE  UpgradeInv'
  BY <1>1, <1>2, <1>6, UpgradeHelps DEF UpgradeInv
<1>7. ASSUME Upgrade!Next, Upgrade!ReadStatus \/ Upgrade!AcceptanceAges
      PROVE  UpgradeInv'
  <2>1. UpgradeTypeInv' /\ UpgradeRest'
    BY <1>1, <1>2, <1>7, UpgradeReads
  <2>2. UNCHANGED <<upgradeHelper, upgradeStatus>>
    BY <1>7 DEF Upgrade!ReadStatus, Upgrade!AcceptanceAges
  <2>3. UpgradeAskInv'
    BY <1>2, <1>7, <2>2 DEF UpgradeAskInv
  <2> QED BY <2>1, <2>3 DEF UpgradeInv
<1>8. ASSUME Upgrade!Next, Upgrade!LookForHelper
      PROVE  UpgradeInv'
  <2>1. UpgradeTypeInv'
    BY <1>1, <1>8, UpgradeLookTyped
  <2>2. ASSUME ~upgradePast'.crossed
        PROVE  UpgradeRest' /\ UpgradeAskInv'
    <3>1. UpgradeRest' /\ upgradeStatus'.request = upgradeStatus.request /\ upgradeHelper' = upgradeHelper
      BY <1>1, <1>2, <1>8, <2>2, UpgradeLooks DEF Upgrade!LookForHelper
    <3> QED BY <1>2, <1>8, <3>1 DEF UpgradeAskInv
  <2> QED BY <2>1, <2>2 DEF UpgradeInv
<1>9. CASE UNCHANGED Upgrade!vars
  <2>1. /\ UNCHANGED <<upgradeStatus, upgradeFresh, upgradeApi, upgradePoll, upgradeHelper, upgradePast, upgradeFaults>>
        /\ UNCHANGED <<upgradeBox, upgradeName, upgradeVersion, upgradeDb>> /\ UNCHANGED Upgrade!docker
    BY <1>9 DEF Upgrade!vars, Upgrade!docker
  <2>2. UpgradeTypeInv'
    BY <1>1, <2>1 DEF UpgradeTypeInv
  <2>3. ASSUME ~upgradePast'.crossed
        PROVE  UpgradeRest' /\ UpgradeAskInv'
    <3>1. UpgradeRest /\ UpgradeAskInv
      BY <2>1, <2>3 DEF UpgradeInv
    <3>2. UpgradeRest'
      <4>1. upgradePast'.lost = upgradePast.lost /\ upgradeStatus' = upgradeStatus /\ upgradeApi' = upgradeApi
        BY <2>1
      <4> QED BY <1>1, <2>1, <3>1, <4>1, UpgradeIdle, UpgradeServes
    <3>3. UpgradeAskInv'
      BY <2>1, <3>1 DEF UpgradeAskInv
    <3> QED BY <3>2, <3>3
  <2> QED BY <2>2, <2>3 DEF UpgradeInv
<1>10. CASE Upgrade!Next
  <2>1. \/ \E r \in UpgradeRequests : Upgrade!Admit(r) \/ Upgrade!Enter(r)
        \/ \E r \in UpgradeRequests : Upgrade!Accept(r)
        \/ \E r \in UpgradeRequests : Upgrade!Boot(r)
        \/ \E r \in UpgradeRequests : Upgrade!Helper(r)
        \/ Upgrade!ReadStatus \/ Upgrade!AcceptanceAges
        \/ Upgrade!LookForHelper
    BY <1>10 DEF Upgrade!Next
  <2>2. CASE \E r \in UpgradeRequests : Upgrade!Admit(r) \/ Upgrade!Enter(r)
    BY <1>3, <1>10, <2>2
  <2>3. CASE \E r \in UpgradeRequests : Upgrade!Accept(r)
    BY <1>4, <1>10, <2>3
  <2>4. CASE \E r \in UpgradeRequests : Upgrade!Boot(r)
    BY <1>5, <1>10, <2>4
  <2>5. CASE \E r \in UpgradeRequests : Upgrade!Helper(r)
    BY <1>6, <1>10, <2>5
  <2>6. CASE Upgrade!ReadStatus \/ Upgrade!AcceptanceAges
    BY <1>7, <1>10, <2>6
  <2>7. CASE Upgrade!LookForHelper
    BY <1>8, <1>10, <2>7
  <2> QED BY <2>1, <2>2, <2>3, <2>4, <2>5, <2>6, <2>7
<1> QED BY <1>9, <1>10

LEMMA UpgradeSafe == UpgradeInv => Upgrade!TypeOK /\ Upgrade!NeverBoth /\ Upgrade!NoneRunsBehind /\ Upgrade!ServiceStands
<1> SUFFICES ASSUME UpgradeInv PROVE Upgrade!TypeOK /\ Upgrade!NeverBoth /\ Upgrade!NoneRunsBehind /\ Upgrade!ServiceStands
  OBVIOUS
<1>1. UpgradeTypeInv /\ (~upgradePast.crossed => UpgradeOneInv)
  BY DEF UpgradeInv, UpgradeRest
<1>2. Upgrade!TypeOK
  <2>1. \A r \in UpgradeRequests : upgradeHelper[r].own \in Upgrade!Containers \cup {"none"}
    BY <1>1, UpgradeTypes DEF Upgrade!Own
  <2> QED BY <1>1, <2>1 DEF Upgrade!TypeOK, UpgradeTypeInv
<1>3. Upgrade!NeverBoth
  <2> DEFINE R == {c \in Upgrade!Containers : upgradeBox[c] = "running"}
  <2>1. \A S : Upgrade!Cardinality(S) = Cardinality(S)
    BY DEF Upgrade!Cardinality, Cardinality
  <2>2. upgradePast.crossed \/ Cardinality(R) <= 1
    <3>1. CASE R = {}
      BY <3>1, FS_EmptySet
    <3>2. CASE ~upgradePast.crossed /\ R # {}
      <4>1. PICK c \in R : R = {c}
        BY <1>1, <3>2 DEF UpgradeOneInv
      <4> QED BY <4>1, FS_Singleton
    <3> QED BY <3>1, <3>2
  <2> HIDE DEF R
  <2>3. Upgrade!NeverBoth = (upgradePast.crossed \/ Upgrade!Cardinality(R) <= 1)
    BY DEF Upgrade!NeverBoth, R
  <2> QED BY <2>1, <2>2, <2>3
<1>4. Upgrade!NoneRunsBehind
  BY <1>1 DEF Upgrade!NoneRunsBehind, UpgradeOneInv, UpgradeStarted
<1>5. Upgrade!ServiceStands
  BY <1>1 DEF Upgrade!ServiceStands, UpgradeOneInv, UpgradeWell, UpgradeMoving
<1> QED BY <1>2, <1>3, <1>4, <1>5

\* An upgrade, wherever it stops, leaves one container running at most, none of them on
\* a database that a newer one has migrated, and the application under its name when
\* nobody is called for help (docker_updater.py:635).
THEOREM OneServiceStays == Spec => []OneServiceStands
<1> DEFINE Inv == subject = "upgrade" => UpgradeInv
<1>1. Init => Inv
  BY UpgradeBeginning DEF Init
<1>2. Inv /\ [Next]_vars => Inv'
  <2> SUFFICES ASSUME Inv, [Next]_vars, subject' = "upgrade" PROVE UpgradeInv'
    OBVIOUS
  <2>1. subject = "upgrade" /\ [Upgrade!Next]_(Upgrade!vars)
    BY DEF Next, vars, Others, upgrade, Upgrade!vars
  <2>2. UpgradeInv
    BY <2>1
  <2> HIDE DEF Inv
  <2> QED BY <2>1, <2>2, UpgradeStep
<1>3. Inv => OneServiceStands
  BY UpgradeSafe DEF OneServiceStands
<1> QED BY <1>1, <1>2, <1>3, PTL DEF Spec

-----------------------------------------------------------------------------
(* The monitor of a directory. *)

\* A key that is no longer, or not yet, that of a file.
MonitorStale(k) == k[1] < monitorOrigin \/ (k[1] = monitorOrigin /\ k[3] < monitorListing[k[2]])
MonitorFuture(k) == k[1] > monitorOrigin \/ (k[1] = monitorOrigin /\ k[3] > monitorListing[k[2]])

\* The bounds count the writes and the sources.
MonitorTypeInv ==
  /\ Monitor!TypeOK
  /\ monitorBudget \in [scans : Nat, faults : 0..MonitorFaults, writes : 0..MaxWrites]
  /\ monitorOrigin <= monitorBudget.faults
  /\ \A p \in Paths : 1 <= monitorListing[p] /\ monitorListing[p] <= 1 + monitorBudget.writes

\* What is taken as seen has its task, on disk, in the scan and among what it has done.
MonitorSeenInv ==
  /\ monitorCheckpoint.seen \subseteq monitorTasks \cup monitorPast.baseline
  /\ monitorScan.copy.seen \subseteq monitorTasks \cup monitorPast.baseline
  /\ monitorScan.pc = "materialize" => monitorScan.ready \ monitorScan.todo \subseteq monitorTasks

\* What a scan has listed was there; what it takes is not in the watermark.
MonitorPageInv ==
  /\ monitorScan.pc = "idle" => monitorScan = Monitor!NoScan
  /\ \A k \in monitorScan.page \cup monitorScan.todo \cup monitorTasks : k[1] <= monitorOrigin
  /\ monitorScan.pc = "decide" => \A k \in monitorScan.page : ~MonitorFuture(k)
  /\ monitorScan.pc = "materialize" => monitorScan.copy.initialized

\* What waits: a wait that is over was that of a file left alone, or of one that
\* is no longer there.
MonitorWaits(watches) ==
  \A p \in Paths : watches[p].key \in Monitor!Key =>
    /\ ~MonitorFuture(watches[p].key)
    /\ watches[p].waited /\ ~monitorPast.slow =>
         watches[p].key \in monitorPast.settled \/ MonitorStale(watches[p].key)
MonitorWaitInv ==
  /\ MonitorWaits(monitorCheckpoint.stability) /\ MonitorWaits(monitorScan.copy.stability)
  /\ monitorScan.late => monitorPast.slow
  /\ \A p \in monitorQuiet \cap Monitor!Present : Monitor!KeyOf(p) \in monitorPast.settled
  /\ monitorScan.still \subseteq monitorPast.settled
  /\ monitorScan.pc = "decide" /\ ~monitorPast.slow =>
       \A k \in monitorScan.page :
         monitorScan.copy.stability[k[2]] = [key |-> k, waited |-> TRUE] => k \in monitorPast.settled

\* Whether the waits of the policy are those of the files.
MonitorWaited == monitorPolicy.debounce \/ (monitorPolicy.stability /\ ~monitorPast.slow)
MonitorTakenInv == MonitorWaited => monitorTasks \cup monitorScan.todo \subseteq monitorPast.settled

\* What was there when the source was chosen: all of it, or what comes before the
\* cursor, is in the watermark.
MonitorOldSeen(c) ==
  \A p \in Paths : monitorListing[p] = 1 /\ (c.initialized \/ p <= c.cursor) => Monitor!KeyOf(p) \in c.seen
MonitorOldInv ==
  monitorPolicy.newOnly /\ ~monitorPast.crossed =>
    /\ monitorPast.old = {<<monitorOrigin, p, 1>> : p \in Paths}
    /\ MonitorOldSeen(monitorCheckpoint)
    /\ monitorScan.pc # "idle" => MonitorOldSeen(monitorScan.copy)
    /\ monitorScan.pc = "decide" =>
         /\ \A k \in monitorScan.page : k = Monitor!KeyOf(k[2])
         /\ \A p \in Monitor!Present : p > monitorScan.copy.cursor /\ (p <= monitorScan.last \/ ~monitorScan.more) =>
              Monitor!KeyOf(p) \in monitorScan.page
    /\ (monitorTasks \cup monitorScan.todo) \cap monitorPast.old = {}

MonitorInv == /\ MonitorTypeInv /\ MonitorSeenInv /\ MonitorPageInv
              /\ MonitorWaitInv /\ MonitorTakenInv /\ MonitorOldInv

LEMMA MonitorKeys ==
  /\ \A k \in Monitor!Key : /\ k[1] \in 0..MonitorFaults /\ k[2] \in Paths /\ k[3] \in 1..MaxWrites + 1
                            /\ k = <<k[1], k[2], k[3]>>
  /\ \A i \in 0..MonitorFaults, p \in Paths, v \in 1..MaxWrites + 1 : <<i, p, v>> \in Monitor!Key
  /\ Monitor!NoKey \notin Monitor!Key
BY MonitorAssumption DEF Monitor!Key, Monitor!NoKey

LEMMA MonitorPlaces ==
  /\ Paths \subseteq Nat \ {0} /\ IsFiniteSet(Paths) /\ Cardinality(Paths) \in Nat
  /\ Paths = 1..Cardinality(Paths) /\ MonitorFaults \in Nat /\ MaxWrites \in Nat /\ Batch \in Nat
<1>1. Cardinality(Paths) \in Nat
  BY MonitorAssumption, FS_CardinalityType
<1> QED BY <1>1, MonitorAssumption

LEMMA MonitorTypes ==
  ASSUME MonitorTypeInv
  PROVE  /\ monitorPolicy \in [newOnly : BOOLEAN, debounce : BOOLEAN, stability : BOOLEAN]
         /\ monitorOrigin \in 0..MonitorFaults /\ monitorListing \in [Paths -> 0..MaxWrites + 1]
         /\ monitorQuiet \subseteq Paths /\ monitorTasks \subseteq Monitor!Key
         /\ monitorPast \in [old : SUBSET Monitor!Key, baseline : SUBSET Monitor!Key, settled : SUBSET Monitor!Key,
                             crossed : BOOLEAN, slow : BOOLEAN]
         /\ monitorBudget \in [scans : Nat, faults : 0..MonitorFaults, writes : 0..MaxWrites]
         /\ monitorOrigin <= monitorBudget.faults
         /\ \A p \in Paths : 1 <= monitorListing[p] /\ monitorListing[p] <= 1 + monitorBudget.writes
BY DEF MonitorTypeInv, Monitor!TypeOK, Monitor!Past

LEMMA MonitorCheckpointType ==
  \A c : c \in Monitor!Checkpoint <=>
    c \in [initialized : BOOLEAN, seen : SUBSET Monitor!Key, cursor : {0} \cup Paths,
           stability : [Paths -> Monitor!Watch], pending : BOOLEAN]
BY DEF Monitor!Checkpoint

LEMMA MonitorScanType ==
  \A s : s \in Monitor!Scan <=>
    s \in [pc : {"idle", "discover", "decide", "materialize"}, copy : Monitor!Checkpoint,
           still : SUBSET Monitor!Key, page : SUBSET Monitor!Key, more : BOOLEAN, last : {0} \cup Paths,
           todo : SUBSET Monitor!Key, ready : SUBSET Monitor!Key, late : BOOLEAN]
BY DEF Monitor!Scan

LEMMA MonitorShapes ==
  ASSUME MonitorTypeInv
  PROVE  monitorCheckpoint \in Monitor!Checkpoint /\ monitorScan \in Monitor!Scan
         /\ monitorScan.copy \in Monitor!Checkpoint
<1>1. monitorCheckpoint \in Monitor!Checkpoint /\ monitorScan \in Monitor!Scan
  BY DEF MonitorTypeInv, Monitor!TypeOK
<1> QED BY <1>1, MonitorScanType

LEMMA MonitorTyped ==
  ASSUME MonitorTypeInv, monitorPolicy' = monitorPolicy,
         monitorOrigin' \in 0..MonitorFaults, monitorListing' \in [Paths -> 0..MaxWrites + 1],
         monitorQuiet' \subseteq Paths, monitorTasks' \subseteq Monitor!Key,
         monitorCheckpoint' \in Monitor!Checkpoint, monitorScan' \in Monitor!Scan,
         monitorPast' \in [old : SUBSET Monitor!Key, baseline : SUBSET Monitor!Key, settled : SUBSET Monitor!Key,
                             crossed : BOOLEAN, slow : BOOLEAN],
         monitorBudget' \in [scans : Nat, faults : 0..MonitorFaults, writes : 0..MaxWrites],
         monitorOrigin' <= monitorBudget'.faults,
         \A p \in Paths : 1 <= monitorListing'[p] /\ monitorListing'[p] <= 1 + monitorBudget'.writes
  PROVE  MonitorTypeInv'
<1>1. monitorPolicy' \in [newOnly : BOOLEAN, debounce : BOOLEAN, stability : BOOLEAN]
  BY MonitorTypes
<1>2. Monitor!TypeOK'
  BY <1>1 DEF Monitor!TypeOK, Monitor!Past
<1> QED BY <1>2 DEF MonitorTypeInv

LEMMA MonitorPending ==
  ASSUME NEW c \in Monitor!Checkpoint, NEW b \in BOOLEAN, NEW d, d = [c EXCEPT !.pending = b]
  PROVE  /\ d \in Monitor!Checkpoint /\ d.seen = c.seen /\ d.stability = c.stability
         /\ d.initialized = c.initialized /\ d.cursor = c.cursor /\ d.pending = b
BY MonitorCheckpointType

LEMMA MonitorNothing ==
  /\ Monitor!NoCheckpoint \in Monitor!Checkpoint /\ Monitor!NoScan \in Monitor!Scan
  /\ \A p \in Paths : Monitor!Unwatched[p] = Monitor!NoWatch
  /\ Monitor!NoWatch \in Monitor!Watch /\ Monitor!Unwatched \in [Paths -> Monitor!Watch]
<1>1. Monitor!NoWatch \in Monitor!Watch
  BY DEF Monitor!NoWatch, Monitor!Watch
<1>2. Monitor!Unwatched \in [Paths -> Monitor!Watch] /\ \A p \in Paths : Monitor!Unwatched[p] = Monitor!NoWatch
  BY <1>1 DEF Monitor!Unwatched
<1>3. Monitor!NoCheckpoint \in Monitor!Checkpoint
  BY <1>2, MonitorCheckpointType DEF Monitor!NoCheckpoint
<1>4. Monitor!NoScan \in Monitor!Scan
  BY <1>3, MonitorScanType DEF Monitor!NoScan
<1> QED BY <1>1, <1>2, <1>3, <1>4

\* The key of a file that is there.
LEMMA MonitorKeyOfFile ==
  ASSUME MonitorTypeInv, NEW p \in Monitor!Present
  PROVE  /\ p \in Paths /\ monitorListing[p] > 0 /\ Monitor!KeyOf(p) \in Monitor!Key
         /\ Monitor!KeyOf(p)[1] = monitorOrigin /\ Monitor!KeyOf(p)[2] = p /\ Monitor!KeyOf(p)[3] = monitorListing[p]
         /\ ~MonitorFuture(Monitor!KeyOf(p)) /\ ~MonitorStale(Monitor!KeyOf(p))
<1>1. p \in Paths /\ monitorListing[p] \in 1..MaxWrites + 1 /\ monitorOrigin \in 0..MonitorFaults
  BY MonitorTypes, MonitorPlaces DEF Monitor!Present
<1>2. Monitor!KeyOf(p) = <<monitorOrigin, p, monitorListing[p]>>
  BY DEF Monitor!KeyOf
<1>3. /\ Monitor!KeyOf(p) \in Monitor!Key
      /\ Monitor!KeyOf(p)[1] = monitorOrigin /\ Monitor!KeyOf(p)[2] = p /\ Monitor!KeyOf(p)[3] = monitorListing[p]
  BY <1>1, <1>2, MonitorKeys
<1> QED BY <1>1, <1>3 DEF MonitorFuture, MonitorStale

\* A key is current, or stale, or of the future.
LEMMA MonitorCurrent ==
  ASSUME MonitorTypeInv, NEW k \in Monitor!Key, ~MonitorStale(k), ~MonitorFuture(k)
  PROVE  k[2] \in Monitor!Present /\ k = Monitor!KeyOf(k[2])
<1>1. k[1] \in 0..MonitorFaults /\ k[2] \in Paths /\ k[3] \in 1..MaxWrites + 1 /\ k = <<k[1], k[2], k[3]>>
  BY MonitorKeys
<1>2. monitorOrigin \in 0..MonitorFaults /\ monitorListing[k[2]] \in 0..MaxWrites + 1
  BY <1>1, MonitorTypes
<1>3. k[1] = monitorOrigin /\ k[3] = monitorListing[k[2]]
  BY <1>1, <1>2, MonitorPlaces DEF MonitorStale, MonitorFuture
<1> QED BY <1>1, <1>2, <1>3, MonitorPlaces DEF Monitor!Present, Monitor!KeyOf

\* A checkpoint that may be written back.
MonitorKeep(c) ==
  /\ c \in Monitor!Checkpoint
  /\ c.seen \subseteq monitorTasks \cup monitorPast.baseline /\ MonitorWaits(c.stability)
  /\ monitorPolicy.newOnly /\ ~monitorPast.crossed => MonitorOldSeen(c)

LEMMA MonitorKept ==
  ASSUME MonitorInv
  PROVE  MonitorKeep(monitorCheckpoint) /\ (monitorScan.pc # "idle" => MonitorKeep(monitorScan.copy))
<1>1. monitorCheckpoint \in Monitor!Checkpoint /\ monitorScan.copy \in Monitor!Checkpoint
  BY MonitorShapes DEF MonitorInv
<1> QED BY <1>1 DEF MonitorInv, MonitorKeep, MonitorSeenInv, MonitorWaitInv, MonitorOldInv

\* What a scan without anything says.
LEMMA MonitorNoScan ==
  /\ Monitor!NoScan.pc = "idle" /\ Monitor!NoScan.copy = Monitor!NoCheckpoint /\ Monitor!NoScan.still = {}
  /\ Monitor!NoScan.page = {} /\ Monitor!NoScan.todo = {} /\ Monitor!NoScan.late = FALSE
  /\ Monitor!NoCheckpoint.seen = {} /\ Monitor!NoCheckpoint.stability = Monitor!Unwatched
  /\ Monitor!NoCheckpoint.initialized = FALSE /\ Monitor!NoCheckpoint.cursor = 0
BY DEF Monitor!NoScan, Monitor!NoCheckpoint

LEMMA MonitorUnwatched == ASSUME NEW w, w = Monitor!Unwatched PROVE MonitorWaits(w)
<1>1. \A p \in Paths : w[p].key = Monitor!NoKey
  BY MonitorNothing DEF Monitor!NoWatch
<1> QED BY <1>1, MonitorKeys DEF MonitorWaits

LEMMA MonitorUnwatchedNext == ASSUME NEW w, w = Monitor!Unwatched PROVE MonitorWaits(w)'
<1>1. \A p \in Paths : w[p].key = Monitor!NoKey
  BY MonitorNothing DEF Monitor!NoWatch
<1> QED BY <1>1, MonitorKeys DEF MonitorWaits

\* Waits last while nothing is written.
LEMMA MonitorWaitsStay ==
  ASSUME NEW w, MonitorWaits(w), UNCHANGED <<monitorOrigin, monitorListing>>,
         monitorPast.settled \subseteq monitorPast'.settled, monitorPast.slow => monitorPast'.slow
  PROVE  MonitorWaits(w)'
BY DEF MonitorWaits, MonitorFuture, MonitorStale

LEMMA MonitorOldStays ==
  ASSUME NEW c, MonitorOldSeen(c), UNCHANGED <<monitorOrigin, monitorListing>>
  PROVE  MonitorOldSeen(c)'
BY DEF MonitorOldSeen, Monitor!KeyOf

\* A scan ends, and writes its checkpoint back.
LEMMA MonitorEnds ==
  ASSUME MonitorInv, NEW c, NEW b \in BOOLEAN,
         c \in Monitor!Checkpoint, c.seen \subseteq monitorTasks \cup monitorPast'.baseline, MonitorWaits(c.stability),
         monitorPolicy.newOnly /\ ~monitorPast.crossed => MonitorOldSeen(c),
         monitorCheckpoint' = [c EXCEPT !.pending = b], monitorScan' = Monitor!NoScan,
         UNCHANGED <<monitorPolicy, monitorOrigin, monitorListing, monitorQuiet, monitorTasks>>,
         monitorPast' = [monitorPast EXCEPT !.baseline = monitorPast'.baseline],
         monitorPast'.baseline \subseteq Monitor!Key,
         monitorBudget' \in [scans : Nat, faults : 0..MonitorFaults, writes : 0..MaxWrites],
         monitorBudget.faults <= monitorBudget'.faults, monitorBudget'.writes = monitorBudget.writes
  PROVE  MonitorInv'
<1>1. MonitorTypeInv
  BY DEF MonitorInv
<1>2. /\ monitorCheckpoint' \in Monitor!Checkpoint
      /\ monitorCheckpoint'.seen = c.seen /\ monitorCheckpoint'.stability = c.stability
      /\ monitorCheckpoint'.initialized = c.initialized /\ monitorCheckpoint'.cursor = c.cursor
  BY MonitorCheckpointType
<1>3. /\ monitorPast' \in [old : SUBSET Monitor!Key, baseline : SUBSET Monitor!Key, settled : SUBSET Monitor!Key,
                           crossed : BOOLEAN, slow : BOOLEAN]
      /\ monitorPast'.settled = monitorPast.settled /\ monitorPast'.slow = monitorPast.slow
      /\ monitorPast'.old = monitorPast.old /\ monitorPast'.crossed = monitorPast.crossed
  <2>1. monitorPast \in [old : SUBSET Monitor!Key, baseline : SUBSET Monitor!Key, settled : SUBSET Monitor!Key,
                           crossed : BOOLEAN, slow : BOOLEAN]
    BY <1>1, MonitorTypes
  <2> QED BY <2>1
<1>4. MonitorTypeInv'
  <2>1. monitorOrigin <= monitorBudget'.faults
    BY <1>1, MonitorTypes, MonitorPlaces
  <2> QED BY <1>1, <1>2, <1>3, <2>1, MonitorTypes, MonitorTyped, MonitorNothing
<1>5. MonitorSeenInv'
  BY <1>2, MonitorNoScan DEF MonitorSeenInv
<1>6. MonitorPageInv'
  BY MonitorNoScan DEF MonitorInv, MonitorPageInv
<1>7. MonitorWaitInv'
  <2>1. MonitorWaits(monitorCheckpoint.stability)'
    <3>1. MonitorWaits(c.stability)'
      BY <1>3, MonitorWaitsStay
    <3> QED BY <1>2, <3>1 DEF MonitorWaits
  <2>2. MonitorWaits(monitorScan.copy.stability)'
    <3>1. monitorScan'.copy.stability = Monitor!Unwatched
      BY MonitorNoScan
    <3> QED BY <3>1, MonitorNothing, MonitorKeys DEF MonitorWaits, Monitor!NoWatch
  <2>3. \A p \in Paths : Monitor!KeyOf(p)' = Monitor!KeyOf(p)
    BY DEF Monitor!KeyOf
  <2>4. Monitor!Present' = Monitor!Present /\ Monitor!Present \subseteq Paths
    BY DEF Monitor!Present
  <2> QED BY <1>3, <2>1, <2>2, <2>3, <2>4, MonitorNoScan DEF MonitorInv, MonitorWaitInv
<1>8. MonitorTakenInv'
  BY <1>3, MonitorNoScan DEF MonitorInv, MonitorTakenInv, MonitorWaited
<1>9. MonitorOldInv'
  <2>1. ASSUME monitorPolicy.newOnly, ~monitorPast.crossed PROVE MonitorOldSeen(monitorCheckpoint)'
    <3>1. MonitorOldSeen(c)'
      BY <2>1, MonitorOldStays
    <3> QED BY <1>2, <3>1 DEF MonitorOldSeen
  <2> QED BY <1>3, <2>1, MonitorNoScan DEF MonitorInv, MonitorOldInv
<1> QED BY <1>4, <1>5, <1>6, <1>7, <1>8, <1>9 DEF MonitorInv

-----------------------------------------------------------------------------
(* What a scan makes of its page. *)

LEMMA MonitorAdvances ==
  ASSUME MonitorTypeInv, NEW c \in Monitor!Checkpoint
  PROVE  /\ Monitor!Advanced(c) \in Monitor!Checkpoint /\ Monitor!Advanced(c).seen = c.seen
         /\ Monitor!Advanced(c).stability = c.stability /\ Monitor!Advanced(c).initialized = c.initialized
         /\ Monitor!Advanced(c).cursor = IF monitorScan.more THEN monitorScan.last ELSE 0
<1>1. monitorScan.last \in {0} \cup Paths
  BY MonitorShapes, MonitorScanType
<1> QED BY <1>1, MonitorCheckpointType DEF Monitor!Advanced

LEMMA MonitorPages ==
  ASSUME MonitorInv
  PROVE  /\ Monitor!Begun \in Monitor!Checkpoint /\ Monitor!Begun.seen = monitorScan.copy.seen
         /\ Monitor!Begun.stability = monitorScan.copy.stability /\ Monitor!Begun.cursor = monitorScan.copy.cursor
         /\ Monitor!Begun.initialized /\ Monitor!Begun.stability \in [Paths -> Monitor!Watch]
         /\ monitorScan.page \subseteq Monitor!Key /\ monitorScan.late \in BOOLEAN
         /\ Monitor!Unseen = monitorScan.page \ monitorScan.copy.seen
         /\ Monitor!Quiet \subseteq Monitor!Unseen /\ Monitor!Ready \subseteq Monitor!Quiet
<1>1. monitorScan.copy \in Monitor!Checkpoint /\ monitorScan.page \subseteq Monitor!Key /\ monitorScan.late \in BOOLEAN
  BY MonitorShapes, MonitorScanType DEF MonitorInv
<1>2. /\ Monitor!Begun \in Monitor!Checkpoint /\ Monitor!Begun.seen = monitorScan.copy.seen
      /\ Monitor!Begun.stability = monitorScan.copy.stability /\ Monitor!Begun.cursor = monitorScan.copy.cursor
      /\ Monitor!Begun.initialized
  <2> DEFINE c == monitorScan.copy
             R == [initialized : BOOLEAN, seen : SUBSET Monitor!Key, cursor : {0} \cup Paths,
                   stability : [Paths -> Monitor!Watch], pending : BOOLEAN]
  <2>1. c \in R /\ Monitor!Begun = [c EXCEPT !.initialized = TRUE]
    BY <1>1, MonitorCheckpointType DEF Monitor!Begun
  <2> HIDE DEF c
  <2>2. /\ Monitor!Begun \in R /\ Monitor!Begun.seen = c.seen /\ Monitor!Begun.stability = c.stability
        /\ Monitor!Begun.cursor = c.cursor /\ Monitor!Begun.initialized
    BY <2>1
  <2>3. Monitor!Begun \in Monitor!Checkpoint
    BY <2>2, MonitorCheckpointType
  <2> QED BY <2>2, <2>3 DEF c
<1>3. Monitor!Begun.stability \in [Paths -> Monitor!Watch]
  BY <1>2, MonitorCheckpointType
<1>4. Monitor!Quiet \subseteq Monitor!Unseen
  BY DEF Monitor!Quiet
<1>5. Monitor!Ready \subseteq Monitor!Quiet
  BY DEF Monitor!Ready
<1>6. Monitor!Unseen = monitorScan.page \ monitorScan.copy.seen
  BY DEF Monitor!Unseen
<1> QED BY <1>1, <1>2, <1>3, <1>4, <1>5, <1>6

\* The watches of a page are those of keys that were there.
LEMMA MonitorWatches ==
  ASSUME MonitorInv, monitorScan.pc = "decide"
  PROVE  Monitor!Watches \in [Paths -> Monitor!Watch] /\ MonitorWaits(Monitor!Watches)
<1> DEFINE S == Monitor!Begun.stability
<1>1. S \in [Paths -> Monitor!Watch] /\ MonitorWaits(S)
  BY MonitorPages DEF MonitorInv, MonitorWaitInv
<1>2. /\ \A k \in Monitor!Quiet : k \in Monitor!Key /\ k \in monitorScan.page /\ ~MonitorFuture(k)
      /\ monitorScan.late \in BOOLEAN /\ (monitorScan.late => monitorPast.slow)
  BY MonitorPages DEF MonitorInv, MonitorPageInv, MonitorWaitInv
<1> HIDE DEF S
<1>3. CASE monitorPolicy.stability
  <2> DEFINE Of(p) == CHOOSE k \in Monitor!Quiet : Monitor!Path(k) = p
  <2>1. Monitor!Watches =
          [p \in Paths |->
            IF \E k \in Monitor!Quiet \ Monitor!Ready : Monitor!Path(k) = p
            THEN IF Monitor!Watched(Of(p)) THEN S[p] ELSE [key |-> Of(p), waited |-> monitorScan.late]
            ELSE Monitor!NoWatch]
    BY <1>3 DEF Monitor!Watches, S
  <2>2. ASSUME NEW p \in Paths
        PROVE  \/ Monitor!Watches[p] = S[p] \/ Monitor!Watches[p] = Monitor!NoWatch
               \/ \E k \in Monitor!Quiet : Monitor!Watches[p] = [key |-> k, waited |-> monitorScan.late]
    <3>1. CASE \E k \in Monitor!Quiet \ Monitor!Ready : Monitor!Path(k) = p
      <4>1. Of(p) \in Monitor!Quiet
        BY <3>1
      <4> HIDE DEF Of
      <4> QED BY <2>1, <3>1, <4>1
    <3>2. CASE ~\E k \in Monitor!Quiet \ Monitor!Ready : Monitor!Path(k) = p
      <4> HIDE DEF Of
      <4> QED BY <2>1, <3>2
    <3> QED BY <3>1, <3>2
  <2>3. \A k \in Monitor!Quiet : [key |-> k, waited |-> monitorScan.late] \in Monitor!Watch
    BY <1>2 DEF Monitor!Watch
  <2>4. DOMAIN Monitor!Watches = Paths /\ Monitor!Watches = [p \in Paths |-> Monitor!Watches[p]]
    <3> HIDE DEF Of
    <3> QED BY <2>1
  <2>5. \A p \in Paths : Monitor!Watches[p] \in Monitor!Watch
    BY <1>1, <2>2, <2>3, MonitorNothing
  <2>6. Monitor!Watches \in [Paths -> Monitor!Watch]
    BY <2>4, <2>5
  <2>7. ASSUME NEW p \in Paths, Monitor!Watches[p].key \in Monitor!Key
        PROVE  /\ ~MonitorFuture(Monitor!Watches[p].key)
               /\ Monitor!Watches[p].waited /\ ~monitorPast.slow =>
                    Monitor!Watches[p].key \in monitorPast.settled \/ MonitorStale(Monitor!Watches[p].key)
    <3>1. CASE Monitor!Watches[p] = S[p]
      BY <1>1, <2>7, <3>1 DEF MonitorWaits
    <3>2. CASE Monitor!Watches[p] = Monitor!NoWatch
      BY <2>7, <3>2, MonitorKeys DEF Monitor!NoWatch
    <3>3. CASE \E k \in Monitor!Quiet : Monitor!Watches[p] = [key |-> k, waited |-> monitorScan.late]
      BY <1>2, <3>3
    <3> QED BY <2>2, <3>1, <3>2, <3>3
  <2> QED BY <2>6, <2>7 DEF MonitorWaits
<1>4. CASE ~monitorPolicy.stability
  <2>1. Monitor!Watches = S
    BY <1>4 DEF Monitor!Watches, S
  <2> QED BY <1>1, <2>1
<1> QED BY <1>3, <1>4

\* With NEW_ONLY and no crossing edit, what is found new was not there before.
LEMMA MonitorOrdinaryOld ==
  ASSUME MonitorInv, Monitor!Ordinary, NEW c, monitorScan.copy.seen \subseteq c.seen
  PROVE  monitorPolicy.newOnly /\ ~monitorPast.crossed => MonitorOldSeen(c)
BY DEF MonitorInv, MonitorOldInv, MonitorOldSeen, Monitor!Ordinary

LEMMA MonitorReadySettled ==
  ASSUME MonitorInv, Monitor!Ordinary
  PROVE  MonitorWaited => Monitor!Ready \subseteq monitorPast.settled
<1>1. monitorScan.pc = "decide" /\ Monitor!Ready \subseteq Monitor!Quiet /\ Monitor!Quiet \subseteq monitorScan.page
  BY MonitorPages DEF Monitor!Ordinary
<1>2. CASE monitorPolicy.debounce
  BY <1>1, <1>2 DEF Monitor!Quiet, MonitorInv, MonitorWaitInv
<1>3. CASE monitorPolicy.stability /\ ~monitorPast.slow
  <2> SUFFICES ASSUME NEW k \in Monitor!Ready PROVE k \in monitorPast.settled
    OBVIOUS
  <2> DEFINE w == monitorScan.copy.stability[k[2]]
  <2>1. k \in Monitor!Key /\ k \in monitorScan.page
    BY <1>1, MonitorPages
  <2>2. w.key = k /\ w.waited
    BY <1>3, MonitorPages DEF Monitor!Ready, Monitor!Watched, Monitor!Path
  <2>3. w \in Monitor!Watch
    BY <2>1, MonitorPages, MonitorKeys
  <2>4. w = [key |-> k, waited |-> TRUE]
    <3> HIDE DEF w
    <3> QED BY <2>2, <2>3 DEF Monitor!Watch
  <2> QED BY <1>1, <1>3, <2>1, <2>4 DEF MonitorInv, MonitorWaitInv
<1> QED BY <1>2, <1>3 DEF MonitorWaited

-----------------------------------------------------------------------------
(* What a step writes into the checkpoint. *)

MonitorGoesOn ==
  monitorCheckpoint'.cursor \notin {monitorCheckpoint.cursor, monitorScan.copy.cursor} /\ monitorOrigin' = monitorOrigin
  => monitorScan.page \subseteq monitorCheckpoint'.seen
MonitorForgets ==
  monitorCheckpoint.pending /\ ~monitorCheckpoint'.pending => monitorScan'.pc = "discover" \/ monitorOrigin' # monitorOrigin

\* A scan that writes its checkpoint back leaves a queued run queued.
LEMMA MonitorSaves ==
  ASSUME MonitorInv, NEW c \in Monitor!Checkpoint, monitorCheckpoint' = Monitor!Saved(c),
         c.cursor \in {monitorCheckpoint.cursor, monitorScan.copy.cursor} \/ monitorScan.page \subseteq c.seen
  PROVE  MonitorGoesOn /\ MonitorForgets
<1>1. monitorCheckpoint.pending \in BOOLEAN
  BY MonitorShapes, MonitorCheckpointType DEF MonitorInv
<1>2. /\ monitorCheckpoint'.cursor = c.cursor /\ monitorCheckpoint'.seen = c.seen
      /\ monitorCheckpoint'.pending = monitorCheckpoint.pending
  BY <1>1, MonitorPending DEF Monitor!Saved
<1> QED BY <1>2 DEF MonitorGoesOn, MonitorForgets

-----------------------------------------------------------------------------
(* The steps of a scan. *)

LEMMA MonitorSilent ==
  ASSUME MonitorInv, Monitor!Silent
  PROVE  /\ UNCHANGED <<monitorPolicy, monitorOrigin, monitorListing, monitorQuiet, monitorTasks, monitorBudget>>
         /\ monitorBudget' \in [scans : Nat, faults : 0..MonitorFaults, writes : 0..MaxWrites]
         /\ monitorBudget.faults <= monitorBudget'.faults /\ monitorBudget'.writes = monitorBudget.writes
<1>1. monitorBudget \in [scans : Nat, faults : 0..MonitorFaults, writes : 0..MaxWrites]
  BY MonitorTypes DEF MonitorInv
<1>2. UNCHANGED <<monitorPolicy, monitorOrigin, monitorListing, monitorQuiet, monitorTasks, monitorBudget>>
  BY DEF Monitor!Silent
<1>3. monitorBudget.faults <= monitorBudget.faults
  BY <1>1, MonitorPlaces
<1> QED BY <1>1, <1>2, <1>3

\* A scan that ends with a checkpoint that may be written back.
LEMMA MonitorEndsKept ==
  ASSUME MonitorInv, NEW c, MonitorKeep(c),
         monitorCheckpoint' = Monitor!Saved(c), monitorScan' = Monitor!NoScan,
         UNCHANGED <<monitorPolicy, monitorOrigin, monitorListing, monitorQuiet, monitorTasks, monitorPast>>,
         monitorBudget' \in [scans : Nat, faults : 0..MonitorFaults, writes : 0..MaxWrites],
         monitorBudget.faults <= monitorBudget'.faults, monitorBudget'.writes = monitorBudget.writes,
         c.cursor \in {monitorCheckpoint.cursor, monitorScan.copy.cursor} \/ monitorScan.page \subseteq c.seen
  PROVE  MonitorInv' /\ MonitorGoesOn /\ MonitorForgets
<1>1. monitorPast' = [monitorPast EXCEPT !.baseline = monitorPast'.baseline]
      /\ monitorPast'.baseline \subseteq Monitor!Key
  <2>1. monitorPast \in [old : SUBSET Monitor!Key, baseline : SUBSET Monitor!Key, settled : SUBSET Monitor!Key,
                           crossed : BOOLEAN, slow : BOOLEAN]
    BY MonitorTypes DEF MonitorInv
  <2>2. monitorPast = [monitorPast EXCEPT !.baseline = monitorPast.baseline]
        /\ monitorPast.baseline \subseteq Monitor!Key
    BY <2>1
  <2> QED BY <2>2
<1>2. monitorCheckpoint.pending \in BOOLEAN
  BY MonitorShapes, MonitorCheckpointType DEF MonitorInv
<1>3. monitorCheckpoint' = [c EXCEPT !.pending = monitorCheckpoint.pending]
  BY DEF Monitor!Saved
<1>4. MonitorInv'
  BY <1>1, <1>2, <1>3, MonitorEnds DEF MonitorKeep
<1>5. MonitorGoesOn /\ MonitorForgets
  BY MonitorSaves DEF MonitorKeep
<1> QED BY <1>4, <1>5

LEMMA MonitorBaselineStep ==
  ASSUME MonitorInv, Monitor!Baseline
  PROVE  MonitorInv' /\ MonitorGoesOn /\ MonitorForgets
<1> DEFINE c == [Monitor!Advanced(monitorScan.copy) EXCEPT !.seen = @ \cup monitorScan.page,
                   !.stability = Monitor!Unwatched, !.initialized = ~monitorScan.more]
<1>1. /\ monitorScan.pc = "decide" /\ monitorPolicy.newOnly
      /\ monitorCheckpoint' = Monitor!Saved(c) /\ monitorScan' = Monitor!NoScan
      /\ monitorPast' = [monitorPast EXCEPT !.baseline = @ \cup monitorScan.page] /\ Monitor!Silent
  BY DEF Monitor!Baseline, Monitor!EndScan
<1>2. /\ monitorScan.copy \in Monitor!Checkpoint /\ monitorScan.more \in BOOLEAN
      /\ monitorScan.last \in {0} \cup Paths /\ monitorScan.page \subseteq Monitor!Key
  BY MonitorShapes, MonitorScanType DEF MonitorInv
<1>3. /\ c \in Monitor!Checkpoint /\ c.seen = monitorScan.copy.seen \cup monitorScan.page
      /\ c.stability = Monitor!Unwatched /\ (c.initialized <=> ~monitorScan.more)
      /\ c.cursor = IF monitorScan.more THEN monitorScan.last ELSE 0
  <2> DEFINE d == Monitor!Advanced(monitorScan.copy)
  <2>1. /\ d \in Monitor!Checkpoint /\ d.seen = monitorScan.copy.seen /\ d.seen \subseteq Monitor!Key
        /\ d.cursor = IF monitorScan.more THEN monitorScan.last ELSE 0
    BY <1>2, MonitorAdvances, MonitorCheckpointType DEF MonitorInv
  <2> HIDE DEF d
  <2>2. PICK whole \in BOOLEAN : whole <=> ~monitorScan.more
    OBVIOUS
  <2>3. c = [d EXCEPT !.seen = @ \cup monitorScan.page, !.stability = Monitor!Unwatched, !.initialized = whole]
    BY <2>2 DEF d
  <2> HIDE DEF c
  <2>4. d.seen \cup monitorScan.page \subseteq Monitor!Key
    BY <1>2, <2>1
  <2>5. /\ c \in Monitor!Checkpoint /\ c.seen = d.seen \cup monitorScan.page
        /\ c.stability = Monitor!Unwatched /\ c.initialized = whole /\ c.cursor = d.cursor
    <3> DEFINE R == [initialized : BOOLEAN, seen : SUBSET Monitor!Key, cursor : {0} \cup Paths,
                     stability : [Paths -> Monitor!Watch], pending : BOOLEAN]
               held == d.seen \cup monitorScan.page
    <3>1. d \in R
      BY <2>1, MonitorCheckpointType
    <3>2. held \in SUBSET Monitor!Key
          /\ c = [d EXCEPT !.seen = held, !.stability = Monitor!Unwatched, !.initialized = whole]
      BY <2>3, <2>4
    <3> HIDE DEF held
    <3>3. /\ c \in R /\ c.seen = held /\ c.stability = Monitor!Unwatched /\ c.initialized = whole /\ c.cursor = d.cursor
      BY <2>2, <3>1, <3>2, MonitorNothing
    <3> QED BY <3>3, MonitorCheckpointType DEF held
  <2> QED BY <2>1, <2>2, <2>5
<1> HIDE DEF c
<1>4. /\ monitorPast \in [old : SUBSET Monitor!Key, baseline : SUBSET Monitor!Key, settled : SUBSET Monitor!Key,
                           crossed : BOOLEAN, slow : BOOLEAN]
  BY MonitorTypes DEF MonitorInv
<1>5. /\ monitorPast'.baseline = monitorPast.baseline \cup monitorScan.page
         /\ monitorPast'.baseline \subseteq Monitor!Key
      /\ monitorPast' = [monitorPast EXCEPT !.baseline = monitorPast'.baseline]
  BY <1>1, <1>2, <1>4
<1>6. c.seen \subseteq monitorTasks \cup monitorPast'.baseline
  BY <1>3, <1>5 DEF MonitorInv, MonitorSeenInv
<1>7. MonitorWaits(c.stability)
  BY <1>3, MonitorUnwatched
<1>8. ASSUME ~monitorPast.crossed PROVE MonitorOldSeen(c)
  <2> SUFFICES ASSUME NEW p \in Paths, monitorListing[p] = 1, c.initialized \/ p <= c.cursor
               PROVE  Monitor!KeyOf(p) \in c.seen
    BY DEF MonitorOldSeen
  <2>0. p \in Monitor!Present
    <3>1. monitorListing[p] > 0
      OBVIOUS
    <3> QED BY <3>1 DEF Monitor!Present
  <2>1. p \in Monitor!Present /\ (p <= monitorScan.last \/ ~monitorScan.more)
    <3>1. CASE monitorScan.more
      BY <1>3, <2>0, <3>1
    <3> QED BY <2>0, <3>1
  <2>2. CASE p > monitorScan.copy.cursor
    BY <1>1, <1>3, <1>8, <2>1, <2>2 DEF MonitorInv, MonitorOldInv
  <2>3. CASE ~(p > monitorScan.copy.cursor)
    <3>1. p <= monitorScan.copy.cursor
      BY <1>2, <2>3, MonitorPlaces, MonitorCheckpointType
    <3>2. MonitorOldSeen(monitorScan.copy)
      BY <1>1, <1>8 DEF MonitorInv, MonitorOldInv
    <3> QED BY <1>3, <3>1, <3>2 DEF MonitorOldSeen
  <2> QED BY <2>2, <2>3
<1>9. monitorCheckpoint.pending \in BOOLEAN /\ monitorCheckpoint' = [c EXCEPT !.pending = monitorCheckpoint.pending]
  <2>1. monitorCheckpoint.pending \in BOOLEAN
    BY MonitorShapes, MonitorCheckpointType DEF MonitorInv
  <2> QED BY <1>1, <2>1 DEF Monitor!Saved
<1>10. MonitorInv'
  BY <1>1, <1>3, <1>5, <1>6, <1>7, <1>8, <1>9, MonitorSilent, MonitorEnds
<1>11. MonitorGoesOn /\ MonitorForgets
  BY <1>1, <1>3, MonitorSaves
<1> QED BY <1>10, <1>11

\* What an ordinary scan may write back.
LEMMA MonitorOrdinaryKeep ==
  ASSUME MonitorInv, Monitor!Ordinary, NEW c \in Monitor!Checkpoint, MonitorWaits(c.stability),
         c.seen = monitorScan.copy.seen
  PROVE  MonitorKeep(c)
<1>1. c.seen \subseteq monitorTasks \cup monitorPast.baseline
  BY DEF MonitorInv, MonitorSeenInv
<1> QED BY <1>1, MonitorOrdinaryOld DEF MonitorKeep

LEMMA MonitorWaitSteps ==
  ASSUME MonitorInv, Monitor!NoChanges \/ Monitor!DebounceWait \/ Monitor!StabilityWait
  PROVE  MonitorInv' /\ MonitorGoesOn /\ MonitorForgets
<1> DEFINE none == [Monitor!Advanced(Monitor!Begun) EXCEPT !.stability = Monitor!Unwatched]
           wait == [Monitor!Begun EXCEPT !.stability = Monitor!Watches]
<1>1. /\ Monitor!Ordinary /\ monitorScan.pc = "decide" /\ monitorScan' = Monitor!NoScan
      /\ UNCHANGED monitorPast /\ Monitor!Silent
      /\ \/ Monitor!Unseen = {} /\ monitorCheckpoint' = Monitor!Saved(none)
         \/ monitorCheckpoint' = Monitor!Saved(Monitor!Begun)
         \/ monitorCheckpoint' = Monitor!Saved(wait)
  BY DEF Monitor!NoChanges, Monitor!DebounceWait, Monitor!StabilityWait, Monitor!EndScan, Monitor!Ordinary
<1>2. MonitorKeep(Monitor!Begun) /\ Monitor!Begun.cursor = monitorScan.copy.cursor
  BY <1>1, MonitorPages, MonitorOrdinaryKeep DEF MonitorInv, MonitorWaitInv
<1>3. MonitorKeep(none) /\ (Monitor!Unseen = {} => monitorScan.page \subseteq none.seen)
  <2> DEFINE d == Monitor!Advanced(Monitor!Begun)
  <2>1. d \in Monitor!Checkpoint /\ d.seen = monitorScan.copy.seen
    BY MonitorPages, MonitorAdvances DEF MonitorInv
  <2> HIDE DEF d
  <2>2. none = [d EXCEPT !.stability = Monitor!Unwatched]
    BY DEF d
  <2> HIDE DEF none
  <2>3. none \in Monitor!Checkpoint /\ none.seen = monitorScan.copy.seen /\ none.stability = Monitor!Unwatched
    BY <2>1, <2>2, MonitorCheckpointType, MonitorNothing
  <2>4. Monitor!Unseen = {} => monitorScan.page \subseteq monitorScan.copy.seen
    BY DEF Monitor!Unseen
  <2> QED BY <1>1, <2>3, <2>4, MonitorUnwatched, MonitorOrdinaryKeep
<1>4. MonitorKeep(wait) /\ wait.cursor = monitorScan.copy.cursor
  <2>1. /\ Monitor!Begun \in Monitor!Checkpoint /\ Monitor!Begun.seen = monitorScan.copy.seen
        /\ Monitor!Begun.cursor = monitorScan.copy.cursor
    BY MonitorPages
  <2>2. Monitor!Watches \in [Paths -> Monitor!Watch] /\ MonitorWaits(Monitor!Watches)
    BY <1>1, MonitorWatches
  <2>3. /\ wait \in Monitor!Checkpoint /\ wait.seen = monitorScan.copy.seen /\ wait.stability = Monitor!Watches
        /\ wait.cursor = monitorScan.copy.cursor
    BY <2>1, <2>2, MonitorCheckpointType
  <2> HIDE DEF wait
  <2> QED BY <1>1, <2>2, <2>3, MonitorOrdinaryKeep
<1> HIDE DEF none, wait
<1>5. PICK c \in {none, Monitor!Begun, wait} :
        monitorCheckpoint' = Monitor!Saved(c)
        /\ (c.cursor = monitorScan.copy.cursor \/ monitorScan.page \subseteq c.seen)
  BY <1>1, <1>2, <1>3, <1>4
<1>6. MonitorKeep(c)
  BY <1>2, <1>3, <1>4, <1>5
<1> QED BY <1>1, <1>5, <1>6, MonitorSilent, MonitorEndsKept

\* What is new to a scan is not what was there before.
LEMMA MonitorReadyNew ==
  ASSUME MonitorInv, Monitor!Ordinary, monitorPolicy.newOnly, ~monitorPast.crossed
  PROVE  Monitor!Ready \cap monitorPast.old = {}
<1> SUFFICES ASSUME NEW k \in Monitor!Ready, k \in monitorPast.old PROVE FALSE
  OBVIOUS
<1>1. k \in monitorScan.page /\ k \notin monitorScan.copy.seen
  BY MonitorPages
<1>2. PICK p \in Paths : k = <<monitorOrigin, p, 1>>
  BY DEF MonitorInv, MonitorOldInv
<1>3. k = Monitor!KeyOf(k[2])
  BY <1>1 DEF MonitorInv, MonitorOldInv, Monitor!Ordinary
<1>4. k = Monitor!KeyOf(p) /\ monitorListing[p] = 1
  BY <1>2, <1>3 DEF Monitor!KeyOf
<1>5. MonitorOldSeen(monitorScan.copy)
  BY MonitorOrdinaryOld
<1>6. monitorScan.copy.initialized
  BY DEF Monitor!Ordinary
<1> QED BY <1>1, <1>4, <1>5, <1>6 DEF MonitorOldSeen

LEMMA MonitorBeginMaterialize == ASSUME MonitorInv, Monitor!BeginMaterialize PROVE MonitorInv'
<1> DEFINE c == [Monitor!Begun EXCEPT !.stability = Monitor!Watches]
<1>1. /\ Monitor!Ordinary /\ monitorScan.pc = "decide"
      /\ UNCHANGED <<monitorPolicy, monitorOrigin, monitorListing, monitorQuiet, monitorTasks, monitorBudget,
                     monitorCheckpoint, monitorPast>>
      /\ monitorScan' = [monitorScan EXCEPT !.pc = "materialize", !.todo = Monitor!Ready,
                                            !.ready = Monitor!Ready, !.copy = c]
  BY DEF Monitor!BeginMaterialize, Monitor!Silent, Monitor!Ordinary
<1>2. Monitor!Ready \subseteq monitorScan.page /\ Monitor!Ready \subseteq Monitor!Key
  BY MonitorPages
<1>3. /\ c \in Monitor!Checkpoint /\ c.seen = monitorScan.copy.seen /\ c.stability = Monitor!Watches
      /\ c.initialized /\ MonitorWaits(Monitor!Watches)
  <2> DEFINE b == Monitor!Begun
             R == [initialized : BOOLEAN, seen : SUBSET Monitor!Key, cursor : {0} \cup Paths,
                   stability : [Paths -> Monitor!Watch], pending : BOOLEAN]
  <2>1. b \in R /\ b.seen = monitorScan.copy.seen /\ b.initialized
    BY MonitorPages, MonitorCheckpointType
  <2>2. Monitor!Watches \in [Paths -> Monitor!Watch] /\ MonitorWaits(Monitor!Watches)
    BY <1>1, MonitorWatches
  <2>3. c = [b EXCEPT !.stability = Monitor!Watches]
    OBVIOUS
  <2> HIDE DEF b, c
  <2>4. c \in R /\ c.seen = b.seen /\ c.stability = Monitor!Watches /\ c.initialized = b.initialized
    BY <2>1, <2>2, <2>3
  <2> QED BY <2>1, <2>2, <2>4, MonitorCheckpointType
<1> HIDE DEF c
<1>4. /\ monitorScan' \in Monitor!Scan /\ monitorScan'.pc = "materialize" /\ monitorScan'.copy = c
      /\ monitorScan'.todo = Monitor!Ready /\ monitorScan'.ready = Monitor!Ready
      /\ monitorScan'.page = monitorScan.page /\ monitorScan'.still = monitorScan.still
      /\ monitorScan'.late = monitorScan.late
  <2> DEFINE R == [pc : {"idle", "discover", "decide", "materialize"}, copy : Monitor!Checkpoint,
           still : SUBSET Monitor!Key, page : SUBSET Monitor!Key, more : BOOLEAN, last : {0} \cup Paths,
           todo : SUBSET Monitor!Key, ready : SUBSET Monitor!Key, late : BOOLEAN]
  <2>1. monitorScan \in R
    BY MonitorShapes, MonitorScanType DEF MonitorInv
  <2>2. PICK r \in SUBSET Monitor!Key : r = Monitor!Ready
    BY <1>2
  <2>3. monitorScan' = [monitorScan EXCEPT !.pc = "materialize", !.todo = r, !.ready = r, !.copy = c]
    BY <1>1, <2>2
  <2>4. /\ monitorScan' \in R /\ monitorScan'.pc = "materialize" /\ monitorScan'.copy = c
        /\ monitorScan'.todo = r /\ monitorScan'.ready = r
        /\ monitorScan'.page = monitorScan.page /\ monitorScan'.still = monitorScan.still
        /\ monitorScan'.late = monitorScan.late
    BY <1>3, <2>1, <2>3
  <2> QED BY <2>2, <2>4, MonitorScanType
<1>5. MonitorTypeInv'
  <2>1. monitorCheckpoint \in Monitor!Checkpoint
    BY MonitorShapes DEF MonitorInv
  <2> QED BY <1>1, <1>4, <2>1, MonitorTypes, MonitorTyped DEF MonitorInv
<1>6. MonitorSeenInv'
  BY <1>1, <1>3, <1>4 DEF MonitorInv, MonitorSeenInv
<1>7. MonitorPageInv'
  BY <1>1, <1>2, <1>3, <1>4 DEF MonitorInv, MonitorPageInv
<1>8. MonitorWaitInv'
  <2>1. MonitorWaits(monitorCheckpoint.stability)'
    BY <1>1 DEF MonitorInv, MonitorWaitInv, MonitorWaits, MonitorFuture, MonitorStale
  <2>2. MonitorWaits(monitorScan.copy.stability)'
    BY <1>1, <1>3, <1>4 DEF MonitorWaits, MonitorFuture, MonitorStale
  <2>3. \A p \in monitorQuiet' \cap Monitor!Present' : Monitor!KeyOf(p)' \in monitorPast'.settled
    BY <1>1 DEF MonitorInv, MonitorWaitInv, Monitor!Present, Monitor!KeyOf
  <2> QED BY <1>1, <1>4, <2>1, <2>2, <2>3 DEF MonitorInv, MonitorWaitInv
<1>9. MonitorTakenInv'
  <2>1. MonitorWaited => Monitor!Ready \subseteq monitorPast.settled
    BY <1>1, MonitorReadySettled
  <2> QED BY <1>1, <1>4, <2>1 DEF MonitorInv, MonitorTakenInv, MonitorWaited
<1>10. MonitorOldInv'
  <2> SUFFICES ASSUME monitorPolicy.newOnly, ~monitorPast.crossed
               PROVE  /\ monitorPast'.old = {<<monitorOrigin', p, 1>> : p \in Paths}
                      /\ MonitorOldSeen(monitorCheckpoint)' /\ MonitorOldSeen(monitorScan.copy)'
                      /\ (monitorTasks' \cup monitorScan'.todo) \cap monitorPast'.old = {}
    BY <1>1, <1>4 DEF MonitorOldInv
  <2>1. /\ monitorPast.old = {<<monitorOrigin, p, 1>> : p \in Paths} /\ MonitorOldSeen(monitorCheckpoint)
        /\ monitorTasks \cap monitorPast.old = {}
    BY DEF MonitorInv, MonitorOldInv
  <2>2. Monitor!Ready \cap monitorPast.old = {}
    BY <1>1, MonitorReadyNew
  <2>3. MonitorOldSeen(c)
    BY <1>1, <1>3, MonitorOrdinaryOld
  <2>4. MonitorOldSeen(monitorCheckpoint)' /\ MonitorOldSeen(monitorScan.copy)'
    BY <1>1, <1>4, <2>1, <2>3 DEF MonitorOldSeen, Monitor!KeyOf
  <2> QED BY <1>1, <1>4, <2>1, <2>2, <2>4
<1> QED BY <1>5, <1>6, <1>7, <1>8, <1>9, <1>10 DEF MonitorInv

LEMMA MonitorMaterializeUnit ==
  ASSUME MonitorInv, NEW k \in monitorScan.todo, Monitor!MaterializeUnit(k)
  PROVE  MonitorInv'
<1>1. /\ monitorScan.pc = "materialize" /\ monitorTasks' = monitorTasks \cup {k}
      /\ monitorScan' = [monitorScan EXCEPT !.todo = @ \ {k}]
      /\ UNCHANGED <<monitorPolicy, monitorOrigin, monitorListing, monitorQuiet, monitorBudget,
                     monitorCheckpoint, monitorPast>>
  BY DEF Monitor!MaterializeUnit
<1>2. /\ monitorScan' \in Monitor!Scan /\ monitorScan'.pc = "materialize" /\ monitorScan'.copy = monitorScan.copy
      /\ monitorScan'.todo = monitorScan.todo \ {k} /\ monitorScan'.ready = monitorScan.ready
      /\ monitorScan'.page = monitorScan.page /\ monitorScan'.still = monitorScan.still
      /\ monitorScan'.late = monitorScan.late /\ k \in Monitor!Key
  <2>1. monitorScan \in Monitor!Scan
    BY MonitorShapes DEF MonitorInv
  <2> QED BY <1>1, <2>1, MonitorScanType
<1>3. MonitorTypeInv'
  <2>1. monitorCheckpoint \in Monitor!Checkpoint
    BY MonitorShapes DEF MonitorInv
  <2>2. monitorTasks' \subseteq Monitor!Key
    BY <1>1, <1>2, MonitorTypes DEF MonitorInv
  <2> QED BY <1>1, <1>2, <2>1, <2>2, MonitorTypes, MonitorTyped DEF MonitorInv
<1>4. MonitorSeenInv'
  BY <1>1, <1>2 DEF MonitorInv, MonitorSeenInv
<1>5. MonitorPageInv'
  BY <1>1, <1>2 DEF MonitorInv, MonitorPageInv
<1>6. MonitorWaitInv'
  <2>1. MonitorWaits(monitorCheckpoint.stability)' /\ MonitorWaits(monitorScan.copy.stability)'
    BY <1>1, <1>2 DEF MonitorInv, MonitorWaitInv, MonitorWaits, MonitorFuture, MonitorStale
  <2>2. \A p \in monitorQuiet' \cap Monitor!Present' : Monitor!KeyOf(p)' \in monitorPast'.settled
    BY <1>1 DEF MonitorInv, MonitorWaitInv, Monitor!Present, Monitor!KeyOf
  <2> QED BY <1>1, <1>2, <2>1, <2>2 DEF MonitorInv, MonitorWaitInv
<1>7. MonitorTakenInv'
  BY <1>1, <1>2 DEF MonitorInv, MonitorTakenInv, MonitorWaited
<1>8. MonitorOldInv'
  <2> SUFFICES ASSUME monitorPolicy.newOnly, ~monitorPast.crossed
               PROVE  /\ monitorPast'.old = {<<monitorOrigin', p, 1>> : p \in Paths}
                      /\ MonitorOldSeen(monitorCheckpoint)' /\ MonitorOldSeen(monitorScan.copy)'
                      /\ (monitorTasks' \cup monitorScan'.todo) \cap monitorPast'.old = {}
    BY <1>1, <1>2 DEF MonitorOldInv
  <2>1. /\ monitorPast.old = {<<monitorOrigin, p, 1>> : p \in Paths} /\ MonitorOldSeen(monitorCheckpoint)
        /\ (monitorTasks \cup monitorScan.todo) \cap monitorPast.old = {} /\ MonitorOldSeen(monitorScan.copy)
    BY <1>1 DEF MonitorInv, MonitorOldInv
  <2>2. MonitorOldSeen(monitorCheckpoint)' /\ MonitorOldSeen(monitorScan.copy)'
    BY <1>1, <1>2, <2>1 DEF MonitorOldSeen, Monitor!KeyOf
  <2> QED BY <1>1, <1>2, <2>1, <2>2
<1> QED BY <1>3, <1>4, <1>5, <1>6, <1>7, <1>8 DEF MonitorInv

LEMMA MonitorFinishScan ==
  ASSUME MonitorInv, Monitor!FinishScan
  PROVE  MonitorInv' /\ MonitorGoesOn /\ MonitorForgets
<1> DEFINE c == [monitorScan.copy EXCEPT !.seen = @ \cup monitorScan.ready]
<1>1. /\ monitorScan.pc = "materialize" /\ monitorScan.todo = {} /\ UNCHANGED monitorPast /\ Monitor!Silent
      /\ \/ monitorCheckpoint' = Monitor!Saved(c)
         \/ monitorScan.page \subseteq c.seen /\ monitorCheckpoint' = Monitor!Saved(Monitor!Advanced(c))
      /\ monitorScan' = Monitor!NoScan
  BY DEF Monitor!FinishScan, Monitor!EndScan
<1>2. MonitorKeep(monitorScan.copy) /\ monitorScan.copy.initialized /\ monitorScan.copy \in Monitor!Checkpoint
  BY <1>1, MonitorKept, MonitorShapes DEF MonitorInv, MonitorPageInv
<1>3. monitorScan.ready \subseteq monitorTasks /\ monitorScan.ready \subseteq Monitor!Key
  BY <1>1, MonitorShapes, MonitorScanType DEF MonitorInv, MonitorSeenInv
<1>4. /\ c \in Monitor!Checkpoint /\ c.seen = monitorScan.copy.seen \cup monitorScan.ready
      /\ c.stability = monitorScan.copy.stability /\ c.initialized /\ c.cursor = monitorScan.copy.cursor
  <2> DEFINE b == monitorScan.copy
             R == [initialized : BOOLEAN, seen : SUBSET Monitor!Key, cursor : {0} \cup Paths,
                   stability : [Paths -> Monitor!Watch], pending : BOOLEAN]
             all == b.seen \cup monitorScan.ready
  <2>1. b \in R /\ b.initialized /\ all \in SUBSET Monitor!Key
    BY <1>2, <1>3, MonitorCheckpointType
  <2>2. c = [b EXCEPT !.seen = all]
    OBVIOUS
  <2> HIDE DEF b, c, all
  <2>3. c \in R /\ c.seen = all /\ c.stability = b.stability /\ c.initialized = b.initialized /\ c.cursor = b.cursor
    BY <2>1, <2>2
  <2> QED BY <2>1, <2>3, MonitorCheckpointType DEF b, all
<1> HIDE DEF c
<1>5. ASSUME NEW d \in Monitor!Checkpoint, d.seen = c.seen, d.stability = c.stability PROVE MonitorKeep(d)
  <2>1. d.seen \subseteq monitorTasks \cup monitorPast.baseline /\ MonitorWaits(d.stability)
    BY <1>2, <1>3, <1>4, <1>5 DEF MonitorKeep
  <2>2. monitorPolicy.newOnly /\ ~monitorPast.crossed => MonitorOldSeen(d)
    BY <1>2, <1>4, <1>5 DEF MonitorKeep, MonitorOldSeen
  <2> QED BY <2>1, <2>2 DEF MonitorKeep
<1>6. MonitorKeep(c) /\ MonitorKeep(Monitor!Advanced(c)) /\ Monitor!Advanced(c).seen = c.seen
  BY <1>4, <1>5, MonitorAdvances DEF MonitorInv
<1>7. PICK d \in {c, Monitor!Advanced(c)} :
        monitorCheckpoint' = Monitor!Saved(d)
        /\ (d.cursor = monitorScan.copy.cursor \/ monitorScan.page \subseteq d.seen)
  BY <1>1, <1>4, <1>6
<1> QED BY <1>1, <1>6, <1>7, MonitorSilent, MonitorEndsKept

LEMMA MonitorFails ==
  ASSUME MonitorInv, Monitor!Fail \/ Monitor!Crash
  PROVE  MonitorInv' /\ MonitorGoesOn /\ MonitorForgets
<1>1. /\ monitorBudget' = [monitorBudget EXCEPT !.faults = @ + 1] /\ monitorBudget.faults < MonitorFaults
      /\ UNCHANGED <<monitorPolicy, monitorOrigin, monitorListing, monitorQuiet, monitorTasks, monitorPast>>
      /\ monitorScan' = Monitor!NoScan
      /\ \/ UNCHANGED monitorCheckpoint
         \/ monitorScan.pc = "materialize" /\ monitorCheckpoint' = Monitor!Saved(monitorScan.copy)
  BY DEF Monitor!Fail, Monitor!Crash
<1>2. /\ monitorBudget' \in [scans : Nat, faults : 0..MonitorFaults, writes : 0..MaxWrites]
      /\ monitorBudget.faults <= monitorBudget'.faults /\ monitorBudget'.writes = monitorBudget.writes
  <2>1. monitorBudget \in [scans : Nat, faults : 0..MonitorFaults, writes : 0..MaxWrites]
    BY MonitorTypes DEF MonitorInv
  <2> QED BY <1>1, <2>1, MonitorPlaces
<1>3. MonitorKeep(monitorCheckpoint) /\ (monitorScan.pc = "materialize" => MonitorKeep(monitorScan.copy))
  BY MonitorKept
<1>4. monitorCheckpoint = Monitor!Saved(monitorCheckpoint)
  BY MonitorShapes, MonitorCheckpointType DEF MonitorInv, Monitor!Saved
<1> QED BY <1>1, <1>2, <1>3, <1>4, MonitorEndsKept

-----------------------------------------------------------------------------
(* A scan begins, and lists a page. *)

LEMMA MonitorBeginScan == ASSUME MonitorInv, Monitor!BeginScan PROVE MonitorInv'
<1> DEFINE held == {Monitor!KeyOf(p) : p \in monitorQuiet \cap Monitor!Present}
<1>1. /\ monitorScan.pc = "idle" /\ monitorCheckpoint' = [monitorCheckpoint EXCEPT !.pending = FALSE]
      /\ monitorScan' = [Monitor!NoScan EXCEPT !.pc = "discover", !.copy = monitorCheckpoint', !.still = held]
      /\ monitorBudget' = [monitorBudget EXCEPT !.scans = @ + 1]
      /\ UNCHANGED <<monitorPolicy, monitorOrigin, monitorListing, monitorQuiet, monitorTasks, monitorPast>>
  BY DEF Monitor!BeginScan
<1>2. held \subseteq Monitor!Key /\ held \subseteq monitorPast.settled
  BY MonitorKeyOfFile DEF MonitorInv, MonitorWaitInv
<1> HIDE DEF held
<1>3. /\ monitorCheckpoint' \in Monitor!Checkpoint
      /\ monitorCheckpoint'.seen = monitorCheckpoint.seen /\ monitorCheckpoint'.stability = monitorCheckpoint.stability
      /\ monitorCheckpoint'.initialized = monitorCheckpoint.initialized
      /\ monitorCheckpoint'.cursor = monitorCheckpoint.cursor
  <2>1. monitorCheckpoint \in Monitor!Checkpoint
    BY MonitorShapes DEF MonitorInv
  <2> QED BY <1>1, <2>1, MonitorPending
<1>4. /\ monitorScan' \in Monitor!Scan /\ monitorScan'.pc = "discover" /\ monitorScan'.copy = monitorCheckpoint'
      /\ monitorScan'.todo = {} /\ monitorScan'.page = {} /\ monitorScan'.still = held /\ monitorScan'.late = FALSE
  <2> DEFINE R == [pc : {"idle", "discover", "decide", "materialize"}, copy : Monitor!Checkpoint,
           still : SUBSET Monitor!Key, page : SUBSET Monitor!Key, more : BOOLEAN, last : {0} \cup Paths,
           todo : SUBSET Monitor!Key, ready : SUBSET Monitor!Key, late : BOOLEAN]
  <2>1. Monitor!NoScan \in R
    BY MonitorNothing, MonitorScanType
  <2>2. /\ monitorScan' \in R /\ monitorScan'.pc = "discover" /\ monitorScan'.copy = monitorCheckpoint'
        /\ monitorScan'.todo = Monitor!NoScan.todo /\ monitorScan'.page = Monitor!NoScan.page
        /\ monitorScan'.still = held /\ monitorScan'.late = Monitor!NoScan.late
    BY <1>1, <1>2, <1>3, <2>1
  <2> QED BY <2>2, MonitorScanType, MonitorNoScan
<1>5. MonitorTypeInv'
  <2>1. /\ monitorBudget' \in [scans : Nat, faults : 0..MonitorFaults, writes : 0..MaxWrites]
        /\ monitorBudget'.faults = monitorBudget.faults /\ monitorBudget'.writes = monitorBudget.writes
    <3>1. monitorBudget \in [scans : Nat, faults : 0..MonitorFaults, writes : 0..MaxWrites]
      BY MonitorTypes DEF MonitorInv
    <3> QED BY <1>1, <3>1
  <2> QED BY <1>1, <1>3, <1>4, <2>1, MonitorTypes, MonitorTyped DEF MonitorInv
<1>6. MonitorSeenInv'
  BY <1>1, <1>3, <1>4 DEF MonitorInv, MonitorSeenInv
<1>7. MonitorPageInv'
  BY <1>1, <1>4 DEF MonitorInv, MonitorPageInv
<1>8. MonitorWaitInv'
  <2> DEFINE w == monitorCheckpoint.stability
  <2>0. MonitorWaits(w)
    BY DEF MonitorInv, MonitorWaitInv
  <2>3. monitorCheckpoint'.stability = w /\ monitorScan'.copy.stability = w
    BY <1>3, <1>4
  <2> HIDE DEF w
  <2>1. MonitorWaits(monitorCheckpoint.stability)' /\ MonitorWaits(monitorScan.copy.stability)'
    BY <1>1, <2>0, <2>3 DEF MonitorWaits, MonitorFuture, MonitorStale
  <2>2. \A p \in monitorQuiet' \cap Monitor!Present' : Monitor!KeyOf(p)' \in monitorPast'.settled
    BY <1>1 DEF MonitorInv, MonitorWaitInv, Monitor!Present, Monitor!KeyOf
  <2> QED BY <1>1, <1>2, <1>4, <2>1, <2>2 DEF MonitorWaitInv
<1>9. MonitorTakenInv'
  BY <1>1, <1>4 DEF MonitorInv, MonitorTakenInv, MonitorWaited
<1>10. MonitorOldInv'
  <2> SUFFICES ASSUME monitorPolicy.newOnly, ~monitorPast.crossed
               PROVE  /\ monitorPast'.old = {<<monitorOrigin', p, 1>> : p \in Paths}
                      /\ MonitorOldSeen(monitorCheckpoint)' /\ MonitorOldSeen(monitorScan.copy)'
                      /\ (monitorTasks' \cup monitorScan'.todo) \cap monitorPast'.old = {}
    BY <1>1, <1>4 DEF MonitorOldInv
  <2>1. /\ monitorPast.old = {<<monitorOrigin, p, 1>> : p \in Paths} /\ MonitorOldSeen(monitorCheckpoint)
        /\ (monitorTasks \cup monitorScan.todo) \cap monitorPast.old = {}
    BY <1>1 DEF MonitorInv, MonitorOldInv
  <2>2. MonitorOldSeen(monitorCheckpoint)' /\ MonitorOldSeen(monitorScan.copy)'
    BY <1>1, <1>3, <1>4, <2>1 DEF MonitorOldSeen, Monitor!KeyOf
  <2> QED BY <1>1, <1>4, <2>1, <2>2
<1> QED BY <1>5, <1>6, <1>7, <1>8, <1>9, <1>10 DEF MonitorInv

LEMMA MonitorOverlap == ASSUME MonitorInv, Monitor!Overlap PROVE MonitorInv'
<1>1. /\ monitorScan.pc = "discover" /\ monitorCheckpoint' = [monitorCheckpoint EXCEPT !.pending = TRUE]
      /\ UNCHANGED <<monitorPolicy, monitorOrigin, monitorListing, monitorQuiet, monitorScan, monitorTasks,
                     monitorPast, monitorBudget>>
  BY DEF Monitor!Overlap
<1>2. /\ monitorCheckpoint' \in Monitor!Checkpoint
      /\ monitorCheckpoint'.seen = monitorCheckpoint.seen /\ monitorCheckpoint'.stability = monitorCheckpoint.stability
      /\ monitorCheckpoint'.initialized = monitorCheckpoint.initialized
      /\ monitorCheckpoint'.cursor = monitorCheckpoint.cursor
  <2>1. monitorCheckpoint \in Monitor!Checkpoint
    BY MonitorShapes DEF MonitorInv
  <2> QED BY <1>1, <2>1, MonitorPending
<1>3. MonitorTypeInv'
  <2>1. monitorScan \in Monitor!Scan
    BY MonitorShapes DEF MonitorInv
  <2> QED BY <1>1, <1>2, <2>1, MonitorTypes, MonitorTyped DEF MonitorInv
<1>4. MonitorSeenInv' /\ MonitorPageInv'
  BY <1>1, <1>2 DEF MonitorInv, MonitorSeenInv, MonitorPageInv
<1>5. MonitorWaitInv'
  <2>1. MonitorWaits(monitorCheckpoint.stability)' /\ MonitorWaits(monitorScan.copy.stability)'
    BY <1>1, <1>2 DEF MonitorInv, MonitorWaitInv, MonitorWaits, MonitorFuture, MonitorStale
  <2>2. \A p \in monitorQuiet' \cap Monitor!Present' : Monitor!KeyOf(p)' \in monitorPast'.settled
    BY <1>1 DEF MonitorInv, MonitorWaitInv, Monitor!Present, Monitor!KeyOf
  <2> QED BY <1>1, <2>1, <2>2 DEF MonitorInv, MonitorWaitInv
<1>6. MonitorTakenInv'
  BY <1>1 DEF MonitorInv, MonitorTakenInv, MonitorWaited
<1>7. MonitorOldInv'
  <2>1. ASSUME monitorPolicy.newOnly, ~monitorPast.crossed
        PROVE  MonitorOldSeen(monitorCheckpoint)' /\ MonitorOldSeen(monitorScan.copy)'
    BY <1>1, <1>2, <2>1 DEF MonitorInv, MonitorOldInv, MonitorOldSeen, Monitor!KeyOf
  <2> QED BY <1>1, <2>1 DEF MonitorInv, MonitorOldInv
<1> QED BY <1>3, <1>4, <1>5, <1>6, <1>7 DEF MonitorInv

\* A page ends with its last path.
LEMMA MonitorLast ==
  ASSUME NEW S \in SUBSET Paths
  PROVE  \E p \in S \cup {0} : \A q \in S : q <= p
<1>1. CASE S = {}
  BY <1>1
<1>2. CASE S # {}
  <2> DEFINE n == Cardinality(Paths)
             Gaps == {n - p : p \in S}
             Less == OpToRel(<, Nat)
  <2>1. n \in Nat /\ S \subseteq 1..n
    BY MonitorPlaces
  <2> HIDE DEF n
  <2>2. Gaps \subseteq Nat /\ Gaps # {}
    <3>1. \A p \in S : n - p \in Nat
      BY <2>1
    <3>2. PICK p \in S : TRUE
      BY <1>2
    <3>3. n - p \in Gaps
      BY <3>2
    <3> QED BY <3>1, <3>3
  <2>3. IsWellFoundedOn(Less, Nat)
    BY NatLessThanWellFounded
  <2> HIDE DEF Less, Gaps
  <2>4. PICK g \in Gaps : \A h \in Gaps : ~(<<h, g>> \in Less)
    BY <2>2, <2>3, WFMin
  <2>5. \A h \in Gaps : ~(h < g)
    BY <2>2, <2>4 DEF Less, OpToRel
  <2>6. PICK p \in S : g = n - p
    BY <2>4 DEF Gaps
  <2>7. ASSUME NEW q \in S PROVE q <= p
    <3>1. n - q \in Gaps
      BY <2>7 DEF Gaps
    <3>2. ~(n - q < n - p)
      BY <2>5, <2>6, <3>1
    <3>3. p \in 1..n /\ q \in 1..n
      BY <2>1, <2>6, <2>7
    <3> QED BY <2>1, <3>2, <3>3
  <2> QED BY <2>6, <2>7
<1> QED BY <1>1, <1>2

\* What a page holds, and what its end says of it.
LEMMA MonitorListed ==
  ASSUME MonitorInv, NEW s, s = Monitor!Listed
  PROVE  /\ s \in Monitor!Scan /\ s.pc = "decide" /\ s.copy = monitorScan.copy /\ s.still = monitorScan.still
         /\ s.todo = monitorScan.todo /\ s.ready = monitorScan.ready /\ s.late = monitorScan.late
         /\ \A k \in s.page : k \in Monitor!Key /\ k[2] \in Monitor!Present /\ k = Monitor!KeyOf(k[2])
         /\ \A p \in Monitor!Present :
              p > monitorScan.copy.cursor /\ (p <= s.last \/ ~s.more) => Monitor!KeyOf(p) \in s.page
<1> DEFINE R == [pc : {"idle", "discover", "decide", "materialize"}, copy : Monitor!Checkpoint,
                 still : SUBSET Monitor!Key, page : SUBSET Monitor!Key, more : BOOLEAN, last : {0} \cup Paths,
                 todo : SUBSET Monitor!Key, ready : SUBSET Monitor!Key, late : BOOLEAN]
           cursor == monitorScan.copy.cursor
           after == {p \in Monitor!Present : p > cursor}
           Before(p) == {q \in after : q < p}
           page == {p \in after : Monitor!Cardinality(Before(p)) < Batch}
           keys == {Monitor!KeyOf(p) : p \in page}
           last == CHOOSE p \in page \cup {0} : \A q \in page : q <= p
           more == page # after
<1>1. MonitorTypeInv /\ monitorScan \in R /\ cursor \in {0} \cup Paths
  BY MonitorShapes, MonitorScanType, MonitorCheckpointType DEF MonitorInv
<1>2. after \subseteq Monitor!Present /\ after \subseteq Paths /\ page \subseteq after
  BY DEF Monitor!Present
<1>3. last \in page \cup {0} /\ \A q \in page : q <= last
  <2> HIDE DEF page
  <2>1. page \in SUBSET Paths
    BY <1>2
  <2>2. \E p \in page \cup {0} : \A q \in page : q <= p
    BY <2>1, MonitorLast
  <2> QED BY <2>2
<1>4. keys \subseteq Monitor!Key /\ \A k \in keys : k[2] \in Monitor!Present /\ k = Monitor!KeyOf(k[2])
  <2> HIDE DEF page
  <2>1. \A p \in page : p \in Monitor!Present
    BY <1>2
  <2> QED BY <1>1, <2>1, MonitorKeyOfFile
<1>5. \A p \in after : p <= last => p \in page
  <2> SUFFICES ASSUME NEW p \in after, p <= last PROVE p \in page
    OBVIOUS
  <2> HIDE DEF last
  <2>1. p \in Nat \ {0} /\ \A q \in after : q \in Nat
    BY <1>2, MonitorPlaces
  <2>2. last \in page
    <3>1. last # 0
      BY <2>1
    <3> QED BY <1>3, <3>1
  <2>3. Monitor!Cardinality(Before(last)) < Batch
    BY <2>2
  <2>4. last \in Nat
    BY <1>2, <2>1, <2>2
  <2> HIDE DEF after
  <2>5. Before(p) \subseteq Before(last)
    <3>1. \A q \in after : q < p => q < last
      <4> HIDE DEF page
      <4> QED BY <2>1, <2>4
    <3> QED BY <3>1
  <2>6. IsFiniteSet(Before(p)) /\ IsFiniteSet(Before(last))
    BY <1>2, MonitorPlaces, FS_Subset
  <2>7. Cardinality(Before(p)) <= Cardinality(Before(last))
    BY <2>5, <2>6, FS_Subset
  <2>8. \A S : Monitor!Cardinality(S) = Cardinality(S)
    BY DEF Monitor!Cardinality, Cardinality
  <2>9. Cardinality(Before(p)) \in Nat /\ Cardinality(Before(last)) \in Nat
    BY <2>6, FS_CardinalityType
  <2>10. Monitor!Cardinality(Before(p)) < Batch
    <3> HIDE DEF Before
    <3> QED BY <2>3, <2>7, <2>8, <2>9, MonitorPlaces
  <2> QED BY <2>10
<1>6. s = [monitorScan EXCEPT !.pc = "decide", !.page = keys, !.more = more, !.last = last]
  BY DEF Monitor!Listed
<1>7. last \in {0} \cup Paths /\ more \in BOOLEAN /\ keys \in SUBSET Monitor!Key
  BY <1>2, <1>3, <1>4
<1> HIDE DEF keys, last, more
<1>8. PICK m \in BOOLEAN : m = more
  BY <1>7
<1>9. /\ s \in R /\ s.pc = "decide" /\ s.copy = monitorScan.copy /\ s.still = monitorScan.still
      /\ s.todo = monitorScan.todo /\ s.ready = monitorScan.ready /\ s.late = monitorScan.late
      /\ s.page = keys /\ s.last = last /\ s.more = m
  <2>1. s = [monitorScan EXCEPT !.pc = "decide", !.page = keys, !.more = m, !.last = last]
    BY <1>6, <1>8
  <2> HIDE DEF page, after
  <2> QED BY <1>1, <1>7, <1>8, <2>1
<1>10. ASSUME NEW p \in Monitor!Present, p > cursor, p <= last \/ ~more
       PROVE  Monitor!KeyOf(p) \in keys
  <2>1. p \in after
    BY <1>10
  <2>2. p \in page
    <3> HIDE DEF page, after
    <3> QED BY <1>5, <1>10, <2>1 DEF more
  <2> QED BY <2>2 DEF keys
<1>11. s \in Monitor!Scan
  BY <1>9, MonitorScanType
<1> HIDE DEF page, after, R
<1>12. \A k \in s.page : k \in Monitor!Key /\ k[2] \in Monitor!Present /\ k = Monitor!KeyOf(k[2])
  BY <1>4, <1>9, <1>7
<1>13. ASSUME NEW p \in Monitor!Present, p > monitorScan.copy.cursor, p <= s.last \/ ~s.more
       PROVE  Monitor!KeyOf(p) \in s.page
  <2>1. p <= last \/ ~more
    BY <1>8, <1>9, <1>13
  <2> QED BY <1>9, <1>10, <1>13, <2>1
<1> QED BY <1>9, <1>11, <1>12, <1>13

\* What waited, on a page that is listed, has been left alone.
LEMMA MonitorListedSettled ==
  ASSUME MonitorInv, ~monitorPast.slow, NEW k \in Monitor!Key, k[2] \in Monitor!Present, k = Monitor!KeyOf(k[2]),
         monitorScan.copy.stability[k[2]] = [key |-> k, waited |-> TRUE]
  PROVE  k \in monitorPast.settled
<1>1. k[2] \in Paths /\ ~MonitorStale(k)
  BY MonitorKeyOfFile DEF MonitorInv
<1>2. MonitorWaits(monitorScan.copy.stability)
  BY DEF MonitorInv, MonitorWaitInv
<1>3. monitorScan.copy.stability[k[2]].key = k /\ monitorScan.copy.stability[k[2]].waited
  OBVIOUS
<1> QED BY <1>1, <1>2, <1>3 DEF MonitorWaits

LEMMA MonitorDiscover == ASSUME MonitorInv, Monitor!Discover PROVE MonitorInv'
<1>1. /\ monitorScan.pc = "discover" /\ monitorScan' = Monitor!Listed
      /\ UNCHANGED <<monitorPolicy, monitorOrigin, monitorListing, monitorQuiet, monitorCheckpoint, monitorTasks,
                     monitorPast, monitorBudget>>
  BY DEF Monitor!Discover
<1>2. /\ monitorScan' \in Monitor!Scan /\ monitorScan'.pc = "decide" /\ monitorScan'.copy = monitorScan.copy
      /\ monitorScan'.still = monitorScan.still /\ monitorScan'.todo = monitorScan.todo
      /\ monitorScan'.ready = monitorScan.ready /\ monitorScan'.late = monitorScan.late
      /\ \A k \in monitorScan'.page : k \in Monitor!Key /\ k[2] \in Monitor!Present /\ k = Monitor!KeyOf(k[2])
      /\ \A p \in Monitor!Present :
              p > monitorScan.copy.cursor /\ (p <= monitorScan'.last \/ ~monitorScan'.more)
              => Monitor!KeyOf(p) \in monitorScan'.page
  BY <1>1, MonitorListed
<1>3. MonitorTypeInv'
  <2>1. monitorCheckpoint \in Monitor!Checkpoint
    BY MonitorShapes DEF MonitorInv
  <2> QED BY <1>1, <1>2, <2>1, MonitorTypes, MonitorTyped DEF MonitorInv
<1>4. MonitorSeenInv'
  BY <1>1, <1>2 DEF MonitorInv, MonitorSeenInv
<1>5. \A k \in monitorScan'.page : ~MonitorFuture(k) /\ k[1] = monitorOrigin
  BY <1>2, MonitorKeyOfFile DEF MonitorInv
<1>6. MonitorPageInv'
  <2>1. \A k \in monitorScan'.page : ~MonitorFuture(k)' /\ k[1] <= monitorOrigin
    BY <1>1, <1>5, MonitorTypes, MonitorPlaces DEF MonitorInv, MonitorFuture
  <2> QED BY <1>1, <1>2, <2>1 DEF MonitorInv, MonitorPageInv
<1>7. MonitorWaitInv'
  <2>1. MonitorWaits(monitorCheckpoint.stability)' /\ MonitorWaits(monitorScan.copy.stability)'
    BY <1>1, <1>2 DEF MonitorInv, MonitorWaitInv, MonitorWaits, MonitorFuture, MonitorStale
  <2>2. \A p \in monitorQuiet' \cap Monitor!Present' : Monitor!KeyOf(p)' \in monitorPast'.settled
    BY <1>1 DEF MonitorInv, MonitorWaitInv, Monitor!Present, Monitor!KeyOf
  <2>3. ASSUME ~monitorPast'.slow, NEW k \in monitorScan'.page,
               monitorScan'.copy.stability[k[2]] = [key |-> k, waited |-> TRUE]
        PROVE  k \in monitorPast'.settled
    BY <1>1, <1>2, <2>3, MonitorListedSettled
  <2> QED BY <1>1, <1>2, <2>1, <2>2, <2>3 DEF MonitorInv, MonitorWaitInv
<1>8. MonitorTakenInv'
  BY <1>1, <1>2 DEF MonitorInv, MonitorTakenInv, MonitorWaited
<1>9. MonitorOldInv'
  <2> SUFFICES ASSUME monitorPolicy.newOnly, ~monitorPast.crossed
               PROVE  /\ monitorPast'.old = {<<monitorOrigin', p, 1>> : p \in Paths}
                      /\ MonitorOldSeen(monitorCheckpoint)' /\ MonitorOldSeen(monitorScan.copy)'
                      /\ \A k \in monitorScan'.page : k = Monitor!KeyOf(k[2])'
                      /\ \A p \in Monitor!Present' :
                           p > monitorScan'.copy.cursor /\ (p <= monitorScan'.last \/ ~monitorScan'.more)
                           => Monitor!KeyOf(p)' \in monitorScan'.page
                      /\ (monitorTasks' \cup monitorScan'.todo) \cap monitorPast'.old = {}
    BY <1>1, <1>2 DEF MonitorOldInv
  <2>1. /\ monitorPast.old = {<<monitorOrigin, p, 1>> : p \in Paths} /\ MonitorOldSeen(monitorCheckpoint)
        /\ (monitorTasks \cup monitorScan.todo) \cap monitorPast.old = {} /\ MonitorOldSeen(monitorScan.copy)
    BY <1>1 DEF MonitorInv, MonitorOldInv
  <2>2. MonitorOldSeen(monitorCheckpoint)' /\ MonitorOldSeen(monitorScan.copy)'
    BY <1>1, <1>2, <2>1 DEF MonitorOldSeen, Monitor!KeyOf
  <2>3. Monitor!Present' = Monitor!Present /\ \A p : Monitor!KeyOf(p)' = Monitor!KeyOf(p)
    BY <1>1 DEF Monitor!Present, Monitor!KeyOf
  <2> QED BY <1>1, <1>2, <2>1, <2>2, <2>3
<1> QED BY <1>3, <1>4, <1>6, <1>7, <1>8, <1>9 DEF MonitorInv

-----------------------------------------------------------------------------
(* The others. *)

\* The source is another one.
LEMMA MonitorEdits == ASSUME MonitorInv, Monitor!Edit PROVE MonitorInv'
<1> DEFINE fresh == {<<monitorOrigin', p, 1>> : p \in Paths}
           crossed == monitorPast.crossed \/ monitorScan.pc # "idle"
<1>1. /\ monitorScan.pc \in {"idle", "discover"} /\ monitorBudget.faults < MonitorFaults
      /\ monitorOrigin' = monitorOrigin + 1 /\ monitorListing' = [p \in Paths |-> 1] /\ monitorQuiet' = Paths
      /\ monitorCheckpoint' = Monitor!NoCheckpoint
      /\ monitorPast' = [monitorPast EXCEPT !.old = fresh, !.settled = @ \cup fresh, !.crossed = crossed]
      /\ monitorScan' = IF monitorScan.pc = "idle" THEN monitorScan ELSE Monitor!Listed
      /\ monitorBudget' = [monitorBudget EXCEPT !.faults = @ + 1]
      /\ UNCHANGED <<monitorPolicy, monitorTasks>>
  BY DEF Monitor!Edit, Monitor!Free, Monitor!Full
<1>2. /\ monitorBudget' \in [scans : Nat, faults : 0..MonitorFaults, writes : 0..MaxWrites]
      /\ monitorBudget'.faults = monitorBudget.faults + 1 /\ monitorBudget'.writes = monitorBudget.writes
      /\ monitorOrigin \in 0..MonitorFaults /\ monitorOrigin' \in 0..MonitorFaults
      /\ monitorOrigin' <= monitorBudget'.faults
  <2>1. /\ monitorBudget \in [scans : Nat, faults : 0..MonitorFaults, writes : 0..MaxWrites]
        /\ monitorOrigin \in 0..MonitorFaults /\ monitorOrigin <= monitorBudget.faults
    BY MonitorTypes DEF MonitorInv
  <2> QED BY <1>1, <2>1, MonitorPlaces
<1>3. fresh \subseteq Monitor!Key
  <2>1. 1 \in 1..MaxWrites + 1
    BY MonitorPlaces
  <2> QED BY <1>2, <2>1, MonitorKeys
<1>4. /\ monitorPast' \in [old : SUBSET Monitor!Key, baseline : SUBSET Monitor!Key, settled : SUBSET Monitor!Key,
                           crossed : BOOLEAN, slow : BOOLEAN]
      /\ monitorPast'.old = fresh /\ monitorPast'.settled = monitorPast.settled \cup fresh
      /\ monitorPast'.slow = monitorPast.slow /\ monitorPast'.baseline = monitorPast.baseline
      /\ (monitorPast'.crossed <=> crossed)
  <2> DEFINE P == [old : SUBSET Monitor!Key, baseline : SUBSET Monitor!Key, settled : SUBSET Monitor!Key,
                   crossed : BOOLEAN, slow : BOOLEAN]
             all == monitorPast.settled \cup fresh
  <2>1. monitorPast \in P /\ all \in SUBSET Monitor!Key
    BY <1>3, MonitorTypes DEF MonitorInv
  <2>2. PICK x \in BOOLEAN : x = crossed
    OBVIOUS
  <2>3. monitorPast' = [monitorPast EXCEPT !.old = fresh, !.settled = all, !.crossed = x]
    BY <1>1, <2>2
  <2> HIDE DEF fresh, all, crossed
  <2>4. /\ monitorPast' \in P /\ monitorPast'.old = fresh /\ monitorPast'.settled = all
        /\ monitorPast'.slow = monitorPast.slow /\ monitorPast'.baseline = monitorPast.baseline
        /\ monitorPast'.crossed = x
    BY <1>3, <2>1, <2>2, <2>3
  <2> QED BY <2>2, <2>4 DEF all
<1>5. /\ monitorScan' \in Monitor!Scan /\ monitorScan'.pc \in {"idle", "decide"} /\ monitorScan'.copy = monitorScan.copy
      /\ monitorScan'.still = monitorScan.still /\ monitorScan'.todo = monitorScan.todo
      /\ monitorScan'.late = monitorScan.late
      /\ monitorScan'.pc = "idle" => monitorScan' = monitorScan /\ monitorScan.pc = "idle"
      /\ monitorScan'.pc = "decide" =>
           \A k \in monitorScan'.page : k \in Monitor!Key /\ k[2] \in Monitor!Present /\ k = Monitor!KeyOf(k[2])
  <2>1. CASE monitorScan.pc = "idle"
    <3>1. monitorScan' = monitorScan /\ monitorScan \in Monitor!Scan
      BY <1>1, <2>1, MonitorShapes DEF MonitorInv
    <3> QED BY <2>1, <3>1
  <2>2. CASE monitorScan.pc # "idle"
    <3>1. monitorScan' = Monitor!Listed
      BY <1>1, <2>2
    <3> QED BY <3>1, MonitorListed
  <2> QED BY <2>1, <2>2
<1>6. \A k : k[1] <= monitorOrigin /\ k \in Monitor!Key => MonitorStale(k)' /\ ~MonitorFuture(k)' /\ k[1] < monitorOrigin'
  BY <1>1, <1>2, MonitorKeys, MonitorPlaces DEF MonitorStale, MonitorFuture
<1>7. \A k \in Monitor!Key : ~MonitorFuture(k) => k[1] <= monitorOrigin
  BY <1>2, MonitorKeys, MonitorPlaces DEF MonitorFuture
<1>8. MonitorTypeInv'
  <2>1. /\ monitorCheckpoint' \in Monitor!Checkpoint /\ monitorQuiet' \subseteq Paths
           /\ monitorTasks' \subseteq Monitor!Key
        /\ monitorListing' \in [Paths -> 0..MaxWrites + 1]
    BY <1>1, MonitorNothing, MonitorTypes, MonitorPlaces DEF MonitorInv
  <2>2. \A p \in Paths : 1 <= monitorListing'[p] /\ monitorListing'[p] <= 1 + monitorBudget'.writes
    BY <1>1, <1>2, MonitorPlaces
  <2> QED BY <1>1, <1>2, <1>4, <1>5, <2>1, <2>2, MonitorTypes, MonitorTyped DEF MonitorInv
<1>9. MonitorSeenInv'
  BY <1>1, <1>4, <1>5, MonitorNoScan DEF MonitorInv, MonitorSeenInv
<1>10. MonitorPageInv'
  <2>1. \A k \in monitorScan'.page : k[1] <= monitorOrigin' /\ (monitorScan'.pc = "decide" => ~MonitorFuture(k)')
    <3>1. CASE monitorScan'.pc = "idle"
      BY <1>5, <3>1, MonitorNoScan DEF MonitorInv, MonitorPageInv
    <3>2. CASE monitorScan'.pc = "decide"
      <4> SUFFICES ASSUME NEW k \in monitorScan'.page PROVE k[1] <= monitorOrigin' /\ ~MonitorFuture(k)'
        OBVIOUS
      <4>1. k \in Monitor!Key /\ k[1] = monitorOrigin
        BY <1>5, <3>2, MonitorKeyOfFile DEF MonitorInv
      <4> QED BY <1>1, <1>2, <1>6, <4>1, MonitorPlaces
    <3> QED BY <1>5, <3>1, <3>2
  <2>2. \A k \in monitorScan'.todo \cup monitorTasks' : k[1] <= monitorOrigin'
    <3> SUFFICES ASSUME NEW k \in monitorScan.todo \cup monitorTasks PROVE k[1] <= monitorOrigin'
      BY <1>1, <1>5
    <3>1. k \in Monitor!Key
      BY MonitorTypes, MonitorShapes, MonitorScanType DEF MonitorInv
    <3>2. k[1] <= monitorOrigin /\ k[1] \in 0..MonitorFaults
      BY <3>1, MonitorKeys DEF MonitorInv, MonitorPageInv
    <3> QED BY <1>1, <1>2, <3>2, MonitorPlaces
  <2> QED BY <1>5, <2>1, <2>2 DEF MonitorInv, MonitorPageInv
<1>11. MonitorWaitInv'
  <2>1. MonitorWaits(monitorCheckpoint.stability)'
    <3>1. monitorCheckpoint'.stability = Monitor!Unwatched
      BY <1>1, MonitorNoScan
    <3>2. \A p \in Paths : monitorCheckpoint'.stability[p].key \notin Monitor!Key
      BY <3>1, MonitorNothing, MonitorKeys DEF Monitor!NoWatch
    <3> QED BY <3>2 DEF MonitorWaits
  <2>2. MonitorWaits(monitorScan.copy.stability)'
    <3>0. PICK w : w = monitorScan.copy.stability
      OBVIOUS
    <3>1. MonitorWaits(w) /\ monitorScan'.copy.stability = w
      BY <1>5, <3>0 DEF MonitorInv, MonitorWaitInv
    <3>2. \A p \in Paths : w[p].key \in Monitor!Key => ~MonitorFuture(w[p].key)' /\ MonitorStale(w[p].key)'
      <4> SUFFICES ASSUME NEW p \in Paths, NEW k \in Monitor!Key, k = w[p].key
                   PROVE  ~MonitorFuture(k)' /\ MonitorStale(k)'
        BY <3>1 DEF MonitorFuture, MonitorStale
      <4>1. k[1] <= monitorOrigin
        BY <1>7, <3>1 DEF MonitorWaits
      <4> QED BY <1>6, <4>1
    <3> QED BY <3>1, <3>2 DEF MonitorWaits, MonitorFuture, MonitorStale
  <2>3. \A p \in monitorQuiet' \cap Monitor!Present' : Monitor!KeyOf(p)' \in monitorPast'.settled
    BY <1>1, <1>4 DEF Monitor!Present, Monitor!KeyOf
  <2>4. ASSUME monitorScan'.pc = "decide", ~monitorPast'.slow, NEW k \in monitorScan'.page,
               monitorScan'.copy.stability[k[2]] = [key |-> k, waited |-> TRUE]
        PROVE  k \in monitorPast'.settled
    <3>1. k \in monitorPast.settled
      BY <1>4, <1>5, <2>4, MonitorListedSettled
    <3> QED BY <1>4, <3>1
  <2> QED BY <1>4, <1>5, <2>1, <2>2, <2>3, <2>4 DEF MonitorInv, MonitorWaitInv
<1>12. MonitorTakenInv'
  BY <1>1, <1>4, <1>5 DEF MonitorInv, MonitorTakenInv, MonitorWaited
<1>13. MonitorOldInv'
  <2> SUFFICES ASSUME ~crossed
               PROVE  /\ MonitorOldSeen(monitorCheckpoint)'
                      /\ monitorScan'.pc = "idle"
                      /\ (monitorTasks' \cup monitorScan'.todo) \cap fresh = {}
    BY <1>4 DEF MonitorOldInv
  <2>1. monitorScan.pc = "idle" /\ monitorScan' = monitorScan /\ monitorScan'.todo = {}
    BY <1>1, MonitorNoScan DEF MonitorInv, MonitorPageInv
  <2>2. MonitorOldSeen(monitorCheckpoint)'
    <3>1. monitorCheckpoint'.initialized = FALSE /\ monitorCheckpoint'.cursor = 0
      BY <1>1, MonitorNoScan
    <3> QED BY <3>1, MonitorPlaces DEF MonitorOldSeen
  <2>3. ASSUME NEW k \in monitorTasks, k \in fresh PROVE FALSE
    <3>1. k[1] = monitorOrigin' /\ k \in Monitor!Key
      BY <1>3, <2>3
    <3>2. k[1] <= monitorOrigin
      BY DEF MonitorInv, MonitorPageInv
    <3> QED BY <1>1, <1>2, <3>1, <3>2
  <2> QED BY <1>1, <2>1, <2>2, <2>3
<1> QED BY <1>8, <1>9, <1>10, <1>11, <1>12, <1>13 DEF MonitorInv

LEMMA MonitorWrites == ASSUME MonitorInv, NEW f \in Paths, Monitor!Write(f) PROVE MonitorInv'
<1>1. /\ monitorScan.pc \in {"idle", "discover"} /\ monitorBudget.writes < MaxWrites
      /\ monitorListing' = [monitorListing EXCEPT ![f] = @ + 1] /\ monitorQuiet' = monitorQuiet \ {f}
      /\ monitorBudget' = [monitorBudget EXCEPT !.writes = @ + 1]
      /\ UNCHANGED <<monitorPolicy, monitorOrigin, monitorCheckpoint, monitorScan, monitorTasks, monitorPast>>
  BY DEF Monitor!Write
<1>2. /\ monitorListing \in [Paths -> 0..MaxWrites + 1] /\ monitorOrigin \in 0..MonitorFaults
      /\ \A p \in Paths : 1 <= monitorListing[p] /\ monitorListing[p] <= 1 + monitorBudget.writes
      /\ monitorBudget \in [scans : Nat, faults : 0..MonitorFaults, writes : 0..MaxWrites]
  BY MonitorTypes DEF MonitorInv
<1>3. /\ monitorBudget' \in [scans : Nat, faults : 0..MonitorFaults, writes : 0..MaxWrites]
      /\ monitorBudget'.faults = monitorBudget.faults /\ monitorBudget'.writes = monitorBudget.writes + 1
  BY <1>1, <1>2, MonitorPlaces
<1>4. /\ monitorListing' \in [Paths -> 0..MaxWrites + 1] /\ monitorListing'[f] = monitorListing[f] + 1
      /\ \A p \in Paths : p # f => monitorListing'[p] = monitorListing[p]
      /\ \A p \in Paths : monitorListing[p] <= monitorListing'[p]
      /\ \A p \in Paths : 1 <= monitorListing'[p] /\ monitorListing'[p] <= 1 + monitorBudget'.writes
  <2>1. monitorListing[f] + 1 \in 0..MaxWrites + 1
    BY <1>1, <1>2, MonitorPlaces
  <2>2. /\ monitorListing' \in [Paths -> 0..MaxWrites + 1] /\ monitorListing'[f] = monitorListing[f] + 1
        /\ \A p \in Paths : p # f => monitorListing'[p] = monitorListing[p]
    BY <1>1, <1>2, <2>1
  <2>3. \A p \in Paths : monitorListing[p] \in Nat
    BY <1>2, MonitorPlaces
  <2>4. monitorBudget.writes \in Nat
    BY <1>2, MonitorPlaces
  <2> QED BY <1>2, <1>3, <2>2, <2>3, <2>4
<1>5. MonitorTypeInv'
  <2>1. monitorCheckpoint \in Monitor!Checkpoint /\ monitorScan \in Monitor!Scan
    BY MonitorShapes DEF MonitorInv
  <2>2. monitorQuiet' \subseteq Paths
    BY <1>1, MonitorTypes DEF MonitorInv
  <2> QED BY <1>1, <1>3, <1>4, <2>1, <2>2, MonitorTypes, MonitorTyped DEF MonitorInv
<1>6. \A k \in Monitor!Key : (~MonitorFuture(k) => ~MonitorFuture(k)') /\ (MonitorStale(k) => MonitorStale(k)')
  <2> SUFFICES ASSUME NEW k \in Monitor!Key
               PROVE  (~MonitorFuture(k) => ~MonitorFuture(k)') /\ (MonitorStale(k) => MonitorStale(k)')
    OBVIOUS
  <2>1. k[2] \in Paths /\ k[3] \in Nat
    BY MonitorKeys, MonitorPlaces
  <2>2. monitorListing[k[2]] \in Nat /\ monitorListing'[k[2]] \in Nat /\ monitorListing[k[2]] <= monitorListing'[k[2]]
    BY <1>2, <1>4, <2>1, MonitorPlaces
  <2> QED BY <1>1, <2>1, <2>2 DEF MonitorFuture, MonitorStale
<1>7. MonitorSeenInv'
  BY <1>1 DEF MonitorInv, MonitorSeenInv
<1>8. MonitorPageInv'
  BY <1>1 DEF MonitorInv, MonitorPageInv
<1>9. MonitorWaitInv'
  <2>1. ASSUME NEW w, MonitorWaits(w) PROVE MonitorWaits(w)'
    BY <1>1, <1>6, <2>1 DEF MonitorWaits
  <2>2. MonitorWaits(monitorCheckpoint.stability)'
    <3>1. PICK w : w = monitorCheckpoint.stability
      OBVIOUS
    <3>2. MonitorWaits(w)'
      BY <2>1, <3>1 DEF MonitorInv, MonitorWaitInv
    <3> QED BY <1>1, <3>1, <3>2 DEF MonitorWaits
  <2>3. MonitorWaits(monitorScan.copy.stability)'
    <3>1. PICK w : w = monitorScan.copy.stability
      OBVIOUS
    <3>2. MonitorWaits(w)'
      BY <2>1, <3>1 DEF MonitorInv, MonitorWaitInv
    <3> QED BY <1>1, <3>1, <3>2 DEF MonitorWaits
  <2>4. \A p \in monitorQuiet' \cap Monitor!Present' : Monitor!KeyOf(p)' \in monitorPast'.settled
    <3> SUFFICES ASSUME NEW p \in monitorQuiet, p # f, p \in Paths, monitorListing'[p] > 0
                 PROVE  <<monitorOrigin, p, monitorListing'[p]>> \in monitorPast.settled
      BY <1>1 DEF Monitor!Present, Monitor!KeyOf
    <3>1. monitorListing'[p] = monitorListing[p] /\ p \in monitorQuiet \cap Monitor!Present
      BY <1>4 DEF Monitor!Present
    <3> QED BY <3>1 DEF MonitorInv, MonitorWaitInv, Monitor!KeyOf
  <2> QED BY <1>1, <2>2, <2>3, <2>4 DEF MonitorInv, MonitorWaitInv
<1>10. MonitorTakenInv'
  BY <1>1 DEF MonitorInv, MonitorTakenInv, MonitorWaited
<1>11. MonitorOldInv'
  <2> SUFFICES ASSUME monitorPolicy.newOnly, ~monitorPast.crossed
               PROVE  /\ MonitorOldSeen(monitorCheckpoint)'
                      /\ monitorScan.pc # "idle" => MonitorOldSeen(monitorScan.copy)'
    BY <1>1 DEF MonitorInv, MonitorOldInv
  <2>1. \A p \in Paths : monitorListing'[p] = 1 => monitorListing[p] = 1 /\ Monitor!KeyOf(p)' = Monitor!KeyOf(p)
    <3> SUFFICES ASSUME NEW p \in Paths, monitorListing'[p] = 1
                 PROVE  monitorListing[p] = 1 /\ Monitor!KeyOf(p)' = Monitor!KeyOf(p)
      OBVIOUS
    <3>1. p # f
      BY <1>2, <1>4, MonitorPlaces
    <3> QED BY <1>1, <1>4, <3>1 DEF Monitor!KeyOf
  <2>2. MonitorOldSeen(monitorCheckpoint) /\ (monitorScan.pc # "idle" => MonitorOldSeen(monitorScan.copy))
    BY DEF MonitorInv, MonitorOldInv
  <2> QED BY <1>1, <2>1, <2>2 DEF MonitorOldSeen
<1> QED BY <1>5, <1>7, <1>8, <1>9, <1>10, <1>11 DEF MonitorInv

LEMMA MonitorTimes == ASSUME MonitorInv, Monitor!TimePasses PROVE MonitorInv'
<1> DEFINE now == {Monitor!KeyOf(p) : p \in Monitor!Present}
           busy == monitorScan.pc # "idle"
           S == monitorCheckpoint.stability
           over == [p \in Paths |-> [S[p] EXCEPT !.waited = @ \/ S[p] # Monitor!NoWatch]]
<1>1. /\ monitorScan.pc \in {"idle", "discover"} /\ monitorQuiet' = Paths
      /\ monitorPast' = [monitorPast EXCEPT !.settled = @ \cup now, !.slow = @ \/ busy]
      /\ monitorScan' = [monitorScan EXCEPT !.late = busy]
      /\ monitorCheckpoint' = [monitorCheckpoint EXCEPT !.stability = over]
      /\ UNCHANGED <<monitorPolicy, monitorOrigin, monitorListing, monitorTasks, monitorBudget>>
  <2>1. monitorScan.pc \in {"idle", "discover"} /\ monitorQuiet' = Paths
    BY DEF Monitor!TimePasses, Monitor!Free
  <2>2. monitorPast' = [monitorPast EXCEPT !.settled = @ \cup now, !.slow = @ \/ busy]
    BY DEF Monitor!TimePasses
  <2>3. monitorScan' = [monitorScan EXCEPT !.late = busy]
    BY DEF Monitor!TimePasses
  <2>4. monitorCheckpoint' = [monitorCheckpoint EXCEPT !.stability = over]
    BY DEF Monitor!TimePasses
  <2>5. UNCHANGED <<monitorPolicy, monitorOrigin, monitorListing, monitorTasks, monitorBudget>>
    BY DEF Monitor!TimePasses
  <2> QED BY <2>1, <2>2, <2>3, <2>4, <2>5
<1>2. now \subseteq Monitor!Key
  BY MonitorKeyOfFile DEF MonitorInv
<1>3. S \in [Paths -> Monitor!Watch] /\ over \in [Paths -> Monitor!Watch] /\ \A p \in Paths : over[p].key = S[p].key
  <2>1. S \in [Paths -> Monitor!Watch]
    BY MonitorShapes, MonitorCheckpointType DEF MonitorInv
  <2> HIDE DEF S
  <2>2. ASSUME NEW p \in Paths PROVE over[p] \in Monitor!Watch /\ over[p].key = S[p].key
    <3>1. PICK x \in BOOLEAN : x = (S[p].waited \/ S[p] # Monitor!NoWatch)
      OBVIOUS
    <3>2. over[p] = [S[p] EXCEPT !.waited = x]
      BY <3>1
    <3> HIDE DEF over
    <3>3. S[p] \in [key : Monitor!Key \cup {Monitor!NoKey}, waited : BOOLEAN]
      BY <2>1 DEF Monitor!Watch
    <3> QED BY <3>1, <3>2, <3>3 DEF Monitor!Watch
  <2> QED BY <2>1, <2>2
<1> HIDE DEF now, over
<1>4. /\ monitorPast' \in [old : SUBSET Monitor!Key, baseline : SUBSET Monitor!Key, settled : SUBSET Monitor!Key,
                           crossed : BOOLEAN, slow : BOOLEAN]
      /\ monitorPast'.settled = monitorPast.settled \cup now /\ monitorPast'.crossed = monitorPast.crossed
      /\ (monitorPast'.slow <=> monitorPast.slow \/ busy)
      /\ monitorPast'.old = monitorPast.old /\ monitorPast'.baseline = monitorPast.baseline
  <2> DEFINE P == [old : SUBSET Monitor!Key, baseline : SUBSET Monitor!Key, settled : SUBSET Monitor!Key,
                   crossed : BOOLEAN, slow : BOOLEAN]
             all == monitorPast.settled \cup now
  <2>1. monitorPast \in P /\ all \in SUBSET Monitor!Key
    BY <1>2, MonitorTypes DEF MonitorInv
  <2>2. PICK x \in BOOLEAN : x = (monitorPast.slow \/ busy)
    OBVIOUS
  <2>3. monitorPast' = [monitorPast EXCEPT !.settled = all, !.slow = x]
    BY <1>1, <2>2
  <2> HIDE DEF all, busy
  <2>4. /\ monitorPast' \in P /\ monitorPast'.old = monitorPast.old /\ monitorPast'.settled = all
        /\ monitorPast'.slow = x /\ monitorPast'.baseline = monitorPast.baseline
        /\ monitorPast'.crossed = monitorPast.crossed
    BY <2>1, <2>2, <2>3
  <2> QED BY <2>2, <2>4 DEF all
<1>5. /\ monitorScan' \in Monitor!Scan /\ monitorScan'.pc = monitorScan.pc /\ monitorScan'.copy = monitorScan.copy
      /\ monitorScan'.still = monitorScan.still /\ monitorScan'.todo = monitorScan.todo
      /\ monitorScan'.page = monitorScan.page /\ (monitorScan'.late <=> busy)
  <2> DEFINE R == [pc : {"idle", "discover", "decide", "materialize"}, copy : Monitor!Checkpoint,
           still : SUBSET Monitor!Key, page : SUBSET Monitor!Key, more : BOOLEAN, last : {0} \cup Paths,
           todo : SUBSET Monitor!Key, ready : SUBSET Monitor!Key, late : BOOLEAN]
  <2>1. monitorScan \in R
    BY MonitorShapes, MonitorScanType DEF MonitorInv
  <2>2. PICK x \in BOOLEAN : x = busy
    OBVIOUS
  <2>3. monitorScan' = [monitorScan EXCEPT !.late = x]
    BY <1>1, <2>2
  <2> HIDE DEF busy
  <2>4. /\ monitorScan' \in R /\ monitorScan'.pc = monitorScan.pc /\ monitorScan'.copy = monitorScan.copy
        /\ monitorScan'.still = monitorScan.still /\ monitorScan'.todo = monitorScan.todo
        /\ monitorScan'.page = monitorScan.page /\ monitorScan'.late = x
    BY <2>1, <2>2, <2>3
  <2> QED BY <2>2, <2>4, MonitorScanType
<1>6. monitorScan.pc = "idle" => monitorScan' = monitorScan
  <2> SUFFICES ASSUME monitorScan.pc = "idle" PROVE monitorScan' = Monitor!NoScan /\ monitorScan = Monitor!NoScan
    OBVIOUS
  <2>1. monitorScan = Monitor!NoScan
    BY DEF MonitorInv, MonitorPageInv
  <2>2. PICK x \in BOOLEAN : x = Monitor!NoScan.late /\ x = busy
    BY MonitorNoScan
  <2>3. monitorScan' = [Monitor!NoScan EXCEPT !.late = x]
    BY <1>1, <2>1, <2>2
  <2>4. [Monitor!NoScan EXCEPT !.late = x] = Monitor!NoScan
    <3> DEFINE R == [pc : {"idle", "discover", "decide", "materialize"}, copy : Monitor!Checkpoint,
           still : SUBSET Monitor!Key, page : SUBSET Monitor!Key, more : BOOLEAN, last : {0} \cup Paths,
           todo : SUBSET Monitor!Key, ready : SUBSET Monitor!Key, late : BOOLEAN]
    <3>1. \A r \in R : [r EXCEPT !.late = r.late] = r
      OBVIOUS
    <3>2. Monitor!NoScan \in R
      BY MonitorNothing, MonitorScanType
    <3> HIDE DEF R
    <3> QED BY <2>2, <3>1, <3>2
  <2> QED BY <2>1, <2>3, <2>4
<1>7. /\ monitorCheckpoint' \in Monitor!Checkpoint /\ monitorCheckpoint'.seen = monitorCheckpoint.seen
      /\ monitorCheckpoint'.stability = over /\ monitorCheckpoint'.initialized = monitorCheckpoint.initialized
      /\ monitorCheckpoint'.cursor = monitorCheckpoint.cursor
  <2> DEFINE R == [initialized : BOOLEAN, seen : SUBSET Monitor!Key, cursor : {0} \cup Paths,
                   stability : [Paths -> Monitor!Watch], pending : BOOLEAN]
  <2>1. monitorCheckpoint \in R
    BY MonitorShapes, MonitorCheckpointType DEF MonitorInv
  <2>2. /\ monitorCheckpoint' \in R /\ monitorCheckpoint'.seen = monitorCheckpoint.seen
      /\ monitorCheckpoint'.stability = over /\ monitorCheckpoint'.initialized = monitorCheckpoint.initialized
      /\ monitorCheckpoint'.cursor = monitorCheckpoint.cursor
    BY <1>1, <1>3, <2>1
  <2> QED BY <2>2, MonitorCheckpointType
<1>8. MonitorTypeInv'
  BY <1>1, <1>4, <1>5, <1>7, MonitorTypes, MonitorTyped DEF MonitorInv
<1>9. MonitorSeenInv'
  BY <1>1, <1>4, <1>5, <1>7 DEF MonitorInv, MonitorSeenInv
<1>10. MonitorPageInv'
  BY <1>1, <1>5, <1>6 DEF MonitorInv, MonitorPageInv
<1>11. MonitorWaitInv'
  <2>1. MonitorWaits(monitorCheckpoint.stability)'
    <3> SUFFICES ASSUME NEW p \in Paths, NEW k \in Monitor!Key, k = S[p].key
                 PROVE  /\ ~MonitorFuture(k)' /\ (k \in monitorPast'.settled \/ MonitorStale(k)')
      <4>1. \A p \in Paths : monitorCheckpoint'.stability[p].key = S[p].key
        BY <1>3, <1>7
      <4> HIDE DEF S
      <4> QED BY <4>1 DEF MonitorWaits, MonitorFuture, MonitorStale
    <3>1. ~MonitorFuture(k)
      BY DEF MonitorInv, MonitorWaitInv, MonitorWaits
    <3>2. k \in now \/ MonitorStale(k)
      BY <3>1, MonitorCurrent DEF now, MonitorInv
    <3> QED BY <1>1, <1>4, <3>1, <3>2 DEF MonitorFuture, MonitorStale
  <2>2. MonitorWaits(monitorScan.copy.stability)'
    <3>1. PICK w : w = monitorScan.copy.stability
      OBVIOUS
    <3>2. MonitorWaits(w)
      BY <3>1 DEF MonitorInv, MonitorWaitInv
    <3>3. MonitorWaits(w)'
      BY <1>1, <1>4, <3>2, MonitorWaitsStay
    <3> QED BY <1>5, <3>1, <3>3 DEF MonitorWaits
  <2>3. \A p \in monitorQuiet' \cap Monitor!Present' : Monitor!KeyOf(p)' \in monitorPast'.settled
    BY <1>1, <1>4 DEF now, Monitor!Present, Monitor!KeyOf
  <2> QED BY <1>1, <1>4, <1>5, <2>1, <2>2, <2>3 DEF MonitorInv, MonitorWaitInv
<1>12. MonitorTakenInv'
  BY <1>1, <1>4, <1>5 DEF MonitorInv, MonitorTakenInv, MonitorWaited
<1>13. MonitorOldInv'
  <2>1. ASSUME monitorPolicy.newOnly, ~monitorPast.crossed
        PROVE  /\ MonitorOldSeen(monitorCheckpoint)'
               /\ monitorScan.pc # "idle" => MonitorOldSeen(monitorScan.copy)'
    BY <1>1, <1>5, <1>7, <2>1 DEF MonitorInv, MonitorOldInv, MonitorOldSeen, Monitor!KeyOf
  <2> QED BY <1>1, <1>4, <1>5, <2>1 DEF MonitorInv, MonitorOldInv
<1> QED BY <1>8, <1>9, <1>10, <1>11, <1>12, <1>13 DEF MonitorInv

-----------------------------------------------------------------------------
(* The invariant and what it shows. *)

LEMMA MonitorBeginning == Monitor!Init => MonitorInv
<1> SUFFICES ASSUME Monitor!Init PROVE MonitorInv
  OBVIOUS
<1> DEFINE first == {<<0, p, 1>> : p \in Paths}
<1>1. /\ monitorPolicy \in [newOnly : BOOLEAN, debounce : BOOLEAN, stability : BOOLEAN]
      /\ monitorOrigin = 0 /\ monitorListing = [p \in Paths |-> 1] /\ monitorQuiet = Paths
      /\ monitorCheckpoint = Monitor!NoCheckpoint /\ monitorScan = Monitor!NoScan /\ monitorTasks = {}
      /\ monitorPast = [old |-> first, baseline |-> {}, settled |-> first, crossed |-> FALSE, slow |-> FALSE]
      /\ monitorBudget = [scans |-> 0, faults |-> 0, writes |-> 0]
  BY DEF Monitor!Init, Monitor!Full
<1>2. first \subseteq Monitor!Key
  BY MonitorKeys, MonitorPlaces
<1>3. \A p \in Paths : Monitor!KeyOf(p) \in first
  BY <1>1 DEF Monitor!KeyOf
<1> HIDE DEF first
<1>4. /\ monitorPast \in Monitor!Past /\ monitorPast.old = first /\ monitorPast.settled = first
      /\ monitorPast.baseline = {}
  BY <1>1, <1>2 DEF Monitor!Past
<1>5. MonitorTypeInv
  <2>1. monitorListing \in [Paths -> 0..MaxWrites + 1] /\ \A p \in Paths : monitorListing[p] = 1
    BY <1>1, MonitorPlaces
  <2>2. /\ monitorBudget \in [scans : Nat, faults : 0..MonitorFaults, writes : 0..MaxWrites]
        /\ monitorBudget.faults = 0 /\ monitorBudget.writes = 0
    BY <1>1, MonitorPlaces
  <2>3. monitorOrigin \in 0..MonitorFaults
    BY <1>1, MonitorPlaces
  <2>4. Monitor!TypeOK
    BY <1>1, <1>4, <2>1, <2>3, MonitorNothing DEF Monitor!TypeOK
  <2> QED BY <1>1, <2>1, <2>2, <2>4 DEF MonitorTypeInv
<1>6. MonitorSeenInv /\ MonitorPageInv
  BY <1>1, MonitorNoScan DEF MonitorSeenInv, MonitorPageInv
<1>7. MonitorWaitInv
  <2>1. MonitorWaits(monitorCheckpoint.stability) /\ MonitorWaits(monitorScan.copy.stability)
    BY <1>1, MonitorNoScan, MonitorUnwatched
  <2>2. \A p \in monitorQuiet \cap Monitor!Present : Monitor!KeyOf(p) \in monitorPast.settled
    BY <1>1, <1>3, <1>4
  <2> QED BY <1>1, <2>1, <2>2, MonitorNoScan DEF MonitorWaitInv
<1>8. MonitorTakenInv
  BY <1>1, MonitorNoScan DEF MonitorTakenInv
<1>9. MonitorOldInv
  <2>1. MonitorOldSeen(monitorCheckpoint)
    BY <1>1, MonitorNoScan, MonitorPlaces DEF MonitorOldSeen
  <2> QED BY <1>1, <1>4, <2>1, MonitorNoScan DEF MonitorOldInv, first
<1> QED BY <1>5, <1>6, <1>7, <1>8, <1>9 DEF MonitorInv

LEMMA MonitorStill == ASSUME MonitorInv, UNCHANGED Monitor!vars PROVE MonitorInv'
<1>1. UNCHANGED <<monitorPolicy, monitorOrigin, monitorListing, monitorQuiet, monitorCheckpoint, monitorScan,
                  monitorTasks, monitorPast, monitorBudget>>
  BY DEF Monitor!vars
<1>2. MonitorTypeInv'
  BY <1>1, MonitorTypes, MonitorShapes, MonitorTyped DEF MonitorInv
<1>3. MonitorSeenInv' /\ MonitorPageInv'
  BY <1>1 DEF MonitorInv, MonitorSeenInv, MonitorPageInv, MonitorFuture
<1>4. MonitorWaitInv' /\ MonitorTakenInv'
  BY <1>1 DEF MonitorInv, MonitorWaitInv, MonitorTakenInv, MonitorWaited, MonitorWaits, MonitorFuture, MonitorStale,
              Monitor!Present, Monitor!KeyOf
<1>5. MonitorOldInv'
  BY <1>1 DEF MonitorInv, MonitorOldInv, MonitorOldSeen, Monitor!Present, Monitor!KeyOf
<1> QED BY <1>2, <1>3, <1>4, <1>5 DEF MonitorInv

LEMMA MonitorStep == MonitorInv /\ [Monitor!Next]_(Monitor!vars) => MonitorInv'
<1> SUFFICES ASSUME MonitorInv, [Monitor!Next]_(Monitor!vars) PROVE MonitorInv'
  OBVIOUS
<1>1. CASE Monitor!BeginScan \/ Monitor!Overlap \/ Monitor!Discover
  BY <1>1, MonitorBeginScan, MonitorOverlap, MonitorDiscover
<1>2. CASE Monitor!Baseline \/ Monitor!NoChanges \/ Monitor!DebounceWait \/ Monitor!StabilityWait
  BY <1>2, MonitorBaselineStep, MonitorWaitSteps
<1>3. CASE Monitor!BeginMaterialize \/ Monitor!FinishScan
  BY <1>3, MonitorBeginMaterialize, MonitorFinishScan
<1>4. CASE \E k \in monitorScan.todo : Monitor!MaterializeUnit(k)
  BY <1>4, MonitorMaterializeUnit
<1>5. CASE Monitor!Fail \/ Monitor!Crash
  BY <1>5, MonitorFails
<1>6. CASE Monitor!Edit \/ Monitor!TimePasses
  BY <1>6, MonitorEdits, MonitorTimes
<1>7. CASE \E p \in Paths : Monitor!Write(p)
  BY <1>7, MonitorWrites
<1>8. CASE UNCHANGED Monitor!vars
  BY <1>8, MonitorStill
<1> QED BY <1>1, <1>2, <1>3, <1>4, <1>5, <1>6, <1>7, <1>8 DEF Monitor!Next

\* The part of NothingMissed that is about the monitor.
MonitorMissesNothing ==
  subject = "monitor" =>
    Monitor!TypeOK /\ Monitor!SeenHasTask /\ Monitor!TakenWhenSettled /\ Monitor!OldStaysOut

LEMMA MonitorSafe ==
  MonitorInv => Monitor!TypeOK /\ Monitor!SeenHasTask /\ Monitor!TakenWhenSettled /\ Monitor!OldStaysOut
<1> SUFFICES ASSUME MonitorInv
             PROVE  Monitor!TypeOK /\ Monitor!SeenHasTask /\ Monitor!TakenWhenSettled /\ Monitor!OldStaysOut
  OBVIOUS
<1>1. Monitor!TypeOK
  BY DEF MonitorInv, MonitorTypeInv
<1>2. Monitor!SeenHasTask
  BY DEF MonitorInv, MonitorSeenInv, Monitor!SeenHasTask
<1>3. Monitor!TakenWhenSettled
  BY DEF MonitorInv, MonitorTakenInv, MonitorWaited, Monitor!TakenWhenSettled
<1>4. Monitor!OldStaysOut
  BY DEF MonitorInv, MonitorOldInv, Monitor!OldStaysOut
<1> QED BY <1>1, <1>2, <1>3, <1>4

LEMMA MonitorListens ==
  MonitorInv /\ [Monitor!Next]_(Monitor!vars) => MonitorGoesOn /\ MonitorForgets
<1> SUFFICES ASSUME MonitorInv, [Monitor!Next]_(Monitor!vars) PROVE MonitorGoesOn /\ MonitorForgets
  OBVIOUS
<1>1. monitorCheckpoint \in Monitor!Checkpoint
  BY MonitorShapes DEF MonitorInv
<1>2. CASE Monitor!Baseline \/ Monitor!NoChanges \/ Monitor!DebounceWait \/ Monitor!StabilityWait
  BY <1>2, MonitorBaselineStep, MonitorWaitSteps
<1>3. CASE Monitor!FinishScan \/ Monitor!Fail \/ Monitor!Crash
  BY <1>3, MonitorFinishScan, MonitorFails
<1>4. ASSUME UNCHANGED monitorCheckpoint PROVE MonitorGoesOn /\ MonitorForgets
  BY <1>4 DEF MonitorGoesOn, MonitorForgets
<1>5. CASE \/ Monitor!Discover \/ Monitor!BeginMaterialize \/ UNCHANGED Monitor!vars
           \/ \E k \in monitorScan.todo : Monitor!MaterializeUnit(k)
           \/ \E p \in Paths : Monitor!Write(p)
  BY <1>4, <1>5 DEF Monitor!Discover, Monitor!BeginMaterialize, Monitor!MaterializeUnit, Monitor!Write, Monitor!vars
<1>6. CASE Monitor!BeginScan
  <2>1. monitorCheckpoint'.cursor = monitorCheckpoint.cursor
    BY <1>1, <1>6, MonitorPending DEF Monitor!BeginScan
  <2>2. monitorScan'.pc = "discover"
    BY <1>6 DEF Monitor!BeginScan, Monitor!NoScan
  <2> QED BY <2>1, <2>2 DEF MonitorGoesOn, MonitorForgets
<1>7. CASE Monitor!Overlap
  <2>1. monitorCheckpoint'.cursor = monitorCheckpoint.cursor /\ monitorCheckpoint'.pending = TRUE
    BY <1>1, <1>7, MonitorPending DEF Monitor!Overlap
  <2> QED BY <2>1 DEF MonitorGoesOn, MonitorForgets
<1>8. CASE Monitor!Edit
  <2>1. monitorOrigin' = monitorOrigin + 1 /\ monitorOrigin \in Nat
    BY <1>8, MonitorTypes, MonitorPlaces DEF Monitor!Edit, MonitorInv
  <2>2. monitorOrigin' # monitorOrigin
    BY <2>1
  <2> QED BY <2>2 DEF MonitorGoesOn, MonitorForgets
<1>9. CASE Monitor!TimePasses
  <2>1. PICK w : monitorCheckpoint' = [monitorCheckpoint EXCEPT !.stability = w]
    BY <1>9 DEF Monitor!TimePasses
  <2>2. monitorCheckpoint'.cursor = monitorCheckpoint.cursor /\ monitorCheckpoint'.pending = monitorCheckpoint.pending
    BY <1>1, <2>1, MonitorCheckpointType
  <2> QED BY <2>2 DEF MonitorGoesOn, MonitorForgets
<1> QED BY <1>2, <1>3, <1>5, <1>6, <1>7, <1>8, <1>9 DEF Monitor!Next

-----------------------------------------------------------------------------

\* The monitor of a directory takes what is there, once it has been left alone, and with
\* NEW_ONLY nothing that was there before (task_definition_executions.py:2471, :2337).
THEOREM MonitorStaysComplete == Spec => []MonitorMissesNothing
<1> DEFINE Inv == subject = "monitor" => MonitorInv
<1>1. Init => Inv
  BY MonitorBeginning DEF Init
<1>2. Inv /\ [Next]_vars => Inv'
  <2> SUFFICES ASSUME Inv, [Next]_vars, subject' = "monitor" PROVE MonitorInv'
    OBVIOUS
  <2>1. subject = "monitor" /\ [Monitor!Next]_(Monitor!vars)
    BY DEF Next, vars, Others, monitor, Monitor!vars
  <2>2. MonitorInv
    BY <2>1
  <2> HIDE DEF Inv
  <2> QED BY <2>1, <2>2, MonitorStep
<1>3. Inv => MonitorMissesNothing
  BY MonitorSafe DEF MonitorMissesNothing
<1> QED BY <1>1, <1>2, <1>3, PTL DEF Spec

\* The listing never goes on past an object that has still to be taken, and a queued
\* scan is forgotten only by a scan that begins (task_definition_executions.py:2475,
\* :2724).
THEOREM ScanStaysKept == Spec => ScanIsKept
<1> DEFINE Inv == subject = "monitor" => MonitorInv
<1>1. Init => Inv
  BY MonitorBeginning DEF Init
<1>2. Inv /\ [Next]_vars => Inv'
  <2> SUFFICES ASSUME Inv, [Next]_vars, subject' = "monitor" PROVE MonitorInv'
    OBVIOUS
  <2>1. subject = "monitor" /\ [Monitor!Next]_(Monitor!vars)
    BY DEF Next, vars, Others, monitor, Monitor!vars
  <2>2. MonitorInv
    BY <2>1
  <2> HIDE DEF Inv
  <2> QED BY <2>1, <2>2, MonitorStep
<1>3. Inv /\ [Next]_vars => [MonitorGoesOn]_(Monitor!vars) /\ [MonitorForgets]_(Monitor!vars)
  <2> SUFFICES ASSUME Inv, [Next]_vars, ~UNCHANGED Monitor!vars PROVE MonitorGoesOn /\ MonitorForgets
    OBVIOUS
  <2>1. MonitorInv /\ [Monitor!Next]_(Monitor!vars)
    BY DEF Next, vars, Others, monitor, Monitor!vars
  <2> QED BY <2>1, MonitorListens
<1>4. Spec => [][MonitorGoesOn]_(Monitor!vars) /\ [][MonitorForgets]_(Monitor!vars)
  <2> HIDE DEF Inv
  <2> QED BY <1>1, <1>2, <1>3, PTL DEF Spec
<1> QED BY <1>4 DEF ScanIsKept, Monitor!PageIsTaken, Monitor!QueuedScanKept, MonitorGoesOn, MonitorForgets
=============================================================================
