---------------------------- MODULE SiteAccounts ----------------------------
(***************************************************************************)
(* The configured trackers and their credentials: edited by a user, tested *)
(* against the tracker, refreshed from the cookies of CookieCloud, disabled*)
(* by risk control.  Everything runs on one event loop, so that a step is  *)
(* what happens between two awaits; a test and a download of cookies have  *)
(* the request in between.  A credential is [for, good]: the tracker it is *)
(* for, and whether the tracker would accept it.                           *)
(***************************************************************************)
EXTENDS Naturals, Sequences, FiniteSets, SequencesExt

CONSTANTS
    Sites,          \* identifiers of rows, numbers from 1 on
    Trackers,       \* the reviewed profiles, in their order
    ApiTrackers,    \* those with an API key; the others have a cookie
    MaxEdits, MaxActs, MaxRisks   \* bounds: edits, edits with imports, risks

VARIABLES
    row,            \* the table of sites
    secrets,        \* the encrypted credentials: [site, at, value]
    setting,        \* of CookieCloud: version, whether it is right, its status
    round,          \* a download of cookies under way: the version it began with
    probe,          \* per site, a test that a user started
    queue, enqueued, running, rerun,    \* tests and statistics asked for by a refresh
    job,            \* and how far those under way are
    wanted,         \* history: what was asked for and has not begun
    edits, rounds, risks

vars == <<row, secrets, setting, round, probe, queue, enqueued, running, rerun, job, wanted,
          edits, rounds, risks>>
work == <<queue, enqueued, running, rerun, job, wanted>>
budgets == <<edits, rounds, risks>>

Names == ToSet(Trackers)
None == "none"
NoValue == [for |-> None, good |-> FALSE]
NoSecret == [site |-> 0, at |-> 0, value |-> NoValue]
Absent == [kind |-> None, name |-> None, version |-> 0, secret |-> NoSecret, enabled |-> FALSE,
           status |-> "UNTESTED", risky |-> FALSE]
Gone == [Absent EXCEPT !.kind = "gone"]
Exists(s) == row[s].kind \in Names
NoProbe == [version |-> 0, works |-> FALSE]
Idle == [at |-> "idle", test |-> FALSE, profile |-> FALSE, probe |-> NoProbe]
Nothing == [test |-> FALSE, profile |-> FALSE]
Both(a, b) == [test |-> a.test \/ b.test, profile |-> a.profile \/ b.profile]

\* The next row is the first that never was.
NextRow(rows) ==
    LET unused == {s \in Sites : rows[s] = Absent} IN CHOOSE s \in unused : \A t \in unused : s <= t
Secret(s, at, value) ==
    IF value = NoValue THEN NoSecret ELSE [site |-> s, at |-> at, value |-> value]
New(s, kind, value) ==
    [Absent EXCEPT !.kind = kind, !.name = kind, !.version = 1,
                   !.secret = Secret(s, 1, value)]

Init ==
    /\ row = [s \in Sites |-> Absent]
    /\ secrets = {}
    /\ setting = [version |-> 1, right |-> TRUE, status |-> "UNTESTED"]
    /\ round = 0
    /\ probe = [s \in Sites |-> NoProbe]
    /\ queue = <<>> /\ enqueued = {} /\ running = {}
    /\ rerun = [s \in Sites |-> Nothing]
    /\ job = [s \in Sites |-> Idle]
    /\ wanted = [s \in Sites |-> Nothing]
    /\ edits = 0 /\ rounds = 0 /\ risks = 0

-----------------------------------------------------------------------------
(* What a user does.                                                       *)
Edit ==
    /\ edits < MaxEdits /\ edits + rounds < MaxActs /\ edits' = edits + 1
    /\ UNCHANGED <<setting, round, probe, work, rounds, risks>>

\* Mutant: the credential that was replaced is not deleted.
ExchangedOnly(s, secret) == secrets \cup ({secret} \ {NoSecret})
\* The old credential goes in the transaction that writes the new one.
Exchanged(s, secret) == (secrets \ {row[s].secret}) \cup ({secret} \ {NoSecret})

Credentials(kind) == {[for |-> kind, good |-> good] : good \in BOOLEAN}

\* A change of what a connection depends on makes a site untested and takes
\* it out of use.
Reset(s, kind, secret) ==
    [row[s] EXCEPT !.kind = kind, !.secret = secret, !.version = @ + 1,
                   !.status = "UNTESTED", !.enabled = FALSE]

\* Names are unique, and a site that changes its tracker keeps its name.
Create(s, kind) ==
    /\ Edit /\ row[s] = Absent /\ s = NextRow(row)
    /\ \A t \in Sites : row[t].name # kind
    /\ \E value \in Credentials(kind) \cup {NoValue} :
          /\ row' = [row EXCEPT ![s] = New(s, kind, value)]
          /\ secrets' = secrets \cup ({New(s, kind, value).secret} \ {NoSecret})

\* Mutant: a site may change its tracker and keep its credential.
MayKeepAlways(s, kind) == TRUE
\* Another tracker needs another credential.
MayKeep(s, kind) == kind = row[s].kind \/ row[s].secret = NoSecret

\* A change of the address, the proxy or the tracker; the credential stays,
\* is replaced or cleared.
Update(s, kind) ==
    /\ Edit /\ Exists(s)
    /\ \/ /\ MayKeep(s, kind)
          /\ row' = [row EXCEPT ![s] = Reset(s, kind, row[s].secret)]
          /\ UNCHANGED secrets
       \/ \E value \in Credentials(kind) \cup {NoValue} :
             LET secret == Secret(s, row[s].version + 1, value) IN
             /\ row' = [row EXCEPT ![s] = Reset(s, kind, secret)]
             /\ secrets' = Exchanged(s, secret)

\* The name or the limits of risk control.
UpdateRest(s) ==
    /\ Edit /\ Exists(s)
    /\ row' = [row EXCEPT ![s].version = @ + 1]
    /\ UNCHANGED secrets

Delete(s) ==
    /\ Edit /\ Exists(s)
    /\ row' = [row EXCEPT ![s] = Gone]
    /\ secrets' = secrets \ {row[s].secret}

\* Mutant: what is enabled is not looked at.
MayEnableAny(s) == TRUE
MayEnable(s) == row[s].secret # NoSecret

\* Enabling is also how a user lifts what risk control has done.
SetEnabled(s, enabled) ==
    /\ Edit /\ Exists(s)
    /\ enabled => MayEnable(s)
    /\ row[s].enabled # enabled \/ (enabled /\ row[s].risky)
    /\ row' = [row EXCEPT ![s].enabled = enabled, ![s].version = @ + 1,
                          ![s].risky = @ /\ ~enabled]
    /\ UNCHANGED secrets

EditSetting ==
    /\ edits < MaxEdits /\ edits + rounds < MaxActs /\ edits' = edits + 1
    /\ \E right \in BOOLEAN :
          setting' = [version |-> setting.version + 1, right |-> right,
                      status |-> IF right = setting.right THEN setting.status ELSE "UNTESTED"]
    /\ UNCHANGED <<row, secrets, round, probe, work, rounds, risks>>

\* The limit of anti-abuse answers of a tracker is reached.
RecordRisk(s) ==
    /\ Exists(s) /\ risks < MaxRisks /\ risks' = risks + 1
    /\ row' = IF row[s].risky THEN row
              ELSE [row EXCEPT ![s].enabled = FALSE, ![s].risky = TRUE, ![s].version = @ + 1]
    /\ UNCHANGED <<secrets, setting, round, probe, work, edits, rounds>>

-----------------------------------------------------------------------------
(* A test of the connection.                                               *)
Testable(s) == Exists(s) /\ row[s].secret # NoSecret

\* The row is read, the credential decrypted, and the tracker asked.
Asked(s) ==
    [version |-> row[s].version,
     works |-> row[s].secret.value = [for |-> row[s].kind, good |-> TRUE]]

\* Mutant: the result is stored whatever the row has become.
StoreAlways(s, version) == Exists(s)
MayStore(s, version) == Exists(s) /\ row[s].version = version

Stored(s, asked, answered) ==
    IF MayStore(s, asked.version)
    THEN [row EXCEPT ![s].status = IF asked.works /\ answered THEN "OK" ELSE "FAILED"]
    ELSE row

BeginTest(s) ==
    /\ Testable(s) /\ probe[s] = NoProbe
    /\ probe' = [probe EXCEPT ![s] = Asked(s)]
    /\ UNCHANGED <<row, secrets, setting, round, work, budgets>>

\* The tracker may be out of reach.
EndTest(s) ==
    /\ probe[s] # NoProbe
    /\ \E answered \in BOOLEAN : row' = Stored(s, probe[s], answered)
    /\ probe' = [probe EXCEPT ![s] = NoProbe]
    /\ UNCHANGED <<secrets, setting, round, work, budgets>>

-----------------------------------------------------------------------------
(* The refresh from CookieCloud.                                           *)
BeginRound ==
    /\ round = 0 /\ edits + rounds < MaxActs
    /\ round' = setting.version /\ rounds' = rounds + 1
    /\ UNCHANGED <<row, secrets, setting, probe, work, edits, risks>>

\* Nothing is stored for a setting that was edited meanwhile.
SettingStatus(status) ==
    setting' = IF setting.version = round THEN [setting EXCEPT !.status = status] ELSE setting

RoundFails ==
    /\ round # 0
    /\ SettingStatus("FAILED")
    /\ round' = 0
    /\ UNCHANGED <<row, secrets, probe, work, budgets>>

\* A tracker with cookies that is not configured gets a row; one with an API
\* key a row without a credential.  A name that is taken stops the round.
Added(rows, cookies, kind) ==
    IF cookies[kind] = NoValue \/ \E s \in Sites : rows[s].kind = kind THEN rows
    ELSE [rows EXCEPT ![NextRow(rows)] =
            New(NextRow(rows), kind, IF kind \in ApiTrackers THEN NoValue ELSE cookies[kind])]
Taken(rows, cookies, kind) ==
    /\ cookies[kind] # NoValue
    /\ \A s \in Sites : rows[s].kind # kind
    /\ \E s \in Sites : rows[s].name = kind

Before(k) == SubSeq(Trackers, 1, k)
AddedBefore(cookies, k) ==
    FoldLeft(LAMBDA rows, kind : Added(rows, cookies, kind), row, Before(k))
Stops(cookies) ==
    {k \in 1..Len(Trackers) : Taken(AddedBefore(cookies, k - 1), cookies, Trackers[k])}

\* The trackers whose cookies may be replaced, now that all rows are there.
Targets(rows, cookies) ==
    {s \in Sites : rows[s].kind \in Names \ ApiTrackers /\ cookies[rows[s].kind] # NoValue}

\* Mutant: a refreshed site stays tested.
RefreshedTested(s, old, value) ==
    IF old.secret # NoSecret /\ old.secret.value = value THEN old
    ELSE [old EXCEPT !.secret = Secret(s, old.version + 1, value), !.version = @ + 1]
\* A cookie that differs replaces the old one; the site stays in use, untested.
Refreshed(s, old, value) ==
    IF old.secret # NoSecret /\ old.secret.value = value THEN old
    ELSE [old EXCEPT !.secret = Secret(s, old.version + 1, value), !.version = @ + 1,
                     !.status = "UNTESTED"]

\* Mutant: a request replaces the one that waits.
MergedOver(waiting, asked) == asked
Merged(waiting, asked) == Both(waiting, asked)

\* What is asked for a site that is queued or under way is added to that.
Enqueue(asked) ==
    LET new == SetToSeq({s \in DOMAIN asked : s \notin enqueued}) IN
    /\ rerun' = [s \in Sites |-> IF s \in DOMAIN asked \cap running THEN Merged(rerun[s], asked[s])
                                 ELSE rerun[s]]
    /\ queue' = [i \in DOMAIN queue |->
                   IF queue[i].site \in DOMAIN asked \ running
                   THEN [site |-> queue[i].site, ask |-> Merged(queue[i].ask, asked[queue[i].site])]
                   ELSE queue[i]]
                \o [i \in DOMAIN new |-> [site |-> new[i], ask |-> asked[new[i]]]]
    /\ enqueued' = enqueued \cup DOMAIN asked
    /\ wanted' = [s \in Sites |-> IF s \in DOMAIN asked THEN Both(wanted[s], asked[s]) ELSE wanted[s]]

SecretsOf(rows) == {rows[s].secret : s \in Sites} \ {NoSecret}

\* The cookies are there, and nothing else runs until they are stored.
Apply(cookies) ==
    /\ round # 0 /\ setting.right /\ setting.version = round /\ round' = 0
    /\ Cardinality({s \in Sites : row[s] = Absent}) >= Cardinality(Names \ {row[s].kind : s \in Sites})
    /\ IF Stops(cookies) # {}
       THEN LET k == CHOOSE k \in Stops(cookies) : \A l \in Stops(cookies) : k <= l IN
            /\ row' = AddedBefore(cookies, k - 1)
            /\ SettingStatus("FAILED")
            /\ UNCHANGED <<queue, enqueued, rerun, wanted>>
       ELSE LET added == AddedBefore(cookies, Len(Trackers))
                targets == Targets(added, cookies)
                after == [s \in Sites |-> IF s \in targets
                                          THEN Refreshed(s, added[s], cookies[added[s].kind])
                                          ELSE added[s]]
                asking == {s \in targets : \/ after[s].status # "OK"
                                           \/ after[s].version # added[s].version} IN
            /\ row' = after
            /\ SettingStatus("OK")
            /\ Enqueue([s \in asking |-> [test |-> TRUE, profile |-> row[s] = Absent]])
    /\ secrets' = SecretsOf(row')
    /\ UNCHANGED <<probe, running, job, budgets>>

-----------------------------------------------------------------------------
(* The queue of tests and statistics; a batch holds all that wait.         *)
Drain ==
    /\ queue # <<>> /\ running = {}
    /\ queue' = <<>>
    /\ running' = {queue[i].site : i \in DOMAIN queue}
    /\ job' = [s \in Sites |->
                 IF \E i \in DOMAIN queue : queue[i].site = s
                 THEN LET i == CHOOSE i \in DOMAIN queue : queue[i].site = s IN
                      [at |-> "ready", test |-> queue[i].ask.test,
                       profile |-> queue[i].ask.profile, probe |-> NoProbe]
                 ELSE Idle]
    /\ UNCHANGED <<row, secrets, setting, round, probe, enqueued, rerun, wanted, budgets>>

\* Whatever came of it, the site leaves, or waits again for what was asked
\* for in between.
Finish(s) ==
    /\ running' = running \ {s}
    /\ rerun' = [rerun EXCEPT ![s] = Nothing]
    /\ IF rerun[s] = Nothing
       THEN enqueued' = enqueued \ {s} /\ UNCHANGED queue
       ELSE queue' = Append(queue, [site |-> s, ask |-> rerun[s]]) /\ UNCHANGED enqueued
    /\ job' = [job EXCEPT ![s] = Idle]

JobBegins(s) ==
    /\ job[s].at = "ready"
    /\ wanted' = [wanted EXCEPT ![s] = [test |-> @.test /\ rerun[s].test,
                                        profile |-> @.profile /\ rerun[s].profile]]
    /\ IF Testable(s)
       THEN /\ job' = [job EXCEPT ![s].at = IF job[s].test THEN "testing" ELSE "profiling",
                                  ![s].probe = Asked(s)]
            /\ UNCHANGED <<running, rerun, enqueued, queue>>
       ELSE Finish(s)
    /\ UNCHANGED <<row, secrets, setting, round, probe, budgets>>

\* A test that fails, or whose row has changed, ends the job.
JobTested(s) ==
    /\ job[s].at = "testing"
    /\ \E answered \in BOOLEAN :
          /\ row' = Stored(s, job[s].probe, answered)
          /\ IF /\ answered /\ job[s].probe.works /\ job[s].profile
                /\ MayStore(s, job[s].probe.version)
             THEN job' = [job EXCEPT ![s].at = "profiling"] /\ UNCHANGED <<running, rerun, enqueued, queue>>
             ELSE Finish(s)
    /\ UNCHANGED <<secrets, setting, round, probe, wanted, budgets>>

JobProfiled(s) ==
    /\ job[s].at = "profiling"
    /\ Finish(s)
    /\ UNCHANGED <<row, secrets, setting, round, probe, wanted, budgets>>

Cookies == [Names -> {NoValue} \cup UNION {Credentials(kind) : kind \in Names}]
ForTheirSites(cookies) ==
    \A kind \in Names : cookies[kind] \in Credentials(kind) \cup {NoValue}

Next ==
    \/ \E s \in Sites :
          \/ UpdateRest(s) \/ Delete(s) \/ RecordRisk(s) \/ BeginTest(s) \/ EndTest(s)
          \/ \E kind \in Names : Create(s, kind) \/ Update(s, kind)
          \/ \E enabled \in BOOLEAN : SetEnabled(s, enabled)
          \/ JobBegins(s) \/ JobTested(s) \/ JobProfiled(s)
    \/ EditSetting \/ BeginRound \/ RoundFails \/ Drain
    \/ \E cookies \in Cookies : ForTheirSites(cookies) /\ Apply(cookies)

Spec == Init /\ [][Next]_vars
-----------------------------------------------------------------------------
\* The state has its type.
TypeOK ==
    /\ \A s \in Sites : row[s].kind \in Names \cup {None, "gone"} /\ row[s].status \in {"UNTESTED", "OK", "FAILED"}
    /\ setting.status \in {"UNTESTED", "OK", "FAILED"}
    /\ running \subseteq enqueued
    /\ edits \in 0..MaxEdits /\ rounds \in 0..MaxActs /\ risks \in 0..MaxRisks

\* What is shown as tested works as it is now, whoever replaced a credential
\* or a setting while the test was under way.
OkWasTested ==
    /\ setting.status = "OK" => setting.right
    /\ \A s \in Sites : row[s].status = "OK" =>
          row[s].secret # NoSecret /\ row[s].secret.value = [for |-> row[s].kind, good |-> TRUE]

\* Every credential in the store belongs to a site, and none is missing there.
SecretsAreHeld == secrets = SecretsOf(row)

\* What the matching may use has a credential and is not out of use for risk.
EnabledIsUsable == \A s \in Sites : row[s].enabled => row[s].secret # NoSecret /\ ~row[s].risky

\* A site has a credential of its own tracker: cookies never get into the
\* place of an API key, or to another tracker than they come from.
CredentialIsForSite == \A s \in Sites : row[s].secret # NoSecret => row[s].secret.value.for = row[s].kind

Waits(s, ask) ==
    LET queued == {queue[i].ask : i \in {i \in DOMAIN queue : queue[i].site = s}} IN
    LET waiting == queued \cup {rerun[s]}
                   \cup (IF job[s].at = "ready" THEN {[test |-> job[s].test, profile |-> job[s].profile]} ELSE {}) IN
    /\ ask.test => \E w \in waiting : w.test
    /\ ask.profile => \E w \in waiting : w.profile
\* No test and no statistics that were asked for are lost to a refresh that
\* comes while the site is queued or under way.
NothingDropped == \A s \in Sites : Waits(s, wanted[s])
=============================================================================
