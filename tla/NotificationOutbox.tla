-------------------------- MODULE NotificationOutbox --------------------------
(***************************************************************************)
(* The outbox of one notification channel.  An event that happens again    *)
(* before it has been announced is counted in its row instead of getting a *)
(* message of its own; the driver sends a row's message and afterwards     *)
(* takes what the message announced off the count.  Between the two it     *)
(* waits for the provider, while more events arrive, the channel is        *)
(* edited, tested, disabled, and the process may stop.                     *)
(*                                                                         *)
(* A channel is enabled only after a test of it went through; the test     *)
(* waits for the provider as well.                                         *)
(***************************************************************************)
EXTENDS Naturals

CONSTANTS
    Rows,          \* the rows: one per subject and kind of event
    Once,          \* those of unpack results, which are announced once
    MaxAttempts,   \* notification_max_attempts
    MaxEvents,     \* bound: events per row
    MaxEdits,      \* bound: changes of the channel
    MaxFaults      \* bound: stops, failures and lost replies

VARIABLES
    channel,   \* its configuration (counted), version, status and whether it is enabled
    probe,     \* the test that is waiting for the provider
    outbox,    \* the rows
    tick,      \* the delivery under way
    seen,      \* history, see Seen
    budget

vars == <<channel, probe, outbox, tick, seen, budget>>

Channel == [config : 0..MaxEdits, version : 0..MaxEdits,
            status : {"UNTESTED", "OK", "FAILED"}, enabled : BOOLEAN]

\* The time of the next attempt, as seen from now.
When == {"never", "later", "now"}
Row == [state : {"NONE", "PENDING", "RETRY", "DELIVERED", "DEAD"}, pending : 0..MaxEvents,
        attempts : 0..MaxAttempts, when : When]
NoRow == [state |-> "NONE", pending |-> 0, attempts |-> 0, when |-> "never"]

Probe == [on : BOOLEAN, config : 0..MaxEdits, version : 0..MaxEdits]
NoProbe == [on |-> FALSE, config |-> 0, version |-> 0]

\* The rows still to do; the row being sent, the count its message announces,
\* the events that were there when it was read, and whether the provider took it.
NoTick == [todo |-> {}, row |-> "none", count |-> 0, upto |-> 0, taken |-> FALSE]
Tick == [todo : SUBSET Rows, row : Rows \cup {"none"}, count : 0..MaxEvents,
         upto : 0..MaxEvents, taken : BOOLEAN]

\* Per row the events accepted, and how many of the first of them a message has
\* told or a dead row has given up; the configurations the provider accepted a
\* test of; whether a message got out without being recorded as sent.
Seen == [events : [Rows -> 0..MaxEvents], settled : [Rows -> 0..MaxEvents],
         tested : SUBSET (0..MaxEdits), again : BOOLEAN]

-----------------------------------------------------------------------------
(* Events: _upsert_message *)

NewRow == [state |-> "PENDING", pending |-> 1, attempts |-> 0, when |-> "now"]

\* A dead row starts anew with this event; a delivered one waits for the end of
\* the aggregation window, which starts with its last message.
Upserted(row) ==
    IF row.state \in {"NONE", "DEAD"} THEN NewRow
    ELSE [row EXCEPT !.pending = @ + 1,
                     !.when = IF row.state = "DELIVERED" THEN "later" ELSE @]

Accept(r) ==
    /\ channel.enabled /\ seen.events[r] < MaxEvents
    /\ r \in Once => outbox[r].state = "NONE"
    /\ outbox' = [outbox EXCEPT ![r] = Upserted(@)]
    /\ seen' = [seen EXCEPT !.events[r] = @ + 1,
                            !.settled[r] = IF outbox[r].state = "DEAD" THEN seen.events[r] ELSE @]
    /\ UNCHANGED <<channel, probe, tick, budget>>

TimePasses(r) ==
    /\ outbox[r].when = "later"
    /\ outbox' = [outbox EXCEPT ![r].when = "now"]
    /\ UNCHANGED <<channel, probe, tick, seen, budget>>

-----------------------------------------------------------------------------
(* The driver's tick *)

Due == {r \in Rows : /\ outbox[r].pending > 0 /\ outbox[r].when = "now"
                     /\ outbox[r].state \in {"PENDING", "RETRY", "DELIVERED"}}

\* deliver_due_once: rows that are due, up to the limit of the driver.
BeginTick ==
    /\ tick = NoTick
    /\ \E todo \in SUBSET Due : todo # {} /\ tick' = [NoTick EXCEPT !.todo = todo]
    /\ UNCHANGED <<channel, probe, outbox, seen, budget>>

Failed(row, retryable) ==
    LET attempts == IF row.attempts < MaxAttempts THEN row.attempts + 1 ELSE row.attempts
    IN  IF retryable /\ row.attempts + 1 < MaxAttempts
        THEN [row EXCEPT !.state = "RETRY", !.attempts = attempts, !.when = "later"]
        ELSE [row EXCEPT !.state = "DEAD", !.attempts = attempts, !.when = "never"]

\* _deliver_one: the count the message announces is read before the provider is
\* called; a channel that is disabled by now fails the row for good.
Load(r) ==
    /\ tick.row = "none" /\ r \in tick.todo
    /\ tick' = IF outbox[r].pending > 0 /\ channel.enabled
               THEN [tick EXCEPT !.todo = @ \ {r}, !.row = r, !.count = outbox[r].pending,
                                 !.upto = seen.events[r]]
               ELSE [tick EXCEPT !.todo = @ \ {r}]
    /\ outbox' = IF outbox[r].pending > 0 /\ ~channel.enabled
                 THEN [outbox EXCEPT ![r] = Failed(@, FALSE)] ELSE outbox
    /\ UNCHANGED <<channel, probe, seen, budget>>

NextRow == [NoTick EXCEPT !.todo = tick.todo]
Settled(again) == [seen EXCEPT !.settled[tick.row] = tick.upto, !.again = @ \/ again]

ProviderTakes ==
    /\ tick.row # "none" /\ ~tick.taken
    /\ tick' = [tick EXCEPT !.taken = TRUE]
    /\ seen' = Settled(FALSE)
    /\ UNCHANGED <<channel, probe, outbox, budget>>

\* Mutant: everything that is pending is taken for announced.
MarkedAll(row) ==
    [row EXCEPT !.state = "DELIVERED", !.attempts = 0, !.pending = 0, !.when = "never"]

\* Mutant: a message takes off one event.
MarkedOne(row) ==
    [row EXCEPT !.state = "DELIVERED", !.attempts = 0, !.pending = @ - 1,
                !.when = IF row.pending > 1 THEN "later" ELSE "never"]

\* mark_delivered
Marked(row) ==
    LET remaining == IF row.pending > tick.count THEN row.pending - tick.count ELSE 0
    IN  [row EXCEPT !.state = "DELIVERED", !.attempts = 0, !.pending = remaining,
                    !.when = IF remaining > 0 THEN "later" ELSE "never"]

Delivered ==
    /\ tick.taken
    /\ outbox' = [outbox EXCEPT ![tick.row] = Marked(@)]
    /\ tick' = NextRow
    /\ UNCHANGED <<channel, probe, seen, budget>>

\* The provider refuses, for now or for good, or its answer is lost.
Failure ==
    /\ tick.row # "none" /\ budget.faults < MaxFaults
    /\ \E retryable \in BOOLEAN :
       /\ tick.taken => retryable
       /\ outbox' = [outbox EXCEPT ![tick.row] = Failed(@, retryable)]
    /\ seen' = [seen EXCEPT !.again = @ \/ tick.taken]
    /\ tick' = NextRow
    /\ budget' = [budget EXCEPT !.faults = @ + 1]
    /\ UNCHANGED <<channel, probe>>

\* The process stops, or the driver is cancelled.
Stop ==
    /\ tick # NoTick \/ probe.on
    /\ budget.faults < MaxFaults
    /\ tick' = NoTick /\ probe' = NoProbe
    /\ seen' = [seen EXCEPT !.again = @ \/ tick.taken]
    /\ budget' = [budget EXCEPT !.faults = @ + 1]
    /\ UNCHANGED <<channel, outbox>>

-----------------------------------------------------------------------------
(* The channel *)

Changed(c) ==
    /\ channel.version < MaxEdits
    /\ channel' = [c EXCEPT !.version = channel.version + 1]
    /\ UNCHANGED <<probe, outbox, tick, seen, budget>>

\* update, of what the connection depends on or of anything else.
Update == Changed([channel EXCEPT !.config = @ + 1, !.status = "UNTESTED", !.enabled = FALSE])
Rename == Changed(channel)

Enable == ~channel.enabled /\ channel.status = "OK" /\ Changed([channel EXCEPT !.enabled = TRUE])
Disable == channel.enabled /\ Changed([channel EXCEPT !.enabled = FALSE])

\* test_connection
BeginTest ==
    /\ ~probe.on
    /\ probe' = [on |-> TRUE, config |-> channel.config, version |-> channel.version]
    /\ UNCHANGED <<channel, outbox, tick, seen, budget>>

\* Mutant: the result is saved for whatever the channel has become.
SaveAnyProbe(status) == channel' = [channel EXCEPT !.status = status]

\* update_probe: only for the version that was tested.
SaveProbe(status) ==
    channel' = IF channel.version = probe.version
               THEN [channel EXCEPT !.status = status] ELSE channel

EndTest ==
    /\ probe.on
    /\ \/ /\ SaveProbe("OK")
          /\ seen' = [seen EXCEPT !.tested = @ \cup {probe.config}]
       \/ SaveProbe("FAILED") /\ UNCHANGED seen
    /\ probe' = NoProbe
    /\ UNCHANGED <<outbox, tick, budget>>

-----------------------------------------------------------------------------

Init ==
    /\ channel = [config |-> 0, version |-> 0, status |-> "OK", enabled |-> TRUE]
    /\ probe = NoProbe
    /\ outbox = [r \in Rows |-> NoRow]
    /\ tick = NoTick
    /\ seen = [events |-> [r \in Rows |-> 0], settled |-> [r \in Rows |-> 0],
               tested |-> {0}, again |-> FALSE]
    /\ budget = [faults |-> 0]

Next ==
    \/ \E r \in Rows : Accept(r) \/ TimePasses(r) \/ Load(r)
    \/ BeginTick \/ ProviderTakes \/ Delivered \/ Failure \/ Stop
    \/ Update \/ Rename \/ Enable \/ Disable \/ BeginTest \/ EndTest

Spec == Init /\ [][Next]_vars

-----------------------------------------------------------------------------

TypeOK ==
    /\ channel \in Channel /\ probe \in Probe /\ outbox \in [Rows -> Row]
    /\ tick \in Tick /\ seen \in Seen /\ budget \in [faults : 0..MaxFaults]

Live(r) == outbox[r].state \notin {"NONE", "DEAD"}

\* An event that arrives while a message is being sent is not lost with it: what
\* no message has told and no dead row has given up is still counted and will be
\* attempted (notification_repositories.py:413).
NothingForgotten ==
    \A r \in Rows : Live(r) =>
        /\ outbox[r].pending >= seen.events[r] - seen.settled[r]
        /\ outbox[r].pending > 0 => outbox[r].when # "never"

\* A message announces no event a message has announced before, unless one got
\* out without being recorded (notifications.py:572).
CountIsTrue ==
    \A r \in Rows : Live(r) /\ ~seen.again =>
        outbox[r].pending <= seen.events[r] - seen.settled[r]
                             + (IF tick.row = r /\ tick.taken THEN tick.count ELSE 0)

\* A channel is enabled only with the configuration a test went through with,
\* however tests and edits overlap (notifications.py:425).
EnabledIsTested == channel.enabled => channel.config \in seen.tested

=============================================================================
