--------------------------- MODULE ServicesProofs ---------------------------
(***************************************************************************)
(* Proofs about the services of MCServices, for every value of their       *)
(* constants.  A run follows one service; each section proves the          *)
(* invariant of one of them from its own initial states and its own steps. *)
(***************************************************************************)
EXTENDS MCServices, FiniteSetTheorems, WellFoundedInduction, TLAPS

-----------------------------------------------------------------------------
(* The calls to one site *)

SiteCall == [step : Site!Steps, kind : Site!Kinds, attempt : 1..SiteAttempts, probe : BOOLEAN]

\* A call that sleeps has an attempt left.
SiteInv ==
  /\ Site!TypeOK /\ Site!ProbeIsHeld /\ Site!AnnouncedIsTrue
  /\ \A c \in Calls : siteCall[c].step = "sleep" => siteCall[c].attempt < SiteAttempts

\* A step of one call: when the breaker waits for a probe afterwards, it is that
\* of this call, or this call did not hold it.
LEMMA SiteCallStep ==
  ASSUME SiteInv, NEW c \in Calls, siteCall' \in [Calls -> SiteCall],
         \A o \in Calls \ {c} : siteCall'[o] = siteCall[o],
         siteCall'[c].step = "sleep" => siteCall'[c].attempt < SiteAttempts,
         siteUntil' \in {"none", "future", "past"}, siteFailures' \in 0..Threshold,
         siteProbing' \in BOOLEAN, siteCached' \in BOOLEAN,
         siteAnnounced' \in {"NOTHING", "OPENED", "RECOVERED"},
         siteMishap \subseteq siteMishap', siteMishap' \subseteq {"cancelled", "escaped", "reset"},
         siteBudget' \in [calls : 0..SiteCalls, mishaps : 0..MaxMishaps],
         "reset" \notin siteMishap => (siteUntil' # "none" <=> siteAnnounced' = "OPENED"),
         siteProbing' =>
           \/ siteProbing /\ ~(siteCall[c].step = "request" /\ siteCall[c].probe)
           \/ siteCall'[c].step = "request" /\ siteCall'[c].probe
           \/ "escaped" \in siteMishap'
  PROVE  SiteInv'
<1>1. Site!TypeOK'
  BY DEF Site!TypeOK, SiteCall
<1>2. Site!ProbeIsHeld'
  <2>1. siteProbing => "escaped" \in siteMishap
                       \/ \E o \in Calls : siteCall[o].step = "request" /\ siteCall[o].probe
    BY DEF SiteInv, Site!ProbeIsHeld, Site!At
  <2>2. siteProbing' => "escaped" \in siteMishap'
                        \/ \E o \in Calls : siteCall'[o].step = "request" /\ siteCall'[o].probe
    BY <2>1
  <2> QED BY <2>2 DEF Site!ProbeIsHeld, Site!At
<1>3. Site!AnnouncedIsTrue'
  BY DEF Site!AnnouncedIsTrue
<1> QED BY <1>1, <1>2, <1>3 DEF SiteInv

LEMMA SiteTypes ==
  ASSUME SiteInv
  PROVE  /\ siteUntil \in {"none", "future", "past"} /\ siteFailures \in 0..Threshold
         /\ siteProbing \in BOOLEAN /\ siteCached \in BOOLEAN
         /\ siteAnnounced \in {"NOTHING", "OPENED", "RECOVERED"}
         /\ siteCall \in [Calls -> SiteCall] /\ \A c \in Calls : siteCall[c] \in SiteCall
         /\ siteMishap \subseteq {"cancelled", "escaped", "reset"}
         /\ siteBudget \in [calls : 0..SiteCalls, mishaps : 0..MaxMishaps]
         /\ "reset" \notin siteMishap => (siteUntil # "none" <=> siteAnnounced = "OPENED")
         /\ Site!Idle \in SiteCall /\ Site!Idle.step = "idle" /\ ~Site!Idle.probe
BY SiteAssumption DEF SiteInv, Site!TypeOK, Site!AnnouncedIsTrue, SiteCall, Site!Idle, Site!Steps,
   Site!Kinds

\* A call ends, or goes to another step and keeps its kind and its attempt.
LEMMA SiteGoes ==
  ASSUME SiteInv, NEW c \in Calls, NEW s \in Site!Steps, Site!Goto(c, s)
  PROVE  /\ siteCall' \in [Calls -> SiteCall] /\ \A o \in Calls \ {c} : siteCall'[o] = siteCall[o]
         /\ siteCall'[c].step = s /\ siteCall'[c].attempt = siteCall[c].attempt
         /\ siteCall'[c].probe = siteCall[c].probe
<1>1. siteCall \in [Calls -> SiteCall] /\ siteCall[c] \in SiteCall
  BY SiteTypes
<1>2. siteCall' = [siteCall EXCEPT ![c] = [siteCall[c] EXCEPT !.step = s]]
  BY <1>1 DEF Site!Goto
<1>3. [siteCall[c] EXCEPT !.step = s] \in SiteCall
  BY <1>1 DEF SiteCall
<1> QED BY <1>1, <1>2, <1>3 DEF SiteCall

LEMMA SiteEnds ==
  ASSUME SiteInv, NEW c \in Calls, Site!End(c)
  PROVE  /\ siteCall' \in [Calls -> SiteCall] /\ \A o \in Calls \ {c} : siteCall'[o] = siteCall[o]
         /\ siteCall'[c].step = "idle" /\ ~siteCall'[c].probe
BY SiteTypes DEF Site!End

\* A step of a call that leaves breaker and cache alone and was not at its request.
LEMMA SiteQuiet ==
  ASSUME SiteInv, NEW c \in Calls, siteCall[c].step # "request",
         UNCHANGED <<siteUntil, siteFailures, siteProbing, siteAnnounced, siteCached, siteMishap>>,
         siteBudget' \in [calls : 0..SiteCalls, mishaps : 0..MaxMishaps],
         \/ Site!End(c)
         \/ \E s \in Site!Steps \ {"sleep"} : Site!Goto(c, s)
         \/ /\ siteCall' \in [Calls -> SiteCall] /\ siteCall'[c].step # "sleep"
            /\ \A o \in Calls \ {c} : siteCall'[o] = siteCall[o]
  PROVE  SiteInv'
<1>1. /\ siteCall' \in [Calls -> SiteCall] /\ siteCall'[c].step # "sleep"
      /\ \A o \in Calls \ {c} : siteCall'[o] = siteCall[o]
  BY SiteEnds, SiteGoes
<1> QED BY <1>1, SiteTypes, SiteCallStep

LEMMA SiteQuietSteps ==
  ASSUME SiteInv, NEW c \in Calls,
         \/ \E kind \in Site!Kinds : Site!Start(c, kind)
         \/ Site!LookInCache(c) \/ Site!TakeKey(c) \/ Site!Check(c) \/ Site!TakeSlot(c)
         \/ Site!WaitForRate(c) \/ Site!WakeUp(c)
  PROVE  SiteInv'
<1>1. {"key", "check", "slot", "rate", "begin"} \subseteq Site!Steps \ {"sleep"}
  BY DEF Site!Steps
<1>2. siteBudget \in [calls : 0..SiteCalls, mishaps : 0..MaxMishaps] /\ siteCall \in [Calls -> SiteCall]
  BY SiteTypes
<1>3. CASE Site!LookInCache(c) \/ Site!TakeKey(c) \/ Site!Check(c)
  BY <1>1, <1>2, <1>3, SiteQuiet DEF Site!LookInCache, Site!TakeKey, Site!Check, Site!At, Site!breaker
<1>4. CASE Site!TakeSlot(c) \/ Site!WaitForRate(c)
  BY <1>1, <1>2, <1>4, SiteQuiet DEF Site!TakeSlot, Site!WaitForRate, Site!At, Site!breaker
<1>5. ASSUME NEW kind \in Site!Kinds, Site!Start(c, kind) PROVE SiteInv'
  <2> DEFINE step == IF kind = "search" THEN "look" ELSE "check"
  <2>1. step \in Site!Steps \ {"sleep"}
    BY DEF Site!Steps
  <2>2. siteCall' = [siteCall EXCEPT ![c] = [Site!Idle EXCEPT !.step = step, !.kind = kind]]
    BY <1>5 DEF Site!Start
  <2> HIDE DEF step
  <2>3. [Site!Idle EXCEPT !.step = step, !.kind = kind] \in SiteCall
    BY <2>1, SiteTypes DEF SiteCall
  <2>4. /\ siteCall' \in [Calls -> SiteCall] /\ siteCall'[c].step = step
        /\ \A o \in Calls \ {c} : siteCall'[o] = siteCall[o]
    BY <1>2, <2>2, <2>3 DEF Site!Idle
  <2>5. siteBudget' \in [calls : 0..SiteCalls, mishaps : 0..MaxMishaps]
    <3>1. siteBudget.calls + 1 \in 0..SiteCalls
      <4>1. siteBudget.calls \in 0..SiteCalls
        BY <1>2
      <4>2. siteBudget.calls < SiteCalls
        BY <1>5 DEF Site!Start
      <4> QED BY <4>1, <4>2, SiteAssumption
    <3> QED BY <1>2, <1>5, <3>1 DEF Site!Start
  <2> QED BY <1>5, <2>1, <2>4, <2>5, SiteQuiet DEF Site!Start, Site!At, Site!breaker
<1>6. CASE Site!WakeUp(c)
  <2>1. siteCall[c] \in SiteCall /\ siteCall[c].attempt + 1 \in 1..SiteAttempts
    BY <1>2, <1>6, SiteAssumption DEF Site!WakeUp, Site!At, SiteInv, SiteCall
  <2>2. siteCall' = [siteCall EXCEPT ![c] =
                       [siteCall[c] EXCEPT !.step = "check", !.attempt = siteCall[c].attempt + 1]]
    BY <1>2, <1>6 DEF Site!WakeUp
  <2>3. [siteCall[c] EXCEPT !.step = "check", !.attempt = siteCall[c].attempt + 1] \in SiteCall
    BY <1>1, <2>1 DEF SiteCall
  <2>4. /\ siteCall' \in [Calls -> SiteCall] /\ siteCall'[c].step = "check"
        /\ \A o \in Calls \ {c} : siteCall'[o] = siteCall[o]
    BY <1>2, <2>1, <2>2, <2>3 DEF SiteCall
  <2> QED BY <1>2, <1>6, <2>4, SiteQuiet DEF Site!WakeUp, Site!At, Site!breaker
<1> QED BY <1>3, <1>4, <1>5, <1>6

\* An attempt begins: as the probe, when the breaker has been open.
LEMMA SiteBegins ==
  ASSUME SiteInv, NEW c \in Calls, Site!Begin(c) PROVE SiteInv'
<1>1. CASE Site!Shut
  <2>1. Site!End(c) /\ siteCall[c].step # "request" /\ siteBudget' = siteBudget
        /\ UNCHANGED <<siteUntil, siteFailures, siteProbing, siteAnnounced, siteCached, siteMishap>>
    BY <1>1 DEF Site!Begin, Site!At
  <2> QED BY <2>1, SiteQuiet, SiteTypes
<1>2. CASE ~Site!Shut
  <2> DEFINE probe == siteUntil # "none"
  <2>1. /\ siteCall' = [siteCall EXCEPT ![c] = [siteCall[c] EXCEPT !.step = "request", !.probe = probe]]
        /\ siteProbing' = (siteProbing \/ probe) /\ siteCall[c].step = "begin"
        /\ UNCHANGED <<siteUntil, siteFailures, siteAnnounced, siteCached, siteMishap, siteBudget>>
    BY <1>2, SiteTypes DEF Site!Begin, Site!At
  <2>2. probe \in BOOLEAN /\ siteCall \in [Calls -> SiteCall] /\ siteCall[c] \in SiteCall
    BY SiteTypes
  <2>3. siteProbing' => siteProbing \/ probe
    BY <2>1
  <2> HIDE DEF probe
  <2>4. [siteCall[c] EXCEPT !.step = "request", !.probe = probe] \in SiteCall
    BY <2>2 DEF SiteCall, Site!Steps
  <2>5. /\ siteCall' \in [Calls -> SiteCall] /\ siteCall'[c].step = "request"
        /\ siteCall'[c].probe = probe /\ \A o \in Calls \ {c} : siteCall'[o] = siteCall[o]
    BY <2>1, <2>2, <2>4 DEF SiteCall
  <2>6. siteProbing' \in BOOLEAN
    BY <2>1, <2>2, SiteTypes
  <2>7. \/ ~siteProbing' \/ (siteProbing /\ siteCall[c].step # "request")
        \/ (siteCall'[c].step = "request" /\ siteCall'[c].probe)
    BY <2>1, <2>3, <2>5
  <2> QED BY <2>1, <2>5, <2>6, <2>7, SiteTypes, SiteCallStep
<1> QED BY <1>1, <1>2

\* The end of a request: the breaker is closed or opened, or the probe is released
\* or was not held.
LEMMA SiteAnswer ==
  ASSUME SiteInv, NEW c \in Calls, siteCall[c].step = "request",
         Site!End(c) \/ Site!RetryOrEnd(c),
         Site!Close \/ Site!CountFailure(siteCall[c].probe) \/ Site!Open
           \/ Site!Release(siteCall[c].probe),
         siteCached' \in BOOLEAN, siteMishap \subseteq siteMishap',
         siteMishap' \subseteq {"cancelled", "escaped", "reset"},
         siteBudget' \in [calls : 0..SiteCalls, mishaps : 0..MaxMishaps]
  PROVE  SiteInv'
<1>1. /\ siteCall' \in [Calls -> SiteCall] /\ \A o \in Calls \ {c} : siteCall'[o] = siteCall[o]
      /\ siteCall'[c].step = "sleep" => siteCall'[c].attempt < SiteAttempts
  <2>1. CASE Site!End(c)
    BY <2>1, SiteEnds
  <2>2. CASE siteCall[c].attempt < SiteAttempts
             /\ siteCall' = [siteCall EXCEPT ![c].step = "sleep", ![c].probe = FALSE]
    <3>1. siteCall \in [Calls -> SiteCall] /\ siteCall[c] \in SiteCall
      BY SiteTypes
    <3>2. siteCall' = [siteCall EXCEPT ![c] = [siteCall[c] EXCEPT !.step = "sleep", !.probe = FALSE]]
      BY <2>2, <3>1
    <3>3. [siteCall[c] EXCEPT !.step = "sleep", !.probe = FALSE] \in SiteCall
      BY <3>1 DEF SiteCall, Site!Steps
    <3> QED BY <2>2, <3>1, <3>2, <3>3 DEF SiteCall
  <2> QED BY <2>1, <2>2 DEF Site!RetryOrEnd
<1>2. Threshold \in 0..Threshold /\ 0 \in 0..Threshold
  BY SiteAssumption
<1>3. CASE Site!Close
  <2>1. siteUntil = "none" => siteAnnounced' = siteAnnounced
    BY <1>3 DEF Site!Close
  <2>2. siteUntil # "none" => siteAnnounced' = "RECOVERED"
    BY <1>3 DEF Site!Close
  <2>3. siteUntil' = "none" /\ siteFailures' = 0 /\ siteProbing' = FALSE
    BY <1>3 DEF Site!Close
  <2> QED BY <1>1, <1>2, <2>1, <2>2, <2>3, SiteTypes, SiteCallStep
<1>4. CASE Site!Open
  BY <1>1, <1>2, <1>4, SiteTypes, SiteCallStep DEF Site!Open
<1>5. CASE Site!CountFailure(siteCall[c].probe) /\ ~Site!Open
  <2>1. /\ siteFailures' = siteFailures + 1 /\ ~siteCall[c].probe /\ ~(siteFailures + 1 >= Threshold)
        /\ UNCHANGED <<siteUntil, siteProbing, siteAnnounced>>
    BY <1>5 DEF Site!CountFailure
  <2>2. siteFailures' \in 0..Threshold
    BY <2>1, SiteTypes, SiteAssumption
  <2> QED BY <1>1, <2>1, <2>2, SiteTypes, SiteCallStep
<1>6. CASE Site!Release(siteCall[c].probe)
  <2>1. /\ UNCHANGED <<siteUntil, siteFailures, siteAnnounced>> /\ siteProbing' \in BOOLEAN
        /\ siteProbing' => siteProbing /\ ~siteCall[c].probe
    BY <1>6 DEF Site!Release
  <2> QED BY <1>1, <2>1, SiteTypes, SiteCallStep
<1> QED BY <1>3, <1>4, <1>5, <1>6

LEMMA SiteAnswers ==
  ASSUME SiteInv, NEW c \in Calls,
         \/ Site!Succeed(c) \/ Site!Refused(c) \/ Site!AuthFailed(c) \/ Site!InvalidResponse(c)
         \/ Site!Unavailable(c) \/ Site!RateLimited(c)
  PROVE  SiteInv'
<1>1. siteCached' \in BOOLEAN
  BY SiteTypes DEF Site!Succeed, Site!Refused, Site!AuthFailed, Site!InvalidResponse,
                   Site!Unavailable, Site!RateLimited
<1>2. /\ siteCall[c].step = "request" /\ siteMishap' = siteMishap /\ siteBudget' = siteBudget
      /\ Site!End(c) \/ Site!RetryOrEnd(c)
      /\ Site!Close \/ Site!CountFailure(siteCall[c].probe) \/ Site!Open
           \/ Site!Release(siteCall[c].probe)
  BY DEF Site!Succeed, Site!Refused, Site!AuthFailed, Site!InvalidResponse,
         Site!Unavailable, Site!RateLimited, Site!At
<1> QED BY <1>1, <1>2, SiteTypes, SiteAnswer

LEMMA SiteMishaps ==
  ASSUME SiteInv, NEW kind \in {"cancelled", "escaped", "reset"}, Site!Mishap(kind)
  PROVE  /\ siteBudget' \in [calls : 0..SiteCalls, mishaps : 0..MaxMishaps]
         /\ siteMishap' = siteMishap \cup {kind}
         /\ siteMishap' \subseteq {"cancelled", "escaped", "reset"}
<1>1. siteBudget.mishaps \in 0..MaxMishaps /\ siteBudget.mishaps < MaxMishaps
  BY SiteTypes DEF Site!Mishap
<1>2. siteBudget.mishaps + 1 \in 0..MaxMishaps
  BY <1>1, SiteAssumption
<1>3. siteBudget' = [siteBudget EXCEPT !.mishaps = siteBudget.mishaps + 1]
  BY DEF Site!Mishap
<1> QED BY <1>2, <1>3, SiteTypes DEF Site!Mishap

LEMMA SiteCancels ==
  ASSUME SiteInv, NEW c \in Calls, Site!Cancel(c) \/ Site!Escape(c) PROVE SiteInv'
<1>1. /\ siteBudget' \in [calls : 0..SiteCalls, mishaps : 0..MaxMishaps] /\ siteCached' = siteCached
      /\ siteMishap \subseteq siteMishap' /\ siteMishap' \subseteq {"cancelled", "escaped", "reset"}
      /\ Site!Escape(c) => "escaped" \in siteMishap'
      /\ Site!End(c)
  <2>1. CASE Site!Cancel(c)
    <3>1. Site!Mishap("cancelled") /\ Site!End(c) /\ siteCached' = siteCached
      BY <2>1 DEF Site!Cancel
    <3>2. ~Site!Escape(c) \/ "escaped" \in siteMishap'
      BY SiteMishaps DEF Site!Escape
    <3> QED BY <3>1, <3>2, SiteMishaps
  <2>2. CASE Site!Escape(c)
    <3>1. Site!Mishap("escaped") /\ Site!End(c) /\ siteCached' = siteCached
      BY <2>2 DEF Site!Escape
    <3> QED BY <3>1, SiteMishaps
  <2> QED BY <2>1, <2>2
<1>2. CASE Site!Cancel(c) /\ siteCall[c].step = "request"
  BY <1>1, <1>2, SiteTypes, SiteAnswer DEF Site!Cancel, Site!At
<1>3. CASE Site!Escape(c) \/ (Site!Cancel(c) /\ siteCall[c].step # "request")
  <2>1. UNCHANGED <<siteUntil, siteFailures, siteProbing, siteAnnounced>>
    BY <1>3 DEF Site!Escape, Site!Cancel, Site!At, Site!breaker
  <2> QED BY <1>1, <1>3, <2>1, SiteTypes, SiteEnds, SiteCallStep
<1> QED BY <1>2, <1>3

\* Time, the operator and the cache.
LEMMA SiteOthers ==
  ASSUME SiteInv, Site!Reset \/ Site!OpenTimePasses \/ Site!CacheExpires PROVE SiteInv'
<1>1. siteCall' = siteCall
  BY DEF Site!Reset, Site!OpenTimePasses, Site!CacheExpires
<1>2. CASE Site!Reset
  <2>1. /\ siteBudget' \in [calls : 0..SiteCalls, mishaps : 0..MaxMishaps] /\ "reset" \in siteMishap'
        /\ siteMishap' \subseteq {"cancelled", "escaped", "reset"}
    BY <1>2, SiteMishaps DEF Site!Reset
  <2>2. siteUntil' = "none" /\ siteFailures' = 0 /\ siteProbing' = FALSE
        /\ UNCHANGED <<siteAnnounced, siteCached>>
    BY <1>2 DEF Site!Reset
  <2>3. 0 \in 0..Threshold
    BY SiteAssumption
  <2> QED BY <1>1, <2>1, <2>2, <2>3 DEF SiteInv, Site!TypeOK, Site!ProbeIsHeld, Site!AnnouncedIsTrue
<1>3. CASE Site!OpenTimePasses
  BY <1>1, <1>3 DEF SiteInv, Site!TypeOK, Site!ProbeIsHeld, Site!AnnouncedIsTrue, Site!OpenTimePasses,
                    Site!At
<1>4. CASE Site!CacheExpires
  BY <1>1, <1>4 DEF SiteInv, Site!TypeOK, Site!ProbeIsHeld, Site!AnnouncedIsTrue, Site!CacheExpires,
                    Site!At, Site!breaker
<1> QED BY <1>2, <1>3, <1>4

LEMMA SiteInit == Site!Init => SiteInv
<1> SUFFICES ASSUME Site!Init PROVE SiteInv
  OBVIOUS
<1>1. Site!Idle \in SiteCall /\ Site!Idle.step = "idle"
  BY SiteAssumption DEF Site!Idle, Site!Steps, Site!Kinds, SiteCall
<1>2. /\ siteUntil = "none" /\ siteFailures = 0 /\ siteProbing = FALSE /\ siteAnnounced = "NOTHING"
      /\ siteCached = FALSE /\ siteCall = [c \in Calls |-> Site!Idle] /\ siteMishap = {}
      /\ siteBudget = [calls |-> 0, mishaps |-> 0]
  BY DEF Site!Init
<1>3. 0 \in 0..Threshold /\ 0 \in 0..SiteCalls /\ 0 \in 0..MaxMishaps
  BY SiteAssumption
<1>4. Site!TypeOK
  BY <1>1, <1>2, <1>3 DEF Site!TypeOK, SiteCall
<1> QED BY <1>1, <1>2, <1>4 DEF SiteInv, Site!ProbeIsHeld, Site!AnnouncedIsTrue

LEMMA SiteStep == SiteInv /\ [Site!Next]_(Site!vars) => SiteInv'
<1> SUFFICES ASSUME SiteInv, [Site!Next]_(Site!vars) PROVE SiteInv'
  OBVIOUS
<1>1. CASE UNCHANGED Site!vars
  BY <1>1 DEF Site!vars, SiteInv, Site!TypeOK, Site!ProbeIsHeld, Site!AnnouncedIsTrue, Site!At
<1>2. CASE Site!Next
  BY <1>2, SiteQuietSteps, SiteBegins, SiteAnswers, SiteCancels, SiteOthers DEF Site!Next, Site!Step
<1> QED BY <1>1, <1>2

\* The breaker of a site never waits for a probe that is gone, and what was last
\* announced is its state (site_reliability.py).
THEOREM BreakerStaysTrue == Spec => []BreakerIsTrue
<1> DEFINE Inv == subject = "site" => SiteInv
<1>1. Init => Inv
  BY SiteInit DEF Init
<1>2. Inv /\ [Next]_vars => Inv'
  <2> SUFFICES ASSUME Inv, [Next]_vars, subject' = "site" PROVE SiteInv'
    OBVIOUS
  <2>1. subject = "site" /\ [Site!Next]_(Site!vars)
    BY DEF Next, vars, Others, site, Site!vars
  <2> QED BY <2>1, SiteStep
<1>3. Inv => BreakerIsTrue
  BY DEF SiteInv, BreakerIsTrue
<1> QED BY <1>1, <1>2, <1>3, PTL DEF Spec

-----------------------------------------------------------------------------
(* The outbox of a notification channel *)

\* What a row still counts is what no message has told.
OutboxRowInv == \A r \in OutboxRows :
  /\ outboxOutbox[r].pending <= outboxSeen.events[r] /\ outboxSeen.settled[r] <= outboxSeen.events[r]
  /\ outboxOutbox[r].state = "NONE" => outboxOutbox[r].pending = 0
  /\ outboxOutbox[r].state \in {"PENDING", "RETRY"} => outboxOutbox[r].when # "never"
  /\ outboxOutbox[r].state = "DELIVERED" /\ outboxOutbox[r].pending > 0
       => outboxOutbox[r].when # "never"
  /\ outboxOutbox[r].state # "DEAD" =>
       outboxSeen.settled[r] + outboxOutbox[r].pending >= outboxSeen.events[r]
  /\ outboxOutbox[r].state # "DEAD" /\ ~outboxSeen.again =>
       outboxSeen.settled[r] + outboxOutbox[r].pending
         <= outboxSeen.events[r] + (IF outboxTick.row = r /\ outboxTick.taken
                                    THEN outboxTick.count ELSE 0)

\* Since the message was read, its row and its count have grown by the same events.
OutboxTickInv ==
  /\ \A r \in outboxTick.todo : outboxOutbox[r].state \notin {"NONE", "DEAD"} /\ r # outboxTick.row
  /\ outboxTick.row # "none" =>
       /\ outboxOutbox[outboxTick.row].state \notin {"NONE", "DEAD"}
       /\ outboxTick.count <= outboxOutbox[outboxTick.row].pending
       /\ outboxTick.upto + outboxOutbox[outboxTick.row].pending
            = outboxSeen.events[outboxTick.row] + outboxTick.count
  /\ outboxTick.taken => /\ outboxTick.row # "none"
                         /\ outboxSeen.settled[outboxTick.row] = outboxTick.upto

\* A channel that is OK was tested with the configuration it has.
OutboxChannelInv ==
  /\ outboxChannel.config <= outboxChannel.version
  /\ outboxChannel.status = "OK" \/ outboxChannel.enabled => outboxChannel.config \in outboxSeen.tested
  /\ outboxProbe.on => /\ outboxProbe.version <= outboxChannel.version
                       /\ outboxProbe.version = outboxChannel.version
                            => outboxProbe.config = outboxChannel.config

OutboxInv == Outbox!TypeOK /\ OutboxRowInv /\ OutboxTickInv /\ OutboxChannelInv

LEMMA OutboxTypes ==
  ASSUME OutboxInv
  PROVE  /\ outboxChannel \in Outbox!Channel /\ outboxProbe \in Outbox!Probe
         /\ outboxOutbox \in [OutboxRows -> Outbox!Row]
         /\ \A r \in OutboxRows : /\ outboxOutbox[r] \in Outbox!Row
                                  /\ outboxOutbox[r].pending \in Nat
                                  /\ outboxSeen.events[r] \in 0..MaxEvents
                                  /\ outboxSeen.settled[r] \in 0..MaxEvents
         /\ outboxTick \in Outbox!Tick /\ outboxTick.todo \subseteq OutboxRows
         /\ outboxTick.row \in OutboxRows \cup {"none"} /\ outboxTick.count \in Nat
         /\ outboxTick.upto \in 0..MaxEvents
         /\ outboxTick.taken \in BOOLEAN /\ outboxSeen.again \in BOOLEAN
         /\ outboxSeen \in Outbox!Seen /\ outboxBudget \in [faults : 0..OutboxFaults]
<1>1. Outbox!TypeOK
  BY DEF OutboxInv
<1>2. \A r \in OutboxRows : /\ outboxOutbox[r] \in Outbox!Row /\ outboxSeen.events[r] \in 0..MaxEvents
                            /\ outboxSeen.settled[r] \in 0..MaxEvents
  BY <1>1 DEF Outbox!TypeOK, Outbox!Seen
<1>3. outboxTick \in Outbox!Tick /\ outboxTick.count \in 0..MaxEvents
  BY <1>1 DEF Outbox!TypeOK, Outbox!Tick
<1> QED BY <1>1, <1>2, <1>3, OutboxAssumption DEF Outbox!TypeOK, Outbox!Row, Outbox!Tick, Outbox!Seen

\* What changes neither rows nor counts nor the tick.
LEMMA OutboxQuiet ==
  ASSUME OutboxInv, UNCHANGED <<outboxOutbox, outboxTick, outboxBudget>>,
         outboxSeen' \in Outbox!Seen, outboxSeen'.events = outboxSeen.events,
         outboxSeen'.settled = outboxSeen.settled, outboxSeen'.again = outboxSeen.again,
         outboxChannel' \in Outbox!Channel, outboxProbe' \in Outbox!Probe, OutboxChannelInv'
  PROVE  OutboxInv'
<1>1. Outbox!TypeOK'
  BY DEF OutboxInv, Outbox!TypeOK
<1>2. OutboxRowInv' /\ OutboxTickInv'
  BY DEF OutboxInv, OutboxRowInv, OutboxTickInv
<1> QED BY <1>1, <1>2 DEF OutboxInv

LEMMA OutboxEdits ==
  ASSUME OutboxInv, Outbox!Update \/ Outbox!Rename \/ Outbox!Enable \/ Outbox!Disable
  PROVE  OutboxInv'
<1>1. /\ UNCHANGED <<outboxOutbox, outboxTick, outboxBudget, outboxProbe, outboxSeen>>
      /\ outboxChannel.version < MaxEdits
  BY DEF Outbox!Update, Outbox!Rename, Outbox!Enable, Outbox!Disable, Outbox!Changed
<1>2. /\ outboxChannel \in Outbox!Channel /\ outboxProbe \in Outbox!Probe /\ outboxSeen \in Outbox!Seen
      /\ OutboxChannelInv /\ outboxChannel.version + 1 \in 0..MaxEdits
      /\ outboxChannel.config \in Nat /\ outboxChannel.version \in Nat /\ outboxProbe.version \in Nat
  <2>1. outboxChannel.version \in 0..MaxEdits /\ outboxChannel.config \in 0..MaxEdits
        /\ outboxProbe.version \in 0..MaxEdits
    BY OutboxTypes DEF Outbox!Channel, Outbox!Probe
  <2> QED BY <1>1, <2>1, OutboxTypes, OutboxAssumption DEF OutboxInv
<1>3. CASE Outbox!Update
  <2>1. outboxChannel' = [outboxChannel EXCEPT !.config = outboxChannel.config + 1,
          !.status = "UNTESTED", !.enabled = FALSE, !.version = outboxChannel.version + 1]
    BY <1>2, <1>3 DEF Outbox!Update, Outbox!Changed, Outbox!Channel
  <2>2. outboxChannel.config + 1 \in 0..MaxEdits
    BY <1>1, <1>2, OutboxAssumption DEF OutboxChannelInv
  <2>3. /\ outboxChannel' \in Outbox!Channel /\ outboxChannel'.config = outboxChannel.config + 1
        /\ outboxChannel'.status = "UNTESTED" /\ outboxChannel'.enabled = FALSE
        /\ outboxChannel'.version = outboxChannel.version + 1
    BY <1>2, <2>1, <2>2 DEF Outbox!Channel
  <2>4. OutboxChannelInv'
    BY <1>1, <1>2, <2>3 DEF OutboxChannelInv
  <2> QED BY <1>1, <1>2, <2>3, <2>4, OutboxQuiet
<1>4. ASSUME NEW e \in BOOLEAN, e => outboxChannel.config \in outboxSeen.tested,
             outboxChannel' = [outboxChannel EXCEPT !.enabled = e,
                                                    !.version = outboxChannel.version + 1]
      PROVE  OutboxInv'
  <2>1. /\ outboxChannel' \in Outbox!Channel /\ outboxChannel'.config = outboxChannel.config
        /\ outboxChannel'.status = outboxChannel.status /\ outboxChannel'.enabled = e
        /\ outboxChannel'.version = outboxChannel.version + 1
    BY <1>2, <1>4 DEF Outbox!Channel
  <2>2. OutboxChannelInv'
    BY <1>1, <1>2, <1>4, <2>1 DEF OutboxChannelInv
  <2> QED BY <1>1, <1>2, <2>1, <2>2, OutboxQuiet
<1>5. CASE Outbox!Rename
  <2>1. outboxChannel' = [outboxChannel EXCEPT !.enabled = outboxChannel.enabled,
                                               !.version = outboxChannel.version + 1]
    BY <1>2, <1>5 DEF Outbox!Rename, Outbox!Changed, Outbox!Channel
  <2>2. PICK e \in BOOLEAN : e = outboxChannel.enabled
    BY <1>2 DEF Outbox!Channel
  <2> QED BY <1>2, <1>4, <2>1, <2>2 DEF OutboxChannelInv
<1>6. CASE Outbox!Enable
  BY <1>2, <1>4, <1>6 DEF Outbox!Enable, Outbox!Changed, Outbox!Channel, OutboxChannelInv
<1>7. CASE Outbox!Disable
  BY <1>2, <1>4, <1>7 DEF Outbox!Disable, Outbox!Changed, Outbox!Channel
<1> QED BY <1>3, <1>5, <1>6, <1>7

\* A test saves what it found only for the version it has tested.
LEMMA OutboxTests ==
  ASSUME OutboxInv, Outbox!BeginTest \/ Outbox!EndTest PROVE OutboxInv'
<1>1. /\ outboxChannel \in Outbox!Channel /\ outboxProbe \in Outbox!Probe /\ outboxSeen \in Outbox!Seen
      /\ OutboxChannelInv /\ outboxChannel.version \in Nat /\ outboxChannel.config \in 0..MaxEdits
      /\ outboxProbe.config \in 0..MaxEdits /\ Outbox!NoProbe \in Outbox!Probe
      /\ outboxChannel.version \in 0..MaxEdits
  BY OutboxTypes, OutboxAssumption DEF OutboxInv, Outbox!Channel, Outbox!Probe, Outbox!NoProbe
<1>2. CASE Outbox!BeginTest
  <2>1. /\ UNCHANGED <<outboxOutbox, outboxTick, outboxBudget, outboxChannel, outboxSeen>>
        /\ outboxProbe' = [on |-> TRUE, config |-> outboxChannel.config,
                           version |-> outboxChannel.version]
    BY <1>2 DEF Outbox!BeginTest
  <2>2. outboxProbe' \in Outbox!Probe /\ OutboxChannelInv'
    BY <1>1, <2>1 DEF Outbox!Probe, OutboxChannelInv
  <2> QED BY <1>1, <2>1, <2>2, OutboxQuiet
<1>3. CASE Outbox!EndTest
  <2>1. /\ UNCHANGED <<outboxOutbox, outboxTick, outboxBudget>> /\ outboxProbe.on
        /\ outboxProbe' = Outbox!NoProbe
    BY <1>3 DEF Outbox!EndTest
  <2>2. PICK status \in {"OK", "FAILED"} :
          /\ Outbox!SaveProbe(status)
          /\ \/ status = "OK" /\ outboxSeen' = [outboxSeen EXCEPT !.tested = @ \cup {outboxProbe.config}]
             \/ status = "FAILED" /\ outboxSeen' = outboxSeen
    BY <1>3 DEF Outbox!EndTest
  <2>3. /\ outboxSeen' \in Outbox!Seen /\ outboxSeen'.events = outboxSeen.events
        /\ outboxSeen'.settled = outboxSeen.settled /\ outboxSeen'.again = outboxSeen.again
        /\ outboxSeen.tested \subseteq outboxSeen'.tested
        /\ status = "OK" => outboxProbe.config \in outboxSeen'.tested
    BY <1>1, <2>2 DEF Outbox!Seen
  <2>4. CASE outboxChannel.version = outboxProbe.version
    <3>1. outboxChannel' = [outboxChannel EXCEPT !.status = status]
      BY <2>2, <2>4 DEF Outbox!SaveProbe
    <3>2. /\ outboxChannel' \in Outbox!Channel /\ outboxChannel'.config = outboxChannel.config
          /\ outboxChannel'.status = status /\ outboxChannel'.enabled = outboxChannel.enabled
          /\ outboxChannel'.version = outboxChannel.version
      BY <1>1, <3>1 DEF Outbox!Channel
    <3>3. OutboxChannelInv'
      BY <1>1, <2>1, <2>2, <2>3, <2>4, <3>2 DEF OutboxChannelInv, Outbox!NoProbe
    <3> QED BY <1>1, <2>1, <2>3, <3>2, <3>3, OutboxQuiet
  <2>5. CASE outboxChannel.version # outboxProbe.version
    <3>1. outboxChannel' = outboxChannel
      BY <2>2, <2>5 DEF Outbox!SaveProbe
    <3>2. OutboxChannelInv'
      BY <1>1, <2>1, <2>3, <3>1 DEF OutboxChannelInv, Outbox!NoProbe
    <3> QED BY <1>1, <2>1, <2>3, <3>1, <3>2, OutboxQuiet
  <2> QED BY <2>4, <2>5
<1> QED BY <1>2, <1>3

\* The rows of a tick, one by one, after a step that changes the row r.
LEMMA OutboxRowStep ==
  ASSUME OutboxInv, NEW r \in OutboxRows, NEW row \in Outbox!Row,
         outboxOutbox' = [outboxOutbox EXCEPT ![r] = row]
  PROVE  /\ outboxOutbox' \in [OutboxRows -> Outbox!Row] /\ outboxOutbox'[r] = row
         /\ \A o \in OutboxRows \ {r} : outboxOutbox'[o] = outboxOutbox[o]
BY OutboxTypes

\* An event joins its row, or starts it anew.
LEMMA OutboxAccept ==
  ASSUME OutboxInv, NEW r \in OutboxRows, Outbox!Accept(r) PROVE OutboxInv'
<1> DEFINE old == outboxOutbox[r]
           row == Outbox!Upserted(old)
           settled == IF old.state = "DEAD" THEN outboxSeen.events[r] ELSE outboxSeen.settled[r]
<1>1. /\ UNCHANGED <<outboxChannel, outboxProbe, outboxTick, outboxBudget>>
      /\ outboxSeen.events[r] < MaxEvents
      /\ outboxOutbox' = [outboxOutbox EXCEPT ![r] = row]
  BY OutboxTypes DEF Outbox!Accept
<1>2. outboxSeen' = [outboxSeen EXCEPT
          !.events = [outboxSeen.events EXCEPT ![r] = outboxSeen.events[r] + 1],
          !.settled = [outboxSeen.settled EXCEPT ![r] = settled]]
  BY OutboxTypes DEF Outbox!Accept, Outbox!Seen
<1>3. /\ old \in Outbox!Row /\ old.pending \in Nat /\ old.pending <= outboxSeen.events[r]
      /\ outboxSeen.events[r] + 1 \in 0..MaxEvents /\ settled \in 0..MaxEvents
  <2>1. /\ old \in Outbox!Row /\ old.pending \in Nat /\ old.pending <= outboxSeen.events[r]
        /\ outboxSeen.events[r] \in 0..MaxEvents /\ outboxSeen.settled[r] \in 0..MaxEvents
    BY OutboxTypes DEF OutboxInv, OutboxRowInv
  <2> QED BY <1>1, <2>1, OutboxAssumption
<1>4. /\ row \in Outbox!Row /\ row.state \notin {"NONE", "DEAD"}
      /\ row.state \in {"PENDING", "RETRY", "DELIVERED"} /\ row.when # "never"
      /\ IF old.state \in {"NONE", "DEAD"} THEN row.pending = 1 ELSE row.pending = old.pending + 1
  <2>1. CASE old.state \in {"NONE", "DEAD"}
    <3>1. 1 \in 0..MaxEvents /\ 0 \in 0..DeliveryAttempts
      BY <1>3, OutboxAssumption, OutboxTypes
    <3> QED BY <2>1, <3>1 DEF Outbox!Upserted, Outbox!NewRow, Outbox!Row, Outbox!When
  <2>2. CASE old.state \notin {"NONE", "DEAD"}
    <3>1. row = [old EXCEPT !.pending = old.pending + 1,
                            !.when = IF old.state = "DELIVERED" THEN "later" ELSE old.when]
      BY <1>3, <2>2 DEF Outbox!Upserted, Outbox!Row
    <3>2. old.pending + 1 \in 0..MaxEvents
      BY <1>3, OutboxTypes, OutboxAssumption
    <3>3. old.state \in {"PENDING", "RETRY", "DELIVERED"}
      BY <1>3, <2>2 DEF Outbox!Row
    <3>4. old.state # "DELIVERED" => old.when # "never"
      BY <3>3 DEF OutboxInv, OutboxRowInv
    <3> QED BY <1>3, <2>2, <3>1, <3>2, <3>3, <3>4 DEF Outbox!Row, Outbox!When
  <2> QED BY <2>1, <2>2
<1>5. /\ outboxSeen' \in Outbox!Seen /\ outboxSeen'.tested = outboxSeen.tested
      /\ outboxSeen'.again = outboxSeen.again
      /\ outboxSeen'.events[r] = outboxSeen.events[r] + 1 /\ outboxSeen'.settled[r] = settled
      /\ \A o \in OutboxRows \ {r} : /\ outboxSeen'.events[o] = outboxSeen.events[o]
                                     /\ outboxSeen'.settled[o] = outboxSeen.settled[o]
  <2> HIDE DEF settled
  <2> QED BY <1>2, <1>3, OutboxTypes DEF Outbox!Seen
<1>6. /\ outboxOutbox' \in [OutboxRows -> Outbox!Row] /\ outboxOutbox'[r] = row
      /\ \A o \in OutboxRows \ {r} : outboxOutbox'[o] = outboxOutbox[o]
  <2> HIDE DEF row
  <2> QED BY <1>1, <1>4, OutboxRowStep
<1>7. Outbox!TypeOK'
  BY <1>1, <1>5, <1>6, OutboxTypes DEF Outbox!TypeOK
<1>8. /\ outboxSeen.events[r] \in Nat /\ outboxSeen.settled[r] \in Nat
      /\ outboxSeen.settled[r] <= outboxSeen.events[r] /\ outboxTick.count \in Nat
      /\ outboxTick.row = r => outboxTick.upto \in Nat /\ old.state \notin {"NONE", "DEAD"}
      /\ outboxTick.taken => outboxTick.row # "none"
      /\ old.state = "NONE" => old.pending = 0
      /\ old.state # "DEAD" => outboxSeen.settled[r] + old.pending >= outboxSeen.events[r]
      /\ old.state # "DEAD" /\ ~outboxSeen.again =>
           outboxSeen.settled[r] + old.pending
             <= outboxSeen.events[r] + (IF outboxTick.row = r /\ outboxTick.taken
                                        THEN outboxTick.count ELSE 0)
  BY OutboxTypes, OutboxAssumption DEF OutboxInv, OutboxRowInv, OutboxTickInv
<1>9. OutboxRowInv'
  <2>1. ASSUME NEW o \in OutboxRows, o # r
        PROVE  /\ outboxOutbox'[o] = outboxOutbox[o] /\ outboxSeen'.events[o] = outboxSeen.events[o]
               /\ outboxSeen'.settled[o] = outboxSeen.settled[o]
    BY <1>5, <1>6, <2>1
  <2> DEFINE n == IF outboxTick.row = r /\ outboxTick.taken THEN outboxTick.count ELSE 0
  <2>2. n \in Nat /\ (old.state = "NONE" => n = 0) /\ (old.state = "DEAD" => n = 0)
    BY <1>8
  <2>3. /\ row.pending <= outboxSeen.events[r] + 1 /\ settled <= outboxSeen.events[r] + 1
        /\ settled + row.pending >= outboxSeen.events[r] + 1
        /\ ~outboxSeen.again => settled + row.pending <= outboxSeen.events[r] + 1 + n
    <3>1. CASE old.state = "NONE"
      BY <1>3, <1>4, <1>8, <2>2, <3>1
    <3>2. CASE old.state = "DEAD"
      BY <1>3, <1>4, <1>8, <2>2, <3>2
    <3>3. CASE old.state \notin {"NONE", "DEAD"}
      BY <1>3, <1>4, <1>8, <2>2, <3>3
    <3> QED BY <3>1, <3>2, <3>3
  <2> HIDE DEF settled, row
  <2> QED BY <1>1, <1>4, <1>5, <1>6, <2>1, <2>3 DEF OutboxInv, OutboxRowInv
<1>10. OutboxTickInv'
  <2>1. \A o \in outboxTick.todo : o \in OutboxRows /\ outboxOutbox'[o].state \notin {"NONE", "DEAD"}
    BY <1>4, <1>6, OutboxTypes DEF OutboxInv, OutboxTickInv
  <2>2. ASSUME outboxTick.row = r
        PROVE  /\ row.pending = old.pending + 1 /\ outboxTick.count <= row.pending
               /\ outboxTick.upto + row.pending = outboxSeen.events[r] + 1 + outboxTick.count
               /\ outboxTick.taken => outboxSeen.settled[r] = settled
    <3>1. /\ outboxTick.count <= old.pending /\ outboxTick.upto \in Nat
          /\ outboxTick.upto + old.pending = outboxSeen.events[r] + outboxTick.count
      BY <2>2, <1>8, OutboxTypes, OutboxAssumption DEF OutboxInv, OutboxTickInv
    <3> QED BY <1>3, <1>4, <1>8, <2>2, <3>1
  <2> HIDE DEF row, settled
  <2>3. CASE outboxTick.row = r
    BY <1>1, <1>4, <1>5, <1>6, <2>1, <2>2, <2>3 DEF OutboxInv, OutboxTickInv
  <2>4. CASE outboxTick.row # r
    BY <1>1, <1>5, <1>6, <2>1, <2>4, OutboxTypes DEF OutboxInv, OutboxTickInv
  <2> QED BY <2>3, <2>4
<1>11. OutboxChannelInv'
  BY <1>1, <1>5 DEF OutboxInv, OutboxChannelInv
<1> QED BY <1>7, <1>9, <1>10, <1>11 DEF OutboxInv

\* Time only lets a waiting row be due.
LEMMA OutboxTime ==
  ASSUME OutboxInv, NEW r \in OutboxRows, Outbox!TimePasses(r) PROVE OutboxInv'
<1> DEFINE row == [outboxOutbox[r] EXCEPT !.when = "now"]
<1>1. /\ UNCHANGED <<outboxChannel, outboxProbe, outboxTick, outboxSeen, outboxBudget>>
      /\ outboxOutbox' = [outboxOutbox EXCEPT ![r] = row]
  BY OutboxTypes DEF Outbox!TimePasses
<1>2. /\ row \in Outbox!Row /\ row.state = outboxOutbox[r].state /\ row.when = "now"
      /\ row.pending = outboxOutbox[r].pending
  BY OutboxTypes DEF Outbox!Row, Outbox!When
<1> HIDE DEF row
<1>3. /\ outboxOutbox' \in [OutboxRows -> Outbox!Row] /\ outboxOutbox'[r] = row
      /\ \A o \in OutboxRows \ {r} : outboxOutbox'[o] = outboxOutbox[o]
  BY <1>1, <1>2, OutboxRowStep
<1>4. \A o \in OutboxRows : /\ outboxOutbox'[o].state = outboxOutbox[o].state
                            /\ outboxOutbox'[o].pending = outboxOutbox[o].pending
                            /\ outboxOutbox[o].when # "never" => outboxOutbox'[o].when # "never"
  BY <1>2, <1>3
<1>5. Outbox!TypeOK' /\ OutboxChannelInv'
  BY <1>1, <1>3 DEF OutboxInv, Outbox!TypeOK, OutboxChannelInv
<1>6. OutboxRowInv'
  BY <1>1, <1>4 DEF OutboxInv, OutboxRowInv
<1>7. OutboxTickInv'
  BY <1>1, <1>4, OutboxTypes DEF OutboxInv, OutboxTickInv
<1> QED BY <1>5, <1>6, <1>7 DEF OutboxInv

\* A row that is sent in vain waits for its next attempt, or is given up.
LEMMA OutboxFails ==
  ASSUME NEW row \in Outbox!Row, row.state \notin {"NONE", "DEAD"}, NEW retryable \in BOOLEAN
  PROVE  /\ Outbox!Failed(row, retryable) \in Outbox!Row
         /\ Outbox!Failed(row, retryable).pending = row.pending
         /\ \/ Outbox!Failed(row, retryable).state = "DEAD"
            \/ /\ Outbox!Failed(row, retryable).state = "RETRY"
               /\ Outbox!Failed(row, retryable).when = "later"
<1> DEFINE attempts == IF row.attempts < DeliveryAttempts THEN row.attempts + 1 ELSE row.attempts
           again == retryable /\ row.attempts + 1 < DeliveryAttempts
<1>1. attempts \in 0..DeliveryAttempts
  <2>1. row.attempts \in 0..DeliveryAttempts
    BY DEF Outbox!Row
  <2> QED BY <2>1, OutboxAssumption
<1>2. Outbox!Failed(row, retryable) =
        IF again THEN [row EXCEPT !.state = "RETRY", !.attempts = attempts, !.when = "later"]
        ELSE [row EXCEPT !.state = "DEAD", !.attempts = attempts, !.when = "never"]
  BY DEF Outbox!Failed
<1> HIDE DEF attempts, again
<1> QED BY <1>1, <1>2 DEF Outbox!Row, Outbox!When

LEMMA OutboxBegins ==
  ASSUME OutboxInv, Outbox!BeginTick PROVE OutboxInv'
<1>1. /\ UNCHANGED <<outboxChannel, outboxProbe, outboxOutbox, outboxSeen, outboxBudget>>
      /\ outboxTick = Outbox!NoTick
  BY DEF Outbox!BeginTick
<1>2. PICK todo \in SUBSET Outbox!Due : outboxTick' = [Outbox!NoTick EXCEPT !.todo = todo]
  BY DEF Outbox!BeginTick
<1>3. /\ todo \subseteq OutboxRows
      /\ \A r \in todo : outboxOutbox[r].state \notin {"NONE", "DEAD"}
  BY <1>2 DEF Outbox!Due
<1>4. /\ outboxTick'.todo = todo /\ outboxTick'.row = "none" /\ outboxTick'.count = 0
      /\ outboxTick'.upto = 0 /\ outboxTick'.taken = FALSE
      /\ outboxTick.taken = FALSE /\ outboxTick' \in Outbox!Tick
  <2>1. outboxTick' = [todo |-> todo, row |-> "none", count |-> 0, upto |-> 0, taken |-> FALSE]
    BY <1>2 DEF Outbox!NoTick
  <2>2. 0 \in 0..MaxEvents /\ outboxTick.taken = FALSE
    BY <1>1, OutboxAssumption DEF Outbox!NoTick
  <2> QED BY <1>3, <2>1, <2>2 DEF Outbox!Tick
<1>5. Outbox!TypeOK' /\ OutboxChannelInv'
  BY <1>1, <1>4 DEF OutboxInv, Outbox!TypeOK, OutboxChannelInv
<1>6. OutboxRowInv'
  BY <1>1, <1>4 DEF OutboxInv, OutboxRowInv
<1>7. OutboxTickInv'
  BY <1>1, <1>3, <1>4, OutboxAssumption DEF OutboxTickInv
<1> QED BY <1>5, <1>6, <1>7 DEF OutboxInv

\* What is pending is counted before the provider is called.
LEMMA OutboxLoad ==
  ASSUME OutboxInv, NEW r \in OutboxRows, Outbox!Load(r) PROVE OutboxInv'
<1>1. /\ UNCHANGED <<outboxChannel, outboxProbe, outboxSeen, outboxBudget>>
      /\ outboxTick.row = "none" /\ r \in outboxTick.todo
  BY DEF Outbox!Load
<1>2. /\ outboxTick \in Outbox!Tick /\ outboxOutbox[r] \in Outbox!Row
      /\ outboxOutbox[r].state \notin {"NONE", "DEAD"} /\ outboxTick.taken = FALSE
      /\ outboxTick.todo \subseteq OutboxRows
      /\ \A o \in outboxTick.todo : outboxOutbox[o].state \notin {"NONE", "DEAD"}
  BY <1>1, OutboxTypes DEF OutboxInv, OutboxTickInv, Outbox!Tick
<1>3. OutboxChannelInv'
  BY <1>1 DEF OutboxInv, OutboxChannelInv
<1>4. CASE outboxOutbox[r].pending > 0 /\ outboxChannel.enabled
  <2>1. outboxOutbox' = outboxOutbox
    BY <1>4 DEF Outbox!Load
  <2>2. outboxTick' = [outboxTick EXCEPT !.todo = outboxTick.todo \ {r}, !.row = r,
                         !.count = outboxOutbox[r].pending, !.upto = outboxSeen.events[r]]
    BY <1>2, <1>4 DEF Outbox!Load, Outbox!Tick
  <2>3. outboxOutbox[r].pending \in 0..MaxEvents /\ outboxSeen.events[r] \in 0..MaxEvents
    BY <1>2, OutboxTypes DEF Outbox!Row
  <2>4. /\ outboxTick' \in Outbox!Tick /\ outboxTick'.todo = outboxTick.todo \ {r}
        /\ outboxTick'.row = r /\ outboxTick'.count = outboxOutbox[r].pending
        /\ outboxTick'.upto = outboxSeen.events[r] /\ outboxTick'.taken = FALSE
    BY <1>2, <2>2, <2>3 DEF Outbox!Tick
  <2>5. Outbox!TypeOK'
    BY <1>1, <2>1, <2>4 DEF OutboxInv, Outbox!TypeOK
  <2>6. OutboxRowInv'
    BY <1>1, <1>2, <2>1, <2>4 DEF OutboxInv, OutboxRowInv
  <2>7. OutboxTickInv'
    BY <1>1, <1>2, <2>1, <2>3, <2>4, OutboxAssumption DEF OutboxTickInv
  <2> QED BY <1>3, <2>5, <2>6, <2>7 DEF OutboxInv
<1>5. CASE ~(outboxOutbox[r].pending > 0 /\ outboxChannel.enabled)
  <2>1. outboxTick' = [outboxTick EXCEPT !.todo = outboxTick.todo \ {r}]
    BY <1>2, <1>5 DEF Outbox!Load, Outbox!Tick
  <2>2. /\ outboxTick' \in Outbox!Tick /\ outboxTick'.todo = outboxTick.todo \ {r}
        /\ outboxTick'.row = "none" /\ outboxTick'.taken = FALSE
    BY <1>1, <1>2, <2>1 DEF Outbox!Tick
  <2>3. PICK row \in Outbox!Row :
          /\ outboxOutbox' = [outboxOutbox EXCEPT ![r] = row]
          /\ row = outboxOutbox[r] \/ row = Outbox!Failed(outboxOutbox[r], FALSE)
    <3>1. CASE outboxOutbox[r].pending > 0 /\ ~outboxChannel.enabled
      <4>1. Outbox!Failed(outboxOutbox[r], FALSE) \in Outbox!Row
        BY <1>2, OutboxFails
      <4>2. outboxOutbox' = [outboxOutbox EXCEPT ![r] = Outbox!Failed(outboxOutbox[r], FALSE)]
        BY <3>1, OutboxTypes DEF Outbox!Load
      <4> QED BY <4>1, <4>2
    <3>2. CASE ~(outboxOutbox[r].pending > 0 /\ ~outboxChannel.enabled)
      <4>1. outboxOutbox' = outboxOutbox
        BY <3>2 DEF Outbox!Load
      <4>2. outboxOutbox' = [outboxOutbox EXCEPT ![r] = outboxOutbox[r]]
        BY <4>1, OutboxTypes
      <4> QED BY <1>2, <4>2
    <3> QED BY <3>1, <3>2
  <2>4. /\ row.pending = outboxOutbox[r].pending
        /\ \/ row = outboxOutbox[r] \/ row.state = "DEAD"
           \/ (row.state = "RETRY" /\ row.when = "later")
    <3>1. PICK old \in Outbox!Row : old = outboxOutbox[r] /\ old.state \notin {"NONE", "DEAD"}
      BY <1>2
    <3>2. /\ Outbox!Failed(old, FALSE).pending = old.pending
          /\ \/ Outbox!Failed(old, FALSE).state = "DEAD"
             \/ /\ Outbox!Failed(old, FALSE).state = "RETRY"
                /\ Outbox!Failed(old, FALSE).when = "later"
      BY <3>1, OutboxFails
    <3> QED BY <2>3, <3>1, <3>2
  <2>5. /\ outboxOutbox' \in [OutboxRows -> Outbox!Row] /\ outboxOutbox'[r] = row
        /\ \A o \in OutboxRows \ {r} : outboxOutbox'[o] = outboxOutbox[o]
    BY <2>3, OutboxRowStep
  <2>6. Outbox!TypeOK'
    BY <1>1, <2>2, <2>5 DEF OutboxInv, Outbox!TypeOK
  <2>7. OutboxRowInv'
    BY <1>1, <1>2, <2>2, <2>4, <2>5 DEF OutboxInv, OutboxRowInv
  <2>8. OutboxTickInv'
    <3>1. "none" \notin outboxTick.todo
      BY <1>2, OutboxAssumption
    <3> QED BY <1>1, <1>2, <2>2, <2>5, <3>1 DEF OutboxTickInv
  <2> QED BY <1>3, <2>6, <2>7, <2>8 DEF OutboxInv
<1> QED BY <1>4, <1>5

\* The provider has told what the message announces.
LEMMA OutboxTakes ==
  ASSUME OutboxInv, Outbox!ProviderTakes PROVE OutboxInv'
<1> DEFINE r == outboxTick.row
<1>1. /\ UNCHANGED <<outboxChannel, outboxProbe, outboxOutbox, outboxBudget>>
      /\ r # "none" /\ ~outboxTick.taken
      /\ outboxTick' = [outboxTick EXCEPT !.taken = TRUE]
  BY DEF Outbox!ProviderTakes
<1>2. /\ r \in OutboxRows /\ outboxTick \in Outbox!Tick /\ outboxSeen \in Outbox!Seen
      /\ outboxTick.upto \in 0..MaxEvents
  BY <1>1, OutboxTypes
<1>3. outboxSeen' = [outboxSeen EXCEPT
          !.settled = [outboxSeen.settled EXCEPT ![r] = outboxTick.upto], !.again = outboxSeen.again]
  BY <1>2 DEF Outbox!ProviderTakes, Outbox!Settled, Outbox!Seen
<1>4. /\ outboxTick' \in Outbox!Tick /\ outboxTick'.todo = outboxTick.todo /\ outboxTick'.row = r
      /\ outboxTick'.count = outboxTick.count /\ outboxTick'.upto = outboxTick.upto
      /\ outboxTick'.taken = TRUE
  BY <1>1, <1>2 DEF Outbox!Tick
<1>5. /\ outboxSeen' \in Outbox!Seen /\ outboxSeen'.events = outboxSeen.events
      /\ outboxSeen'.tested = outboxSeen.tested /\ outboxSeen'.again = outboxSeen.again
      /\ outboxSeen'.settled[r] = outboxTick.upto
      /\ \A o \in OutboxRows \ {r} : outboxSeen'.settled[o] = outboxSeen.settled[o]
  BY <1>2, <1>3 DEF Outbox!Seen
<1>6. Outbox!TypeOK' /\ OutboxChannelInv'
  BY <1>1, <1>4, <1>5 DEF OutboxInv, Outbox!TypeOK, OutboxChannelInv
<1>7. /\ outboxOutbox[r].state \notin {"NONE", "DEAD"} /\ outboxTick.count <= outboxOutbox[r].pending
      /\ outboxTick.upto + outboxOutbox[r].pending = outboxSeen.events[r] + outboxTick.count
      /\ outboxOutbox[r].pending \in Nat /\ outboxTick.upto \in Nat /\ outboxTick.count \in Nat
      /\ outboxSeen.events[r] \in Nat
  BY <1>1, <1>2, OutboxTypes, OutboxAssumption DEF OutboxInv, OutboxTickInv
<1> HIDE DEF r
<1>8. OutboxRowInv'
  <2>1. ASSUME NEW o \in OutboxRows \ {r}
        PROVE  outboxSeen'.settled[o] = outboxSeen.settled[o] /\ outboxTick'.row # o
    BY <1>4, <1>5
  <2>2. outboxTick.row = r
    BY DEF r
  <2> QED BY <1>1, <1>2, <1>4, <1>5, <1>7, <2>1, <2>2 DEF OutboxInv, OutboxRowInv
<1>9. OutboxTickInv'
  <2>1. outboxTick.row = r
    BY DEF r
  <2> QED BY <1>1, <1>4, <1>5, <2>1 DEF OutboxInv, OutboxTickInv
<1> QED BY <1>6, <1>8, <1>9 DEF OutboxInv

LEMMA OutboxNextRow ==
  ASSUME OutboxInv
  PROVE  /\ Outbox!NextRow \in Outbox!Tick /\ Outbox!NextRow.todo = outboxTick.todo
         /\ Outbox!NextRow.row = "none" /\ Outbox!NextRow.taken = FALSE
         /\ Outbox!NoTick \in Outbox!Tick /\ Outbox!NoTick.todo = {}
         /\ Outbox!NoTick.row = "none" /\ Outbox!NoTick.taken = FALSE
<1>1. /\ Outbox!NextRow.todo = outboxTick.todo /\ Outbox!NextRow.row = "none"
      /\ Outbox!NextRow.taken = FALSE
  BY DEF Outbox!NextRow, Outbox!NoTick
<1>2. 0 \in 0..MaxEvents /\ outboxTick.todo \subseteq OutboxRows
  BY OutboxTypes, OutboxAssumption
<1>3. Outbox!NoTick \in Outbox!Tick
  BY <1>2 DEF Outbox!NoTick, Outbox!Tick
<1>4. Outbox!NextRow \in Outbox!Tick
  BY <1>2, <1>3 DEF Outbox!NextRow, Outbox!Tick
<1> QED BY <1>1, <1>3, <1>4 DEF Outbox!NoTick

\* What was told is taken off the count of the row.
LEMMA OutboxDelivered ==
  ASSUME OutboxInv, Outbox!Delivered PROVE OutboxInv'
<1> DEFINE r == outboxTick.row
           old == outboxOutbox[r]
           row == Outbox!Marked(old)
<1>1. /\ UNCHANGED <<outboxChannel, outboxProbe, outboxSeen, outboxBudget>> /\ outboxTick.taken
      /\ outboxTick' = Outbox!NextRow
  BY DEF Outbox!Delivered
<1>2. /\ r \in OutboxRows /\ old \in Outbox!Row /\ old.pending \in 0..MaxEvents
      /\ outboxTick.count \in Nat /\ outboxTick.count <= old.pending
      /\ outboxTick.upto + old.pending = outboxSeen.events[r] + outboxTick.count
      /\ outboxSeen.settled[r] = outboxTick.upto /\ outboxTick.upto \in Nat
      /\ outboxSeen.events[r] \in Nat /\ old.pending \in Nat /\ old.pending <= outboxSeen.events[r]
  <2>1. r \in OutboxRows
    BY <1>1, OutboxTypes DEF OutboxInv, OutboxTickInv
  <2>2. old.pending \in 0..MaxEvents
    BY <2>1, OutboxTypes DEF Outbox!Row
  <2> QED BY <1>1, <2>1, <2>2, OutboxTypes, OutboxAssumption DEF OutboxInv, OutboxTickInv, OutboxRowInv
<1> DEFINE remaining == IF old.pending > outboxTick.count THEN old.pending - outboxTick.count ELSE 0
<1>3. remaining = old.pending - outboxTick.count /\ remaining \in 0..MaxEvents
  BY <1>2, OutboxAssumption
<1>4. row = [old EXCEPT !.state = "DELIVERED", !.attempts = 0, !.pending = remaining,
                        !.when = IF remaining > 0 THEN "later" ELSE "never"]
  BY DEF Outbox!Marked
<1>5. /\ row \in Outbox!Row /\ row.state = "DELIVERED" /\ row.pending = remaining
      /\ remaining > 0 => row.when = "later"
  <2> HIDE DEF remaining, old
  <2>1. 0 \in 0..DeliveryAttempts
    BY OutboxAssumption
  <2> QED BY <1>2, <1>3, <1>4, <2>1 DEF Outbox!Row, Outbox!When
<1>6. outboxOutbox' = [outboxOutbox EXCEPT ![r] = row]
  BY OutboxTypes, <1>2 DEF Outbox!Delivered
<1> HIDE DEF row
<1>7. /\ outboxOutbox' \in [OutboxRows -> Outbox!Row] /\ outboxOutbox'[r] = row
      /\ \A o \in OutboxRows \ {r} : outboxOutbox'[o] = outboxOutbox[o]
  <2> HIDE DEF r
  <2> QED BY <1>2, <1>5, <1>6, OutboxRowStep
<1>8. Outbox!TypeOK' /\ OutboxChannelInv'
  BY <1>1, <1>7, OutboxNextRow DEF OutboxInv, Outbox!TypeOK, OutboxChannelInv
<1>9. OutboxRowInv'
  <2>1. /\ remaining \in Nat /\ remaining <= outboxSeen.events[r]
        /\ outboxSeen.settled[r] + remaining = outboxSeen.events[r]
    BY <1>2, <1>3
  <2>2. outboxTick'.row = "none" /\ outboxTick.row = r
    BY <1>1, OutboxNextRow
  <2> HIDE DEF remaining, old, r
  <2> QED BY <1>1, <1>2, <1>5, <1>7, <2>1, <2>2, OutboxAssumption DEF OutboxInv, OutboxRowInv
<1>10. OutboxTickInv'
  <2>1. /\ outboxTick'.todo = outboxTick.todo /\ outboxTick'.row = "none"
        /\ outboxTick'.taken = FALSE
    BY <1>1, OutboxNextRow
  <2>2. \A o \in outboxTick.todo : /\ o \in OutboxRows /\ o # r
                                   /\ outboxOutbox[o].state \notin {"NONE", "DEAD"}
    BY OutboxTypes DEF OutboxInv, OutboxTickInv
  <2>3. "none" \notin outboxTick.todo
    BY <2>2, OutboxAssumption
  <2> HIDE DEF r
  <2> QED BY <1>7, <2>1, <2>2, <2>3 DEF OutboxTickInv
<1> QED BY <1>8, <1>9, <1>10 DEF OutboxInv

\* A step that ends the sending of a message, or of the whole tick, and leaves
\* the counts alone.
LEMMA OutboxGivesUp ==
  ASSUME OutboxInv, UNCHANGED outboxChannel, outboxProbe' = outboxProbe \/ outboxProbe' = Outbox!NoProbe,
         outboxTick' = Outbox!NextRow \/ outboxTick' = Outbox!NoTick,
         outboxSeen' = [outboxSeen EXCEPT !.again = @ \/ outboxTick.taken],
         outboxBudget' \in [faults : 0..OutboxFaults],
         outboxOutbox' \in [OutboxRows -> Outbox!Row],
         \A o \in OutboxRows :
           \/ outboxOutbox'[o] = outboxOutbox[o]
           \/ /\ o = outboxTick.row /\ outboxOutbox'[o].pending = outboxOutbox[o].pending
              /\ \/ outboxOutbox'[o].state = "DEAD"
                 \/ (outboxOutbox'[o].state = "RETRY" /\ outboxOutbox'[o].when = "later")
  PROVE  OutboxInv'
<1>1. /\ outboxSeen' \in Outbox!Seen /\ outboxSeen'.events = outboxSeen.events
      /\ outboxSeen'.settled = outboxSeen.settled /\ outboxSeen'.tested = outboxSeen.tested
      /\ ~outboxSeen'.again => (~outboxSeen.again /\ ~outboxTick.taken)
  <2>1. outboxSeen \in Outbox!Seen
    BY OutboxTypes
  <2> QED BY <2>1, OutboxTypes DEF Outbox!Seen
<1>2. /\ outboxTick' \in Outbox!Tick /\ outboxTick'.todo \subseteq outboxTick.todo
      /\ outboxTick'.row = "none" /\ outboxTick'.taken = FALSE
  BY OutboxNextRow
<1>3. Outbox!TypeOK' /\ OutboxChannelInv'
  <2>1. Outbox!NoProbe \in Outbox!Probe /\ Outbox!NoProbe.on = FALSE
    BY OutboxAssumption DEF Outbox!NoProbe, Outbox!Probe
  <2> QED BY <1>1, <1>2, <2>1 DEF OutboxInv, Outbox!TypeOK, OutboxChannelInv
<1>4. OutboxRowInv'
  <2>1. ASSUME NEW o \in OutboxRows
        PROVE  /\ outboxOutbox'[o].pending = outboxOutbox[o].pending
               /\ outboxOutbox'[o].state \in {outboxOutbox[o].state, "RETRY", "DEAD"}
               /\ outboxOutbox'[o].state # "DEAD" => outboxOutbox[o].state # "DEAD"
               /\ outboxOutbox'[o].state = "NONE" => outboxOutbox[o].state = "NONE"
               /\ \/ outboxOutbox'[o] = outboxOutbox[o]
                  \/ outboxOutbox'[o].state = "DEAD"
                  \/ (outboxOutbox'[o].state = "RETRY" /\ outboxOutbox'[o].when = "later")
    <3>1. o = outboxTick.row => outboxOutbox[o].state \notin {"NONE", "DEAD"}
      BY OutboxAssumption DEF OutboxInv, OutboxTickInv
    <3> QED BY <3>1
  <2> QED BY <1>1, <1>2, <2>1, OutboxAssumption DEF OutboxInv, OutboxRowInv
<1>5. OutboxTickInv'
  <2>1. \A o \in outboxTick.todo : /\ o \in OutboxRows /\ o # outboxTick.row /\ o # "none"
                                   /\ outboxOutbox[o].state \notin {"NONE", "DEAD"}
    BY OutboxTypes, OutboxAssumption DEF OutboxInv, OutboxTickInv
  <2> QED BY <1>2, <2>1 DEF OutboxTickInv
<1> QED BY <1>3, <1>4, <1>5 DEF OutboxInv

LEMMA OutboxFailures ==
  ASSUME OutboxInv, Outbox!Failure \/ Outbox!Stop PROVE OutboxInv'
<1>1. outboxBudget' \in [faults : 0..OutboxFaults]
  <2>1. /\ outboxBudget.faults < OutboxFaults
        /\ outboxBudget' = [outboxBudget EXCEPT !.faults = outboxBudget.faults + 1]
    BY DEF Outbox!Failure, Outbox!Stop
  <2>2. outboxBudget.faults \in 0..OutboxFaults /\ outboxBudget \in [faults : 0..OutboxFaults]
    BY OutboxTypes
  <2>3. outboxBudget.faults + 1 \in 0..OutboxFaults
    BY <2>1, <2>2, OutboxAssumption
  <2> QED BY <2>1, <2>2, <2>3
<1>2. CASE Outbox!Stop
  BY <1>1, <1>2, OutboxTypes, OutboxGivesUp DEF Outbox!Stop
<1>3. CASE Outbox!Failure
  <2>1. outboxTick.row \in OutboxRows /\ outboxOutbox[outboxTick.row].state \notin {"NONE", "DEAD"}
        /\ outboxOutbox[outboxTick.row] \in Outbox!Row
    BY <1>3, OutboxTypes DEF Outbox!Failure, OutboxInv, OutboxTickInv
  <2>2. PICK retryable \in BOOLEAN : outboxOutbox' =
          [outboxOutbox EXCEPT ![outboxTick.row] =
             Outbox!Failed(outboxOutbox[outboxTick.row], retryable)]
    BY <1>3, <2>1, OutboxTypes DEF Outbox!Failure
  <2>3. PICK r \in OutboxRows : r = outboxTick.row
    BY <2>1
  <2>4. PICK row \in Outbox!Row : /\ row = Outbox!Failed(outboxOutbox[r], retryable)
                                  /\ row.pending = outboxOutbox[r].pending
                                  /\ \/ row.state = "DEAD"
                                     \/ (row.state = "RETRY" /\ row.when = "later")
    BY <2>1, <2>3, OutboxFails
  <2>5. /\ outboxOutbox' \in [OutboxRows -> Outbox!Row] /\ outboxOutbox'[r] = row
        /\ \A o \in OutboxRows \ {r} : outboxOutbox'[o] = outboxOutbox[o]
    BY <2>2, <2>3, <2>4, OutboxRowStep
  <2> QED BY <1>1, <1>3, <2>3, <2>4, <2>5, OutboxGivesUp DEF Outbox!Failure
<1> QED BY <1>2, <1>3

LEMMA OutboxInit == Outbox!Init => OutboxInv
<1> SUFFICES ASSUME Outbox!Init PROVE OutboxInv
  OBVIOUS
<1>1. /\ outboxChannel = [config |-> 0, version |-> 0, status |-> "OK", enabled |-> TRUE]
      /\ outboxProbe = Outbox!NoProbe /\ outboxOutbox = [r \in OutboxRows |-> Outbox!NoRow]
      /\ outboxTick = Outbox!NoTick /\ outboxBudget = [faults |-> 0]
      /\ outboxSeen = [events |-> [r \in OutboxRows |-> 0], settled |-> [r \in OutboxRows |-> 0],
                       tested |-> {0}, again |-> FALSE]
  BY DEF Outbox!Init
<1>2. /\ 0 \in 0..MaxEvents /\ 0 \in 0..MaxEdits /\ 0 \in 0..DeliveryAttempts /\ 0 \in 0..OutboxFaults
  BY OutboxAssumption
<1>3. Outbox!TypeOK
  <2>1. Outbox!NoRow \in Outbox!Row /\ Outbox!NoTick \in Outbox!Tick /\ Outbox!NoProbe \in Outbox!Probe
    BY <1>2 DEF Outbox!NoRow, Outbox!Row, Outbox!When, Outbox!NoTick, Outbox!Tick, Outbox!NoProbe,
                Outbox!Probe
  <2>2. outboxSeen \in Outbox!Seen /\ outboxChannel \in Outbox!Channel
    BY <1>1, <1>2 DEF Outbox!Seen, Outbox!Channel
  <2> QED BY <1>1, <1>2, <2>1, <2>2 DEF Outbox!TypeOK
<1>4. OutboxRowInv /\ OutboxTickInv /\ OutboxChannelInv
  BY <1>1 DEF OutboxRowInv, OutboxTickInv, OutboxChannelInv, Outbox!NoRow, Outbox!NoTick, Outbox!NoProbe
<1> QED BY <1>3, <1>4 DEF OutboxInv

LEMMA OutboxStep == OutboxInv /\ [Outbox!Next]_(Outbox!vars) => OutboxInv'
<1> SUFFICES ASSUME OutboxInv, [Outbox!Next]_(Outbox!vars) PROVE OutboxInv'
  OBVIOUS
<1>1. CASE UNCHANGED Outbox!vars
  BY <1>1 DEF Outbox!vars, OutboxInv, Outbox!TypeOK, OutboxRowInv, OutboxTickInv, OutboxChannelInv
<1>2. CASE Outbox!Next
  BY <1>2, OutboxAccept, OutboxTime, OutboxLoad, OutboxBegins, OutboxTakes, OutboxDelivered,
     OutboxFailures, OutboxEdits, OutboxTests DEF Outbox!Next
<1> QED BY <1>1, <1>2

LEMMA OutboxPromises ==
  ASSUME OutboxInv PROVE Outbox!NothingForgotten /\ Outbox!CountIsTrue /\ Outbox!EnabledIsTested
<1>1. \A r \in OutboxRows : /\ outboxOutbox[r] \in Outbox!Row /\ outboxOutbox[r].pending \in Nat
                            /\ outboxSeen.events[r] \in Nat /\ outboxSeen.settled[r] \in Nat
                            /\ outboxTick.count \in Nat
  BY OutboxTypes, OutboxAssumption
<1>2. Outbox!NothingForgotten
  BY <1>1 DEF OutboxInv, OutboxRowInv, Outbox!NothingForgotten, Outbox!Live, Outbox!Row
<1>3. Outbox!CountIsTrue
  BY <1>1 DEF OutboxInv, OutboxRowInv, Outbox!CountIsTrue, Outbox!Live
<1> QED BY <1>2, <1>3 DEF OutboxInv, OutboxChannelInv, Outbox!EnabledIsTested

\* An event that arrives while a message is sent is not lost with it, no message
\* announces it twice, and a channel is enabled only with a configuration that
\* was tested (notification_repositories.py, notifications.py).
THEOREM DeliveriesStayTrue == Spec => []DeliveriesAreTrue
<1> DEFINE Inv == subject = "outbox" => OutboxInv
<1>1. Init => Inv
  BY OutboxInit DEF Init
<1>2. Inv /\ [Next]_vars => Inv'
  <2> SUFFICES ASSUME Inv, [Next]_vars, subject' = "outbox" PROVE OutboxInv'
    OBVIOUS
  <2>1. subject = "outbox" /\ [Outbox!Next]_(Outbox!vars)
    BY DEF Next, vars, Others, outbox, Outbox!vars
  <2> QED BY <2>1, OutboxStep
<1>3. Inv => DeliveriesAreTrue
  BY OutboxPromises DEF OutboxInv, DeliveriesAreTrue
<1> QED BY <1>1, <1>2, <1>3, PTL DEF Spec

-----------------------------------------------------------------------------
(* The database file and what replaces it *)

\* The log was written for a file that was there; what a switch leads to, or
\* back to, is held.
DatabaseSwitchInv ==
  LET at == databaseSwitch.at
      apart == databaseLog = Database!None \/ databaseLog.id # databaseFile.id
  IN  /\ at = "none" => (Database!Torn => databaseCut)
      /\ at \in {"begun", "saved", "prepared"} => ~Database!Torn
      /\ at = "begun" => \/ databaseSwitch.source = Database!DataOf(Database!None)
                         \/ databaseSwitch.source.commit \in databaseHeld
      /\ at \notin {"none", "begun"} => /\ databaseSwitch.source.commit \in databaseHeld
                                        /\ databaseSwitch.safety.commit \in databaseHeld
      /\ at \in {"prepared", "renamed", "cleaned"} => databaseSwitch.source.rev = databaseCode
      /\ at \in {"renamed", "cleaned", "undo"} =>
           /\ databaseFile.commit = databaseSwitch.source.commit
           /\ databaseFile.rev = databaseSwitch.source.rev
      /\ at \in {"renamed", "undo"} =>
           databaseLog = Database!None \/ databaseLog.id < databaseFile.id
      /\ at \in {"cleaned", "undoneClean"} => databaseLog = Database!None
      /\ at = "undone" => apart
      /\ at \in {"undone", "undoneClean"} => databaseFile.commit = databaseSwitch.safety.commit

DatabaseAppInv ==
  /\ databaseApp # "down" => databaseSwitch.at = "none"
  /\ databaseApp = "torn" => databaseCut
  /\ databaseApp = "up" => /\ ~Database!Torn /\ Database!Seen.rev = databaseCode
                           /\ databaseFile # Database!None

DatabaseFileInv ==
  /\ databaseFile = Database!None \/ databaseFile.id > 0
  /\ databaseLog = Database!None \/ databaseLog.id > 0

DatabaseInv ==
  /\ Database!TypeOK /\ DatabaseFileInv /\ DatabaseSwitchInv /\ DatabaseAppInv
  /\ Database!FoundAgain

DatabaseSwitches == [kind : {"none", "upgrade", "restore"}, at : Database!Steps,
                     source : Database!Data, safety : Database!Data]

LEMMA DatabaseTypes ==
  ASSUME Database!TypeOK
  PROVE  /\ databaseFile \in Database!FileOrLog /\ databaseLog \in Database!FileOrLog
         /\ databaseFile.id \in Nat /\ databaseLog.id \in Nat
         /\ databaseSwitch \in DatabaseSwitches
         /\ Database!Seen \in Database!Data /\ Database!None \in Database!FileOrLog
         /\ Database!DataOf(databaseFile) \in Database!Data
         /\ Database!DataOf(Database!None) \in Database!Data
         /\ Database!None.id = 0 /\ Database!None.commit = 0
         /\ Database!Idle \in DatabaseSwitches /\ Database!Idle.at = "none"
         /\ databaseLog = Database!None => /\ ~Database!Torn
                                           /\ Database!Seen = Database!DataOf(databaseFile)
<1>1. 0 \in 0..MaxCommits /\ 0 \in 0..MaxFiles
  BY DatabaseAssumption
<1>2. databaseFile \in Database!FileOrLog /\ databaseLog \in Database!FileOrLog
  BY DEF Database!TypeOK
<1>3. databaseFile.id \in Nat /\ databaseLog.id \in Nat
  BY <1>2, DatabaseAssumption DEF Database!FileOrLog
<1>4. /\ Database!DataOf(databaseFile) \in Database!Data /\ Database!DataOf(databaseLog) \in Database!Data
      /\ Database!DataOf(Database!None) \in Database!Data /\ Database!None \in Database!FileOrLog
      /\ Database!None.id = 0 /\ Database!None.commit = 0
  BY <1>1, <1>2 DEF Database!DataOf, Database!Data, Database!FileOrLog, Database!None
<1>5. Database!Idle \in DatabaseSwitches /\ Database!Idle.at = "none"
  BY <1>1 DEF Database!Idle, DatabaseSwitches, Database!Steps, Database!Data
<1>6. databaseSwitch \in DatabaseSwitches
  BY DEF Database!TypeOK, DatabaseSwitches
<1> QED BY <1>2, <1>3, <1>4, <1>5, <1>6 DEF Database!Seen, Database!Torn

\* A step that leaves file, log and application alone.
LEMMA DatabaseQuiet ==
  ASSUME DatabaseInv, UNCHANGED <<databaseFile, databaseLog, databaseApp>>,
         databaseCode' = databaseCode, databaseSaved' \subseteq Database!Data,
         databaseSwitch' \in DatabaseSwitches, databaseHeld' \subseteq 0..MaxCommits,
         databaseCut' \in BOOLEAN, databaseFaults' \in 0..SwitchFaults,
         DatabaseSwitchInv', Database!FoundAgain',
         databaseApp # "down" => databaseSwitch'.at = "none" /\ databaseCut' = databaseCut
  PROVE  DatabaseInv'
<1>1. Database!TypeOK'
  BY DEF DatabaseInv, Database!TypeOK, DatabaseSwitches
<1>2. DatabaseFileInv' /\ DatabaseAppInv'
  BY DEF DatabaseInv, DatabaseFileInv, DatabaseAppInv, Database!Torn, Database!Seen
<1> QED BY <1>1, <1>2 DEF DatabaseInv

LEMMA DatabaseGoes ==
  ASSUME Database!TypeOK, NEW s \in Database!Steps, Database!Goto(s)
  PROVE  /\ databaseSwitch' \in DatabaseSwitches /\ databaseSwitch'.at = s
         /\ databaseSwitch'.kind = databaseSwitch.kind
         /\ databaseSwitch'.source = databaseSwitch.source
         /\ databaseSwitch'.safety = databaseSwitch.safety
BY DatabaseTypes DEF Database!Goto, DatabaseSwitches

LEMMA DatabaseFault ==
  ASSUME DatabaseInv, databaseFaults < SwitchFaults, databaseFaults' = databaseFaults + 1
  PROVE  databaseFaults' \in 0..SwitchFaults
<1>1. databaseFaults \in 0..SwitchFaults
  BY DEF DatabaseInv, Database!TypeOK
<1> QED BY <1>1, DatabaseAssumption

\* The application reads and writes through the log.
LEMMA DatabaseApplication ==
  ASSUME DatabaseInv, Database!Commit \/ Database!Close PROVE DatabaseInv'
<1>1. /\ UNCHANGED <<databaseCode, databaseSaved, databaseSwitch, databaseCut, databaseFaults>>
      /\ databaseApp = "up" /\ databaseSwitch.at = "none" /\ ~Database!Torn
      /\ databaseFile # Database!None /\ databaseFile.id > 0 /\ Database!Seen.rev = databaseCode
      /\ Database!TypeOK /\ Database!Seen.commit \in databaseHeld
  BY DEF Database!Commit, Database!Close, DatabaseInv, DatabaseAppInv, DatabaseFileInv,
         Database!FoundAgain
<1>2. /\ Database!Seen \in Database!Data /\ Database!Seen.commit \in 0..MaxCommits
      /\ Database!Seen.rev \in {0} \cup Revisions /\ databaseFile.id \in 0..MaxFiles
      /\ databaseHeld \subseteq 0..MaxCommits
  BY <1>1, DatabaseTypes DEF Database!Data, Database!FileOrLog, Database!TypeOK
<1>3. CASE Database!Commit
  <2>1. Database!Seen.commit + 1 \in 0..MaxCommits
    BY <1>2, <1>3, DatabaseAssumption DEF Database!Commit
  <2>2. /\ databaseLog' \in Database!FileOrLog /\ databaseLog'.id = databaseFile.id
        /\ databaseLog'.commit = Database!Seen.commit + 1 /\ databaseLog'.rev = databaseCode
        /\ databaseHeld' = {Database!Seen.commit + 1} /\ UNCHANGED <<databaseFile, databaseApp>>
    BY <1>1, <1>2, <1>3, <2>1 DEF Database!Commit, Database!FileOrLog
  <2>3. databaseLog' # Database!None /\ databaseLog'.id > 0
    BY <1>1, <1>2, <2>2, DatabaseAssumption DEF Database!None
  <2>4. ~Database!Torn' /\ Database!Seen' = Database!DataOf(databaseLog)'
    BY <2>2, <2>3 DEF Database!Torn, Database!Seen
  <2>5. Database!TypeOK'
    BY <1>1, <2>1, <2>2 DEF Database!TypeOK
  <2>6. Database!Seen'.commit = Database!Seen.commit + 1 /\ Database!Seen'.rev = databaseCode
    BY <2>2, <2>4 DEF Database!DataOf
  <2>7. DatabaseFileInv' /\ DatabaseAppInv' /\ Database!FoundAgain'
    BY <1>1, <2>2, <2>3, <2>4, <2>6 DEF DatabaseFileInv, DatabaseAppInv, Database!FoundAgain
  <2>8. DatabaseSwitchInv'
    BY <1>1, <2>4 DEF DatabaseSwitchInv
  <2> QED BY <2>5, <2>7, <2>8 DEF DatabaseInv
<1>4. CASE Database!Close
  <2>1. /\ databaseFile' = [databaseFile EXCEPT !.commit = Database!Seen.commit]
        /\ databaseLog' = Database!None /\ databaseApp' = "down" /\ databaseHeld' = databaseHeld
    BY <1>4 DEF Database!Close
  <2>2. /\ databaseFile' \in Database!FileOrLog /\ databaseFile'.id = databaseFile.id
        /\ databaseFile'.commit = Database!Seen.commit
    BY <1>1, <1>2, <2>1, DatabaseTypes DEF Database!FileOrLog
  <2>3. Database!TypeOK'
    BY <1>1, <2>1, <2>2, DatabaseTypes DEF Database!TypeOK
  <2>4. ~Database!Torn' /\ Database!Seen' = Database!DataOf(databaseFile)'
    BY <2>1 DEF Database!Torn, Database!Seen
  <2>5. Database!Seen'.commit = Database!Seen.commit
    BY <2>2, <2>4 DEF Database!DataOf
  <2>6. DatabaseFileInv' /\ DatabaseAppInv' /\ Database!FoundAgain'
    BY <1>1, <2>1, <2>2, <2>4, <2>5 DEF DatabaseFileInv, DatabaseAppInv, Database!FoundAgain
  <2>7. DatabaseSwitchInv'
    BY <1>1, <2>4 DEF DatabaseSwitchInv
  <2> QED BY <2>3, <2>6, <2>7 DEF DatabaseInv
<1> QED BY <1>3, <1>4

LEMMA DatabaseOpens ==
  ASSUME DatabaseInv,
         \/ Database!OpenTorn \/ Database!Open \/ Database!TakeBackup
         \/ \E rev \in Revisions : Database!Install(rev)
  PROVE  DatabaseInv'
<1>1. Database!TypeOK /\ DatabaseSwitchInv /\ DatabaseAppInv /\ DatabaseFileInv /\ Database!FoundAgain
  BY DEF DatabaseInv
<1>2. CASE Database!OpenTorn \/ Database!Open
  <2>1. /\ UNCHANGED <<databaseFile, databaseLog, databaseCode, databaseSaved, databaseSwitch,
                       databaseHeld, databaseFaults>>
        /\ databaseSwitch.at = "none" /\ databaseApp' \in {"torn", "up"} /\ databaseCut' \in BOOLEAN
        /\ databaseApp' = "torn" => databaseCut'
        /\ databaseApp' = "up" => /\ ~Database!Torn /\ Database!Seen.rev = databaseCode
                                  /\ databaseFile # Database!None
        /\ Database!Torn => databaseCut'
    BY <1>1, <1>2, DatabaseTypes DEF Database!OpenTorn, Database!Open, Database!Free,
       DatabaseSwitchInv, Database!TypeOK
  <2>2. UNCHANGED <<Database!Torn, Database!Seen>>
    BY <2>1 DEF Database!Torn, Database!Seen
  <2>3. Database!TypeOK' /\ DatabaseFileInv' /\ Database!FoundAgain'
    BY <1>1, <2>1, <2>2 DEF Database!TypeOK, DatabaseFileInv, Database!FoundAgain
  <2>4. DatabaseSwitchInv' /\ DatabaseAppInv'
    BY <2>1, <2>2 DEF DatabaseSwitchInv, DatabaseAppInv
  <2> QED BY <2>3, <2>4 DEF DatabaseInv
<1>3. CASE Database!TakeBackup
  <2>1. /\ UNCHANGED <<databaseFile, databaseLog, databaseApp, databaseCode, databaseSwitch,
                       databaseHeld, databaseCut, databaseFaults>>
        /\ databaseSaved' = databaseSaved \cup {Database!Seen}
    BY <1>3 DEF Database!TakeBackup, Database!Snapshot
  <2>2. databaseSaved' \subseteq Database!Data
    BY <1>1, <2>1, DatabaseTypes DEF Database!TypeOK
  <2>3. UNCHANGED <<Database!Torn, Database!Seen>>
    BY <2>1 DEF Database!Torn, Database!Seen
  <2>4. DatabaseSwitchInv' /\ Database!FoundAgain'
    BY <1>1, <2>1, <2>3 DEF DatabaseSwitchInv, Database!FoundAgain
  <2> QED BY <1>1, <2>1, <2>2, <2>4, DatabaseTypes, DatabaseQuiet DEF DatabaseAppInv, Database!TypeOK
<1>4. ASSUME NEW rev \in Revisions, Database!Install(rev) PROVE DatabaseInv'
  <2>1. /\ UNCHANGED <<databaseFile, databaseLog, databaseApp, databaseSaved, databaseSwitch,
                       databaseHeld, databaseCut, databaseFaults>>
        /\ databaseCode' \in Revisions /\ databaseApp = "down" /\ databaseSwitch.at = "none"
    BY <1>1, <1>4, DatabaseTypes DEF Database!Install, Database!Free
  <2>2. UNCHANGED <<Database!Torn, Database!Seen>>
    BY <2>1 DEF Database!Torn, Database!Seen
  <2>3. Database!TypeOK' /\ DatabaseFileInv' /\ Database!FoundAgain'
    BY <1>1, <2>1, <2>2 DEF Database!TypeOK, DatabaseFileInv, Database!FoundAgain
  <2>4. DatabaseSwitchInv' /\ DatabaseAppInv'
    BY <1>1, <2>1, <2>2 DEF DatabaseSwitchInv, DatabaseAppInv
  <2> QED BY <2>3, <2>4 DEF DatabaseInv
<1> QED BY <1>2, <1>3, <1>4

\* The switch begins, secures what is there, and prepares what will replace it.
LEMMA DatabaseBegins ==
  ASSUME DatabaseInv,
         Database!BeginUpgrade \/ \E saved \in databaseSaved : Database!BeginRestore(saved)
  PROVE  DatabaseInv'
<1>1. /\ UNCHANGED <<databaseFile, databaseLog, databaseApp, databaseCode, databaseSaved, databaseFaults>>
      /\ databaseApp = "down" /\ ~Database!Torn /\ databaseCut' = FALSE
  BY DEF Database!BeginUpgrade, Database!BeginRestore, Database!Free
<1>2. Database!Seen.commit \in 0..MaxCommits /\ databaseSaved \subseteq Database!Data
  BY DatabaseTypes DEF DatabaseInv, Database!TypeOK, Database!Data
<1>3. UNCHANGED <<Database!Torn, Database!Seen>>
  BY <1>1 DEF Database!Torn, Database!Seen
<1>4. ASSUME databaseSwitch' \in DatabaseSwitches, databaseSwitch'.at = "begun",
             databaseHeld' \subseteq 0..MaxCommits, Database!Seen.commit \in databaseHeld',
             \/ databaseSwitch'.source = Database!DataOf(Database!None)
             \/ databaseSwitch'.source.commit \in databaseHeld'
      PROVE  DatabaseInv'
  <2>2. DatabaseSwitchInv'
    BY <1>1, <1>3, <1>4 DEF DatabaseSwitchInv, Database!DataOf, Database!None
  <2>3. Database!FoundAgain'
    BY <1>3, <1>4 DEF Database!FoundAgain
  <2> QED BY <1>1, <1>2, <1>4, <2>2, <2>3, DatabaseQuiet DEF DatabaseInv, Database!TypeOK
<1>5. CASE Database!BeginUpgrade
  <2>1. /\ databaseSwitch' = [Database!Idle EXCEPT !.kind = "upgrade", !.at = "begun"]
        /\ databaseHeld' = {Database!Seen.commit}
    BY <1>5 DEF Database!BeginUpgrade
  <2>2. databaseSwitch' \in DatabaseSwitches /\ databaseSwitch'.at = "begun"
    BY <2>1, DatabaseTypes DEF DatabaseInv, DatabaseSwitches, Database!Steps
  <2>3. databaseSwitch'.source = Database!DataOf(Database!None)
    BY <2>1 DEF Database!Idle, Database!DataOf, Database!None
  <2> QED BY <1>2, <1>4, <2>1, <2>2, <2>3
<1>6. ASSUME NEW saved \in databaseSaved, Database!BeginRestore(saved) PROVE DatabaseInv'
  <2>1. /\ databaseSwitch' = [Database!Idle EXCEPT !.kind = "restore", !.at = "begun",
                                !.source = saved]
        /\ databaseHeld' = {Database!Seen.commit, saved.commit}
    BY <1>6 DEF Database!BeginRestore
  <2>2. saved \in Database!Data /\ saved.commit \in 0..MaxCommits
    BY <1>2 DEF Database!Data
  <2>3. /\ databaseSwitch' \in DatabaseSwitches /\ databaseSwitch'.at = "begun"
        /\ databaseSwitch'.source = saved
    BY <2>1, <2>2, DatabaseTypes DEF DatabaseInv, DatabaseSwitches, Database!Steps
  <2> QED BY <1>2, <1>4, <2>1, <2>2, <2>3
<1> QED BY <1>5, <1>6

LEMMA DatabasePrepares ==
  ASSUME DatabaseInv, Database!Secure \/ Database!Prepare PROVE DatabaseInv'
<1>1. /\ UNCHANGED <<databaseFile, databaseLog, databaseApp, databaseCode, databaseSaved,
                     databaseHeld, databaseCut, databaseFaults>>
      /\ databaseSwitch.at \in {"begun", "saved"}
  BY DEF Database!Secure, Database!Prepare, Database!At
<1>2. /\ Database!TypeOK /\ DatabaseSwitchInv /\ DatabaseFileInv /\ ~Database!Torn
      /\ databaseApp = "down" /\ Database!FoundAgain /\ Database!Seen.commit \in databaseHeld
      /\ databaseSwitch \in DatabaseSwitches /\ databaseCode \in Revisions
      /\ databaseSwitch.source \in Database!Data
  <2>1. databaseSwitch \in DatabaseSwitches
    BY DatabaseTypes DEF DatabaseInv
  <2> QED BY <1>1, <2>1 DEF DatabaseInv, DatabaseSwitchInv, DatabaseAppInv, Database!FoundAgain,
                            Database!TypeOK, DatabaseSwitches
<1>3. /\ UNCHANGED <<Database!Torn, Database!Seen>> /\ Database!FoundAgain'
  BY <1>1, <1>2 DEF Database!Torn, Database!Seen, Database!FoundAgain
<1>4. CASE Database!Secure
  <2> DEFINE safety == IF databaseFile = Database!None THEN Database!DataOf(Database!None)
                       ELSE Database!Seen
             source == IF \/ databaseSwitch.source # Database!DataOf(Database!None)
                          \/ databaseFile = Database!None
                       THEN databaseSwitch.source ELSE Database!Seen
  <2>1. databaseSwitch' = [databaseSwitch EXCEPT !.at = "saved", !.safety = safety, !.source = source]
    BY <1>2, <1>4 DEF Database!Secure, Database!Snapshot, DatabaseSwitches
  <2>2. safety \in Database!Data /\ source \in Database!Data
    BY <1>2, DatabaseTypes
  <2>3. databaseFile = Database!None =>
          Database!DataOf(Database!None).commit \in databaseHeld
    <3>1. ASSUME databaseFile = Database!None PROVE Database!Seen = Database!DataOf(databaseFile)
      <4>1. databaseLog = Database!None
        BY <1>2, <3>1, DatabaseTypes DEF Database!Torn, DatabaseFileInv
      <4> QED BY <1>2, <4>1, DatabaseTypes
    <3> QED BY <1>2, <3>1
  <2>4. safety.commit \in databaseHeld /\ source.commit \in databaseHeld
    BY <1>1, <1>2, <1>4, <2>3 DEF DatabaseSwitchInv, Database!Secure, Database!At
  <2> HIDE DEF safety, source
  <2>5. /\ databaseSwitch' \in DatabaseSwitches /\ databaseSwitch'.at = "saved"
        /\ databaseSwitch'.safety = safety /\ databaseSwitch'.source = source
    BY <1>2, <2>1, <2>2 DEF DatabaseSwitches, Database!Steps
  <2>6. DatabaseSwitchInv'
    BY <1>1, <1>2, <1>3, <2>4, <2>5 DEF DatabaseSwitchInv
  <2> QED BY <1>1, <1>2, <1>3, <2>5, <2>6, DatabaseQuiet DEF Database!TypeOK
<1>5. CASE Database!Prepare
  <2> DEFINE source == [databaseSwitch.source EXCEPT !.rev = databaseCode]
  <2>1. databaseSwitch' = [databaseSwitch EXCEPT !.at = "prepared", !.source = source]
    BY <1>2, <1>5 DEF Database!Prepare, DatabaseSwitches
  <2>2. /\ source \in Database!Data /\ source.rev = databaseCode
        /\ source.commit = databaseSwitch.source.commit
    BY <1>2 DEF Database!Data
  <2> HIDE DEF source
  <2>3. /\ databaseSwitch' \in DatabaseSwitches /\ databaseSwitch'.at = "prepared"
        /\ databaseSwitch'.safety = databaseSwitch.safety /\ databaseSwitch'.source = source
    BY <1>2, <2>1, <2>2 DEF DatabaseSwitches, Database!Steps
  <2>4. DatabaseSwitchInv'
    BY <1>1, <1>2, <1>3, <1>5, <2>2, <2>3 DEF DatabaseSwitchInv, Database!Prepare, Database!At
  <2> QED BY <1>1, <1>2, <1>3, <2>3, <2>4, DatabaseQuiet DEF Database!TypeOK
<1> QED BY <1>4, <1>5

\* The file that replaces the other one is not the one the log was written for.
LEMMA DatabasePuts ==
  ASSUME DatabaseInv, NEW data \in Database!Data, Database!Put(data)
  PROVE  /\ databaseFile' \in Database!FileOrLog /\ databaseFile'.id > databaseFile.id
         /\ databaseFile'.id > 0 /\ databaseFile'.id \in Nat
         /\ databaseFile'.commit = data.commit /\ databaseFile'.rev = data.rev
<1>1. databaseFile.id \in 0..MaxFiles /\ databaseFile.id < MaxFiles
  BY DatabaseTypes DEF DatabaseInv, Database!FileOrLog, Database!Put
<1>2. databaseFile.id + 1 \in 0..MaxFiles
  BY <1>1, DatabaseAssumption
<1> QED BY <1>1, <1>2, DatabaseAssumption DEF Database!Put, Database!FileOrLog, Database!Data

LEMMA DatabaseReplaces ==
  ASSUME DatabaseInv, Database!Rename \/ Database!Undo PROVE DatabaseInv'
<1>1. /\ UNCHANGED <<databaseLog, databaseApp, databaseCode, databaseSaved, databaseHeld,
                     databaseCut, databaseFaults>>
      /\ Database!TypeOK /\ DatabaseSwitchInv /\ DatabaseFileInv /\ databaseApp = "down"
  <2>1. databaseSwitch.at \in {"prepared", "undo"}
    BY DEF Database!Rename, Database!Undo, Database!At
  <2> QED BY <2>1 DEF Database!Rename, Database!Undo, DatabaseInv, DatabaseAppInv
<1>2. /\ databaseFile \in Database!FileOrLog /\ databaseLog \in Database!FileOrLog
      /\ databaseFile.id \in Nat /\ databaseLog.id \in Nat
      /\ databaseSwitch.source \in Database!Data /\ databaseSwitch.safety \in Database!Data
  BY <1>1, DatabaseTypes DEF DatabaseSwitches
<1>3. ASSUME NEW s \in {"renamed", "undone"}, Database!Goto(s),
             databaseFile' \in Database!FileOrLog,
             databaseFile' = Database!None \/ databaseFile'.id > 0,
             databaseLog = Database!None \/ databaseLog.id # databaseFile'.id,
             databaseFile'.commit \in databaseHeld, DatabaseSwitchInv'
      PROVE  DatabaseInv'
  <2>1. databaseSwitch' \in DatabaseSwitches
    BY <1>1, <1>3, DatabaseGoes DEF Database!Steps
  <2>2. Database!TypeOK'
    BY <1>1, <1>3, <2>1 DEF Database!TypeOK, DatabaseSwitches
  <2>3. Database!FoundAgain'
    <3>1. databaseLog = Database!None => Database!Seen'.commit = databaseFile'.commit
      BY <1>1 DEF Database!Seen, Database!DataOf
    <3>2. databaseLog # Database!None => Database!Torn'
      BY <1>1, <1>3 DEF Database!Torn
    <3> QED BY <1>1, <1>3, <3>1, <3>2 DEF Database!FoundAgain
  <2> QED BY <1>1, <1>3, <2>2, <2>3 DEF DatabaseInv, DatabaseFileInv, DatabaseAppInv
<1>4. CASE Database!Rename
  <2>1. Database!Put(databaseSwitch.source) /\ Database!Goto("renamed") /\ databaseSwitch.at = "prepared"
    BY <1>4 DEF Database!Rename, Database!At
  <2>2. /\ databaseFile' \in Database!FileOrLog /\ databaseFile'.id > databaseFile.id
        /\ databaseFile'.id > 0 /\ databaseFile'.id \in Nat
        /\ databaseFile'.commit = databaseSwitch.source.commit
        /\ databaseFile'.rev = databaseSwitch.source.rev
    BY <1>2, <2>1, DatabasePuts
  <2>3. /\ databaseSwitch'.at = "renamed" /\ databaseSwitch'.source = databaseSwitch.source
        /\ databaseSwitch'.safety = databaseSwitch.safety
    BY <1>1, <2>1, DatabaseGoes DEF Database!Steps
  <2>4. databaseLog = Database!None \/ databaseLog.id < databaseFile'.id
    BY <1>1, <1>2, <2>1, <2>2 DEF DatabaseSwitchInv, Database!Torn
  <2>5. /\ databaseSwitch.source.commit \in databaseHeld /\ databaseSwitch.safety.commit \in databaseHeld
        /\ databaseSwitch.source.rev = databaseCode
    BY <1>1, <2>1 DEF DatabaseSwitchInv
  <2>6. DatabaseSwitchInv'
    BY <1>1, <2>2, <2>3, <2>4, <2>5 DEF DatabaseSwitchInv
  <2> QED BY <1>2, <1>3, <2>1, <2>2, <2>4, <2>5, <2>6
<1>5. CASE Database!Undo
  <2>1. Database!Goto("undone") /\ databaseSwitch.at = "undo"
    BY <1>5 DEF Database!Undo, Database!At
  <2>2. /\ databaseSwitch'.at = "undone" /\ databaseSwitch'.source = databaseSwitch.source
        /\ databaseSwitch'.safety = databaseSwitch.safety
    BY <1>1, <2>1, DatabaseGoes DEF Database!Steps
  <2>3. /\ databaseSwitch.source.commit \in databaseHeld /\ databaseSwitch.safety.commit \in databaseHeld
        /\ databaseLog = Database!None \/ databaseLog.id < databaseFile.id
    BY <1>1, <2>1 DEF DatabaseSwitchInv
  <2>4. /\ databaseFile' \in Database!FileOrLog
        /\ databaseFile' = Database!None \/ databaseFile'.id > 0
        /\ databaseLog = Database!None \/ databaseLog.id # databaseFile'.id
        /\ databaseFile'.commit = databaseSwitch.safety.commit
    <3>1. CASE databaseSwitch.safety = Database!DataOf(Database!None)
      <4>1. databaseFile' = Database!None
        BY <1>5, <3>1 DEF Database!Undo
      <4>2. Database!DataOf(Database!None).commit = Database!None.commit
        BY DEF Database!DataOf
      <4> QED BY <1>1, <1>2, <3>1, <4>1, <4>2, DatabaseTypes DEF DatabaseFileInv
    <3>2. CASE databaseSwitch.safety # Database!DataOf(Database!None)
      <4>1. Database!Put(databaseSwitch.safety)
        BY <1>5, <3>2 DEF Database!Undo
      <4> QED BY <1>2, <2>3, <4>1, DatabasePuts
    <3> QED BY <3>1, <3>2
  <2>5. DatabaseSwitchInv'
    BY <1>1, <2>2, <2>3, <2>4 DEF DatabaseSwitchInv
  <2> QED BY <1>3, <2>1, <2>3, <2>4, <2>5
<1> QED BY <1>4, <1>5

LEMMA DatabaseCleans ==
  ASSUME DatabaseInv, Database!Clean \/ Database!CleanUndone PROVE DatabaseInv'
<1>1. /\ UNCHANGED <<databaseFile, databaseApp, databaseCode, databaseSaved, databaseHeld,
                     databaseCut, databaseFaults>>
      /\ databaseLog' = Database!None /\ databaseApp = "down"
      /\ Database!TypeOK /\ DatabaseSwitchInv /\ DatabaseFileInv
      /\ \/ databaseSwitch.at = "renamed" /\ Database!Goto("cleaned")
         \/ databaseSwitch.at = "undone" /\ Database!Goto("undoneClean")
  <2>1. databaseSwitch.at \in {"renamed", "undone"}
    BY DEF Database!Clean, Database!CleanUndone, Database!At
  <2> QED BY <2>1 DEF Database!Clean, Database!CleanUndone, DatabaseInv, DatabaseAppInv, Database!At
<1>2. /\ databaseSwitch' \in DatabaseSwitches /\ databaseSwitch'.source = databaseSwitch.source
      /\ databaseSwitch'.safety = databaseSwitch.safety
      /\ \/ databaseSwitch.at = "renamed" /\ databaseSwitch'.at = "cleaned"
         \/ databaseSwitch.at = "undone" /\ databaseSwitch'.at = "undoneClean"
  BY <1>1, DatabaseGoes DEF Database!Steps
<1>3. databaseFile.commit \in databaseHeld
  BY <1>1, <1>2 DEF DatabaseSwitchInv
<1>4. Database!TypeOK'
  BY <1>1, <1>2, DatabaseTypes DEF Database!TypeOK, DatabaseSwitches
<1>5. Database!FoundAgain'
  BY <1>1, <1>3 DEF Database!FoundAgain, Database!Torn, Database!Seen, Database!DataOf
<1>6. DatabaseSwitchInv'
  BY <1>1, <1>2 DEF DatabaseSwitchInv
<1> QED BY <1>1, <1>4, <1>5, <1>6 DEF DatabaseInv, DatabaseFileInv, DatabaseAppInv

LEMMA DatabaseFinish ==
  ASSUME DatabaseInv, Database!Finish PROVE DatabaseInv'
<1>1. /\ UNCHANGED <<databaseFile, databaseLog, databaseCode, databaseSaved, databaseCut, databaseFaults>>
      /\ databaseSwitch' = Database!Idle /\ databaseSwitch.at = "cleaned"
      /\ databaseApp' \in {"up", "down"} /\ databaseHeld' = {databaseSwitch.source.commit}
  BY DEF Database!Finish, Database!At
<1>2. /\ Database!TypeOK /\ DatabaseFileInv /\ databaseLog = Database!None
      /\ databaseFile.commit = databaseSwitch.source.commit /\ databaseFile.rev = databaseCode
      /\ databaseSwitch.source.commit \in databaseHeld /\ databaseCode \in Revisions
  BY <1>1 DEF DatabaseInv, DatabaseSwitchInv, Database!TypeOK
<1>3. ~Database!Torn' /\ Database!Seen' = Database!DataOf(databaseFile)
  BY <1>1, <1>2 DEF Database!Torn, Database!Seen, Database!DataOf
<1>4. Database!TypeOK'
  BY <1>1, <1>2, DatabaseTypes DEF Database!TypeOK, DatabaseSwitches
<1>5. DatabaseFileInv' /\ Database!FoundAgain'
  BY <1>1, <1>2, <1>3 DEF DatabaseFileInv, Database!FoundAgain, Database!DataOf
<1>6. DatabaseSwitchInv'
  <2>1. databaseSwitch'.at = "none"
    BY <1>1, <1>2, DatabaseTypes
  <2> QED BY <1>3, <2>1 DEF DatabaseSwitchInv
<1>7. DatabaseAppInv'
  <2>1. databaseFile # Database!None
    BY <1>2, DatabaseAssumption DEF Database!None
  <2> QED BY <1>1, <1>2, <1>3, <2>1, DatabaseTypes DEF DatabaseAppInv, Database!DataOf
<1> QED BY <1>4, <1>5, <1>6, <1>7 DEF DatabaseInv

\* Every way out of a switch that is not its success.
LEMMA DatabaseLeaves ==
  ASSUME DatabaseInv, UNCHANGED <<databaseFile, databaseLog, databaseCode, databaseSaved>>,
         databaseApp' = "down", databaseSwitch' = Database!Idle,
         databaseCut' \in BOOLEAN, databaseFaults' \in 0..SwitchFaults,
         databaseHeld' \subseteq 0..MaxCommits, Database!FoundAgain',
         Database!Torn => databaseCut'
  PROVE  DatabaseInv'
<1>1. Database!TypeOK /\ DatabaseFileInv /\ Database!Idle \in DatabaseSwitches
      /\ databaseSwitch'.at = "none"
  BY DatabaseTypes DEF DatabaseInv
<1>2. Database!TypeOK'
  BY <1>1 DEF Database!TypeOK, DatabaseSwitches
<1>3. DatabaseFileInv' /\ DatabaseAppInv'
  BY <1>1 DEF DatabaseFileInv, DatabaseAppInv
<1>4. DatabaseSwitchInv'
  BY <1>1 DEF DatabaseSwitchInv, Database!Torn
<1> QED BY <1>2, <1>3, <1>4 DEF DatabaseInv

LEMMA DatabaseRefuse ==
  ASSUME DatabaseInv, Database!Refuse PROVE DatabaseInv'
<1>1. /\ UNCHANGED <<databaseFile, databaseLog, databaseApp, databaseCode, databaseSaved, databaseCut>>
      /\ databaseSwitch' = Database!Idle /\ databaseHeld' = {Database!Seen.commit}
      /\ databaseSwitch.at \in {"begun", "saved", "prepared"}
      /\ databaseFaults' \in 0..SwitchFaults
  <2>1. databaseFaults \in 0..SwitchFaults
    BY DEF DatabaseInv, Database!TypeOK
  <2> QED BY <2>1, DatabaseFault DEF Database!Refuse, Database!At
<1>2. databaseApp = "down" /\ ~Database!Torn /\ databaseCut \in BOOLEAN
  BY <1>1 DEF DatabaseInv, DatabaseAppInv, DatabaseSwitchInv, Database!TypeOK
<1>3. Database!Seen.commit \in 0..MaxCommits
  BY DatabaseTypes DEF DatabaseInv, Database!Data
<1>4. Database!FoundAgain'
  BY <1>1 DEF Database!FoundAgain, Database!Seen
<1> QED BY <1>1, <1>2, <1>3, <1>4, DatabaseLeaves

LEMMA DatabaseFailAfter ==
  ASSUME DatabaseInv, Database!FailAfter PROVE DatabaseInv'
<1>1. /\ UNCHANGED <<databaseFile, databaseLog, databaseApp, databaseCode, databaseSaved,
                     databaseHeld, databaseCut>>
      /\ databaseSwitch.at \in {"renamed", "cleaned"} /\ Database!Goto("undo")
      /\ databaseFaults' \in 0..SwitchFaults
  BY DatabaseFault DEF Database!FailAfter
<1>2. /\ Database!TypeOK /\ DatabaseSwitchInv /\ databaseApp = "down" /\ Database!FoundAgain
  BY <1>1 DEF DatabaseInv, DatabaseAppInv
<1>3. /\ databaseSwitch' \in DatabaseSwitches /\ databaseSwitch'.at = "undo"
      /\ databaseSwitch'.source = databaseSwitch.source /\ databaseSwitch'.safety = databaseSwitch.safety
  BY <1>1, <1>2, DatabaseGoes DEF Database!Steps
<1>4. DatabaseSwitchInv'
  BY <1>1, <1>2, <1>3 DEF DatabaseSwitchInv
<1>5. Database!FoundAgain'
  BY <1>1, <1>2 DEF Database!FoundAgain, Database!Torn, Database!Seen
<1> QED BY <1>1, <1>2, <1>3, <1>4, <1>5, DatabaseQuiet DEF Database!TypeOK

LEMMA DatabaseEnds ==
  ASSUME DatabaseInv, Database!Report \/ Database!GiveUp PROVE DatabaseInv'
<1>1. /\ UNCHANGED <<databaseFile, databaseLog, databaseApp, databaseCode, databaseSaved>>
      /\ databaseSwitch' = Database!Idle
      /\ databaseSwitch.at \in {"undo", "undone", "undoneClean"}
  BY DEF Database!Report, Database!GiveUp, Database!At
<1>2. /\ databaseApp = "down" /\ databaseCut \in BOOLEAN /\ databaseHeld \subseteq 0..MaxCommits
      /\ databaseFaults \in 0..SwitchFaults /\ Database!FoundAgain
  BY <1>1 DEF DatabaseInv, DatabaseAppInv, Database!TypeOK
<1>3. CASE Database!Report
  <2>1. /\ databaseSwitch.at = "undoneClean" /\ databaseHeld' = {databaseSwitch.safety.commit}
        /\ UNCHANGED <<databaseCut, databaseFaults>>
    BY <1>3 DEF Database!Report, Database!At
  <2>2. /\ databaseLog = Database!None /\ databaseFile.commit = databaseSwitch.safety.commit
        /\ databaseSwitch.safety.commit \in databaseHeld
    BY <2>1 DEF DatabaseInv, DatabaseSwitchInv
  <2>3. Database!FoundAgain'
    BY <1>1, <2>1, <2>2 DEF Database!FoundAgain, Database!Seen, Database!DataOf
  <2> QED BY <1>1, <1>2, <2>1, <2>2, <2>3, DatabaseLeaves DEF Database!Torn
<1>4. CASE Database!GiveUp
  <2>1. databaseCut' = TRUE /\ databaseHeld' = databaseHeld /\ databaseFaults' \in 0..SwitchFaults
    BY <1>4, DatabaseFault DEF Database!GiveUp
  <2>2. Database!FoundAgain'
    BY <1>1, <1>2, <2>1 DEF Database!FoundAgain, Database!Torn, Database!Seen
  <2> QED BY <1>1, <1>2, <2>1, <2>2, DatabaseLeaves
<1> QED BY <1>3, <1>4

LEMMA DatabaseKill ==
  ASSUME DatabaseInv, Database!Kill PROVE DatabaseInv'
<1>1. /\ UNCHANGED <<databaseFile, databaseLog, databaseCode, databaseSaved, databaseHeld>>
      /\ databaseApp' = "down" /\ databaseSwitch' = Database!Idle
      /\ databaseFaults' \in 0..SwitchFaults
      /\ databaseCut' = (databaseCut \/ databaseSwitch.at \in {"renamed", "undo", "undone"})
  BY DatabaseFault DEF Database!Kill
<1>2. /\ databaseCut \in BOOLEAN /\ databaseHeld \subseteq 0..MaxCommits /\ Database!FoundAgain
      /\ databaseSwitch.at \in Database!Steps /\ databaseSwitch \in DatabaseSwitches
  <2>1. databaseSwitch \in DatabaseSwitches
    BY DatabaseTypes DEF DatabaseInv
  <2> QED BY <2>1 DEF DatabaseInv, Database!TypeOK, DatabaseSwitches
<1>3. Database!FoundAgain'
  BY <1>1, <1>2 DEF Database!FoundAgain, Database!Torn, Database!Seen
<1>4. ASSUME Database!Torn PROVE databaseCut'
  <2>1. databaseSwitch.at \notin {"begun", "saved", "prepared", "cleaned", "undoneClean"}
    BY <1>4, DatabaseTypes DEF DatabaseInv, DatabaseSwitchInv
  <2>2. CASE databaseSwitch.at = "none"
    BY <1>1, <1>4, <2>2 DEF DatabaseInv, DatabaseSwitchInv
  <2>3. CASE databaseSwitch.at # "none"
    BY <1>1, <1>2, <2>1, <2>3 DEF Database!Steps
  <2> QED BY <2>2, <2>3
<1>5. databaseCut' \in BOOLEAN
  BY <1>1
<1> QED BY <1>1, <1>2, <1>3, <1>4, <1>5, DatabaseLeaves

LEMMA DatabaseInit == Database!Init => DatabaseInv
<1> SUFFICES ASSUME Database!Init PROVE DatabaseInv
  OBVIOUS
<1>1. /\ databaseFile = Database!None /\ databaseLog = Database!None /\ databaseApp = "down"
      /\ databaseCode \in Revisions /\ databaseSaved = {} /\ databaseSwitch = Database!Idle
      /\ databaseHeld = {0} /\ databaseCut = FALSE /\ databaseFaults = 0
  BY DEF Database!Init
<1>2. 0 \in 0..MaxCommits /\ 0 \in 0..MaxFiles /\ 0 \in 0..SwitchFaults
  BY DatabaseAssumption
<1>3. Database!None \in Database!FileOrLog /\ Database!Idle \in DatabaseSwitches
      /\ Database!Idle.at = "none"
  BY <1>2 DEF Database!None, Database!FileOrLog, Database!Idle, DatabaseSwitches, Database!Steps,
              Database!Data
<1>4. Database!TypeOK
  BY <1>1, <1>2, <1>3 DEF Database!TypeOK, DatabaseSwitches
<1>5. DatabaseFileInv /\ DatabaseAppInv /\ DatabaseSwitchInv
  BY <1>1, <1>3 DEF DatabaseFileInv, DatabaseAppInv, DatabaseSwitchInv, Database!Torn
<1>6. Database!FoundAgain
  BY <1>1 DEF Database!FoundAgain, Database!Seen, Database!DataOf, Database!None
<1> QED BY <1>4, <1>5, <1>6 DEF DatabaseInv

LEMMA DatabaseStep == DatabaseInv /\ [Database!Next]_(Database!vars) => DatabaseInv'
<1> SUFFICES ASSUME DatabaseInv, [Database!Next]_(Database!vars) PROVE DatabaseInv'
  OBVIOUS
<1>1. CASE UNCHANGED Database!vars
  <2>1. UNCHANGED <<Database!Torn, Database!Seen>>
    BY <1>1 DEF Database!vars, Database!Torn, Database!Seen
  <2>2. Database!TypeOK' /\ DatabaseFileInv' /\ DatabaseAppInv' /\ Database!FoundAgain'
    BY <1>1, <2>1 DEF Database!vars, DatabaseInv, Database!TypeOK, DatabaseFileInv, DatabaseAppInv,
                      Database!FoundAgain
  <2>3. DatabaseSwitchInv'
    BY <1>1, <2>1 DEF Database!vars, DatabaseInv, DatabaseSwitchInv
  <2> QED BY <2>2, <2>3 DEF DatabaseInv
<1>2. CASE Database!Next
  BY <1>2, DatabaseApplication, DatabaseOpens, DatabaseBegins, DatabasePrepares, DatabaseReplaces,
     DatabaseCleans, DatabaseFinish, DatabaseRefuse, DatabaseFailAfter, DatabaseEnds, DatabaseKill
     DEF Database!Next
<1> QED BY <1>1, <1>2

-----------------------------------------------------------------------------
(* Scheduled backups and their retention *)

\* Timestamps follow one another, and nothing lies after the last one.
BackupOrderInv ==
  \A s \in Backups!Stems :
    /\ s > backupPast.last => ~Backups!Present(s)
    /\ s <= backupPast.last => backupArchive[s].at <= backupDay
    /\ \A t \in Backups!Stems :
         s <= t /\ t <= backupPast.last => backupArchive[s].at <= backupArchive[t].at

Publishing(a) == backupRuns[a].step \in {"copied", "published"}
Retaining(a) == backupRuns[a].step \in {"retain", "remove", "half", "record"}

\* What is being published is one's own and in nobody's plan; the database whose
\* manifest is to go next is gone.
BackupRunInv ==
  \A a \in Backups!Actors :
    /\ Publishing(a) =>
         /\ backupRuns[a].stem \in Backups!Stems /\ backupRuns[a].stem <= backupPast.last
         /\ ~backupArchive[backupRuns[a].stem].manifest
         /\ \A b \in Backups!Actors : backupRuns[a].stem \notin backupRuns[b].plan
         /\ \A b \in Backups!Actors \ {a} :
              Publishing(b) => backupRuns[b].stem # backupRuns[a].stem
    /\ backupRuns[a].step = "copied" => backupArchive[backupRuns[a].stem].database = "none"
    /\ a = "driver" /\ Retaining(a) => /\ backupRuns[a].stem \in Backups!Stems
                                       /\ backupRuns[a].stem <= backupPast.last
    /\ \A s \in backupRuns[a].plan : s <= backupPast.last
    /\ backupRuns[a].step = "half" =>
         \A s \in Backups!Stems :
           Backups!Newest(s, backupRuns[a].plan) => backupArchive[s].database # "good"

\* Whatever is planned to go, a newer one stands that is whole.
NewerStands(s) == \E t \in Backups!Stems : t > s /\ Backups!Whole(t)
StandsFrom(s) == \E t \in Backups!Stems : t >= s /\ Backups!Whole(t)

BackupSoundInv ==
  ~backupPast.tampered =>
    /\ \A s \in Backups!Stems : backupArchive[s].database # "damaged"
    /\ \A a \in Backups!Actors :
         /\ backupRuns[a].step = "published" => backupArchive[backupRuns[a].stem].database = "good"
         /\ \A s \in backupRuns[a].plan : NewerStands(s)
         /\ a = "driver" /\ Retaining(a) => StandsFrom(backupRuns[a].stem)
    /\ backupPast.complete => \E t \in Backups!Stems : Backups!Whole(t)
    /\ backupPolicy.success > 0 =>
         \E t \in Backups!Stems : /\ Backups!Whole(t)
                                  /\ backupArchive[t].at + 1 >= backupPolicy.success

BackupInv ==
  /\ Backups!TypeOK /\ BackupOrderInv /\ BackupRunInv /\ BackupSoundInv /\ Backups!HalfOnlyByStop

LEMMA BackupKeeps == Backups!AnyKeeps \in Retentions /\ Backups!NoRun \in Backups!Run
<1>1. Retentions # {}
  <2>1. PICK d \in KeepDays, k \in KeepLatest : TRUE
    BY BackupAssumption
  <2>2. [days |-> d, keep |-> k] \in Retentions
    BY <2>1 DEF Retentions
  <2> QED BY <2>2
<1>2. Backups!AnyKeeps \in Retentions
  BY <1>1 DEF Backups!AnyKeeps
<1> QED BY <1>2, BackupAssumption DEF Backups!NoRun, Backups!Run, Backups!Steps

LEMMA BackupTypes ==
  ASSUME Backups!TypeOK
  PROVE  /\ Backups!Stems \subseteq Nat /\ backupDay \in Nat /\ backupDay \in 0..MaxDays
         /\ backupArchive \in [Backups!Stems -> Backups!Pair]
         /\ \A s \in Backups!Stems : /\ s \in Nat /\ backupArchive[s] \in Backups!Pair
                                     /\ backupArchive[s].at \in Nat
         /\ backupRuns \in [Backups!Actors -> Backups!Run]
         /\ \A a \in Backups!Actors : /\ backupRuns[a] \in Backups!Run
                                      /\ backupRuns[a].plan \subseteq Backups!Stems
                                      /\ backupRuns[a].stem \in Nat
         /\ backupPast.last \in 0..MaxBackups /\ backupPast.last \in Nat
         /\ backupPast.complete \in BOOLEAN /\ backupPast.tampered \in BOOLEAN
         /\ backupPast.cut \in BOOLEAN /\ backupPolicy.success \in Nat
         /\ backupFaults \in 0..BackupFaults
<1>1. /\ backupArchive \in [Backups!Stems -> Backups!Pair]
      /\ backupRuns \in [Backups!Actors -> Backups!Run]
      /\ backupDay \in 0..MaxDays /\ backupFaults \in 0..BackupFaults
      /\ backupPast \in [last : 0..MaxBackups, complete : BOOLEAN, tampered : BOOLEAN, cut : BOOLEAN]
      /\ backupPolicy.success \in 0..(MaxDays + 1)
  BY DEF Backups!TypeOK
<1>2. \A s \in Backups!Stems : backupArchive[s] \in Backups!Pair /\ backupArchive[s].at \in 0..MaxDays
  BY <1>1 DEF Backups!Pair
<1>3. \A a \in Backups!Actors : /\ backupRuns[a] \in Backups!Run
                                /\ backupRuns[a].plan \subseteq Backups!Stems
                                /\ backupRuns[a].stem \in 0..MaxBackups
  BY <1>1 DEF Backups!Run
<1>4. Backups!Stems \subseteq Nat
  BY BackupAssumption DEF Backups!Stems
<1> QED BY <1>1, <1>2, <1>3, <1>4, BackupAssumption

LEMMA BackupBecomes ==
  ASSUME Backups!TypeOK, NEW a \in Backups!Actors, NEW r \in Backups!Run, Backups!Become(a, r)
  PROVE  /\ backupRuns' \in [Backups!Actors -> Backups!Run] /\ backupRuns'[a] = r
         /\ \A b \in Backups!Actors \ {a} : backupRuns'[b] = backupRuns[b]
BY BackupTypes DEF Backups!Become

LEMMA BackupGoes ==
  ASSUME Backups!TypeOK, NEW a \in Backups!Actors, NEW step \in Backups!Steps, Backups!Goto(a, step)
  PROVE  /\ backupRuns' \in [Backups!Actors -> Backups!Run] /\ backupRuns'[a].step = step
         /\ backupRuns'[a].stem = backupRuns[a].stem /\ backupRuns'[a].plan = backupRuns[a].plan
         /\ \A b \in Backups!Actors \ {a} : backupRuns'[b] = backupRuns[b]
<1> DEFINE r == [backupRuns[a] EXCEPT !.step = step]
<1>1. /\ r \in Backups!Run /\ r.step = step /\ r.stem = backupRuns[a].stem
      /\ r.plan = backupRuns[a].plan
  BY BackupTypes DEF Backups!Run
<1>2. Backups!Become(a, r)
  BY DEF Backups!Goto
<1> HIDE DEF r
<1> QED BY <1>1, <1>2, BackupBecomes

\* A step that takes nothing away but what a newer one stands for.
LEMMA BackupStands ==
  ASSUME BackupInv, ~backupPast.tampered,
         \A s \in Backups!Stems : Backups!Whole(s) =>
           \E t \in Backups!Stems : t >= s /\ t <= backupPast.last /\ Backups!Whole(t)',
         \A s \in Backups!Stems : s <= backupPast.last => backupArchive'[s].at = backupArchive[s].at
  PROVE  /\ \A a \in Backups!Actors :
              /\ \A s \in backupRuns[a].plan : NewerStands(s)'
              /\ a = "driver" /\ Retaining(a) =>
                   \E t \in Backups!Stems : t >= backupRuns[a].stem /\ Backups!Whole(t)'
         /\ backupPast.complete => \E t \in Backups!Stems : Backups!Whole(t)'
         /\ backupPolicy.success > 0 =>
              \E t \in Backups!Stems : /\ Backups!Whole(t)'
                                       /\ backupArchive'[t].at + 1 >= backupPolicy.success
<1>1. Backups!TypeOK /\ BackupSoundInv /\ BackupOrderInv
  BY DEF BackupInv
<1>2. ASSUME NEW s \in Nat, NewerStands(s) PROVE \E t \in Backups!Stems : t > s /\ Backups!Whole(t)'
  <2>1. PICK t \in Backups!Stems : t > s /\ Backups!Whole(t)
    BY <1>2 DEF NewerStands
  <2>2. PICK u \in Backups!Stems : u >= t /\ Backups!Whole(u)'
    BY <2>1
  <2> QED BY <1>1, <2>1, <2>2, BackupTypes
<1>3. ASSUME NEW s \in Nat, StandsFrom(s) PROVE \E t \in Backups!Stems : t >= s /\ Backups!Whole(t)'
  <2>1. PICK t \in Backups!Stems : t >= s /\ Backups!Whole(t)
    BY <1>3 DEF StandsFrom
  <2>2. PICK u \in Backups!Stems : u >= t /\ Backups!Whole(u)'
    BY <2>1
  <2> QED BY <1>1, <2>1, <2>2, BackupTypes
<1>4. ASSUME NEW a \in Backups!Actors
      PROVE  /\ \A s \in backupRuns[a].plan : NewerStands(s)'
             /\ a = "driver" /\ Retaining(a) =>
                  \E t \in Backups!Stems : t >= backupRuns[a].stem /\ Backups!Whole(t)'
  <2>1. ASSUME NEW s \in backupRuns[a].plan PROVE NewerStands(s)'
    <3>1. s \in Nat /\ NewerStands(s)
      BY <1>1, BackupTypes DEF BackupSoundInv
    <3> QED BY <1>2, <3>1 DEF NewerStands
  <2>2. ASSUME a = "driver", Retaining(a)
        PROVE  \E t \in Backups!Stems : t >= backupRuns[a].stem /\ Backups!Whole(t)'
    <3>1. backupRuns[a].stem \in Nat /\ StandsFrom(backupRuns[a].stem)
      BY <1>1, <2>2, BackupTypes DEF BackupSoundInv
    <3>2. PICK n \in Nat : n = backupRuns[a].stem
      BY <3>1
    <3>3. StandsFrom(n)
      BY <3>1, <3>2 DEF StandsFrom
    <3> QED BY <1>3, <3>2, <3>3
  <2> QED BY <2>1, <2>2
<1>5. backupPast.complete => \E t \in Backups!Stems : Backups!Whole(t)'
  BY <1>1 DEF BackupSoundInv
<1>6. ASSUME backupPolicy.success > 0
      PROVE  \E t \in Backups!Stems : /\ Backups!Whole(t)'
                                      /\ backupArchive'[t].at + 1 >= backupPolicy.success
  <2>1. PICK t \in Backups!Stems : /\ Backups!Whole(t)
                                   /\ backupArchive[t].at + 1 >= backupPolicy.success
    BY <1>1, <1>6 DEF BackupSoundInv
  <2>2. PICK u \in Backups!Stems : u >= t /\ u <= backupPast.last /\ Backups!Whole(u)'
    BY <2>1
  <2>3. backupArchive[t].at <= backupArchive[u].at /\ backupArchive'[u].at = backupArchive[u].at
    BY <1>1, <2>2, BackupTypes DEF BackupOrderInv
  <2>4. backupArchive[t].at \in Nat /\ backupArchive[u].at \in Nat /\ backupPolicy.success \in Nat
    BY <1>1, BackupTypes
  <2> QED BY <2>1, <2>2, <2>3, <2>4
<1> QED BY <1>4, <1>5, <1>6

\* A step of one of them that leaves the directory alone.
LEMMA BackupTurns ==
  ASSUME BackupInv, NEW a \in Backups!Actors, NEW r \in Backups!Run, Backups!Become(a, r),
         UNCHANGED <<backupDay, backupArchive>>, Backups!TypeOK',
         backupPast'.last = backupPast.last, backupPast'.complete = backupPast.complete,
         backupPast'.tampered = backupPast.tampered, ~backupPast'.cut => ~backupPast.cut,
         r.step \notin {"copied", "published", "half"},
         \A s \in r.plan : /\ s \in Backups!Stems /\ s <= backupPast.last
                           /\ \A b \in Backups!Actors : Publishing(b) => backupRuns[b].stem # s
                           /\ ~backupPast.tampered => NewerStands(s),
         a = "driver" /\ r.step \in {"retain", "remove", "half", "record"} =>
           /\ r.stem \in Backups!Stems /\ r.stem <= backupPast.last
           /\ ~backupPast.tampered => StandsFrom(r.stem),
         ~backupPast.tampered /\ backupPolicy'.success > 0 =>
           \E t \in Backups!Stems : /\ Backups!Whole(t)
                                    /\ backupArchive[t].at + 1 >= backupPolicy'.success,
         ~backupPast'.cut => /\ backupRuns[a].step # "published"
                             /\ backupRuns[a].step = "half" =>
                                  \A s \in Backups!Stems : Backups!Newest(s, backupRuns[a].plan)
                                                             => ~backupArchive[s].manifest
  PROVE  BackupInv'
<1>1. /\ Backups!TypeOK /\ BackupOrderInv /\ BackupRunInv /\ BackupSoundInv /\ Backups!HalfOnlyByStop
      /\ \A s : backupArchive'[s] = backupArchive[s]
  BY DEF BackupInv
<1>2. /\ backupRuns'[a] = r
      /\ \A b \in Backups!Actors \ {a} : backupRuns'[b] = backupRuns[b]
  BY <1>1, BackupBecomes
<1>3. BackupOrderInv'
  BY <1>1 DEF BackupOrderInv, Backups!Present
<1>4. BackupRunInv'
  <2>1. ASSUME NEW b \in Backups!Actors, b # a
        PROVE  backupRuns'[b] = backupRuns[b] /\ (Publishing(b)' <=> Publishing(b))
    BY <1>2, <2>1 DEF Publishing
  <2>2. ~Publishing(a)' /\ backupRuns'[a].step # "half" /\ backupRuns'[a].step # "copied"
    BY <1>2 DEF Publishing
  <2>3. ASSUME NEW b \in Backups!Actors, Publishing(b)'
        PROVE  /\ backupRuns'[b].stem \in Backups!Stems /\ backupRuns'[b].stem <= backupPast'.last
               /\ ~backupArchive'[backupRuns'[b].stem].manifest
               /\ \A c \in Backups!Actors : backupRuns'[b].stem \notin backupRuns'[c].plan
               /\ \A c \in Backups!Actors \ {b} :
                    Publishing(c)' => backupRuns'[c].stem # backupRuns'[b].stem
    <3>1. b # a /\ Publishing(b) /\ backupRuns'[b] = backupRuns[b]
      BY <2>1, <2>2, <2>3
    <3>2. /\ backupRuns[b].stem \in Backups!Stems /\ backupRuns[b].stem <= backupPast.last
          /\ ~backupArchive[backupRuns[b].stem].manifest
          /\ \A c \in Backups!Actors : backupRuns[b].stem \notin backupRuns[c].plan
          /\ \A c \in Backups!Actors \ {b} : Publishing(c) => backupRuns[c].stem # backupRuns[b].stem
      BY <1>1, <3>1 DEF BackupRunInv
    <3>3. backupRuns[b].stem \notin r.plan
      BY <3>1
    <3> QED BY <1>1, <1>2, <2>1, <2>2, <3>1, <3>2, <3>3
  <2>4. ASSUME NEW b \in Backups!Actors
        PROVE  /\ backupRuns'[b].step = "copied" =>
                    backupArchive'[backupRuns'[b].stem].database = "none"
               /\ b = "driver" /\ Retaining(b)' => /\ backupRuns'[b].stem \in Backups!Stems
                                                   /\ backupRuns'[b].stem <= backupPast'.last
               /\ \A s \in backupRuns'[b].plan : s <= backupPast'.last
               /\ backupRuns'[b].step = "half" =>
                    \A s \in Backups!Stems : Backups!Newest(s, backupRuns'[b].plan)
                                               => backupArchive'[s].database # "good"
    <3>1. CASE b = a
      BY <1>2, <2>2, <3>1 DEF Retaining
    <3>2. CASE b # a
      BY <1>1, <2>1, <3>2 DEF BackupRunInv, Retaining
    <3> QED BY <3>1, <3>2
  <2> QED BY <2>3, <2>4 DEF BackupRunInv, Backups!Newest
<1>5. BackupSoundInv'
  <2> SUFFICES ASSUME ~backupPast.tampered PROVE BackupSoundInv'
    BY DEF BackupSoundInv
  <2>1. \A n \in Nat : /\ NewerStands(n) => NewerStands(n)'
                       /\ StandsFrom(n) =>
                            \E t \in Backups!Stems : t >= n /\ Backups!Whole(t)'
    BY DEF NewerStands, StandsFrom, Backups!Whole
  <2>2. ASSUME NEW b \in Backups!Actors
        PROVE  /\ backupRuns'[b].step = "published" =>
                    backupArchive'[backupRuns'[b].stem].database = "good"
               /\ \A s \in backupRuns'[b].plan : NewerStands(s)'
               /\ b = "driver" /\ Retaining(b)' =>
                    \E t \in Backups!Stems : t >= backupRuns'[b].stem /\ Backups!Whole(t)'
    <3>1. CASE b = a
      <4>1. \A s \in r.plan : s \in Nat /\ NewerStands(s)
        BY <1>1, BackupTypes
      <4>2. ASSUME b = "driver", Retaining(b)'
            PROVE  r.stem \in Nat /\ StandsFrom(r.stem)
        BY <1>1, <1>2, <3>1, <4>2, BackupTypes DEF Retaining
      <4>3. ASSUME b = "driver", Retaining(b)'
            PROVE  \E t \in Backups!Stems : t >= backupRuns'[b].stem /\ Backups!Whole(t)'
        <5>1. PICK n \in Nat : n = r.stem
          BY <4>2, <4>3
        <5>2. StandsFrom(n)
          BY <4>2, <4>3, <5>1
        <5> QED BY <1>2, <2>1, <3>1, <5>1, <5>2
      <4> QED BY <1>2, <2>1, <3>1, <4>1, <4>3
    <3>2. CASE b # a
      <4>1. backupRuns'[b] = backupRuns[b]
        BY <1>2, <3>2
      <4>2. \A s \in backupRuns[b].plan : s \in Nat /\ NewerStands(s)
        BY <1>1, BackupTypes DEF BackupSoundInv
      <4>3. ASSUME b = "driver", Retaining(b)'
            PROVE  \E t \in Backups!Stems : t >= backupRuns'[b].stem /\ Backups!Whole(t)'
        <5>1. backupRuns[b].stem \in Nat /\ StandsFrom(backupRuns[b].stem)
          BY <1>1, <4>1, <4>3, BackupTypes DEF Retaining, BackupSoundInv
        <5>2. PICK n \in Nat : n = backupRuns[b].stem
          BY <5>1
        <5>3. StandsFrom(n)
          BY <5>1, <5>2 DEF StandsFrom
        <5> QED BY <2>1, <4>1, <5>2, <5>3
      <4> QED BY <1>1, <2>1, <4>1, <4>2, <4>3 DEF BackupSoundInv
    <3> QED BY <3>1, <3>2
  <2>3. /\ \A s \in Backups!Stems : backupArchive'[s].database # "damaged"
        /\ backupPast'.complete => \E t \in Backups!Stems : Backups!Whole(t)'
        /\ backupPolicy'.success > 0 =>
             \E t \in Backups!Stems : /\ Backups!Whole(t)'
                                      /\ backupArchive'[t].at + 1 >= backupPolicy'.success
    BY <1>1 DEF BackupSoundInv, Backups!Whole
  <2> QED BY <2>2, <2>3 DEF BackupSoundInv, StandsFrom
<1>6. Backups!HalfOnlyByStop'
  <2> SUFFICES ASSUME ~backupPast'.tampered, ~backupPast'.cut, NEW s \in Backups!Stems,
                      Backups!Present(s)', ~Backups!Whole(s)'
               PROVE  \E b \in Backups!Actors :
                        \/ backupRuns'[b].step = "published" /\ backupRuns'[b].stem = s
                        \/ backupRuns'[b].step = "half" /\ Backups!Newest(s, backupRuns'[b].plan)
    BY DEF Backups!HalfOnlyByStop, Backups!At, Backups!Newest
  <2>1. ~backupPast.tampered /\ ~backupPast.cut /\ Backups!Present(s) /\ ~Backups!Whole(s)
    BY DEF Backups!Present, Backups!Whole
  <2>2. PICK b \in Backups!Actors :
          \/ backupRuns[b].step = "published" /\ backupRuns[b].stem = s
          \/ backupRuns[b].step = "half" /\ Backups!Newest(s, backupRuns[b].plan)
    BY <1>1, <2>1 DEF Backups!HalfOnlyByStop, Backups!At
  <2>3. b # a
    <3> SUFFICES ASSUME b = a PROVE FALSE
      OBVIOUS
    <3>1. backupRuns[a].step = "half" /\ Backups!Newest(s, backupRuns[a].plan)
      BY <2>2
    <3>2. ~backupArchive[s].manifest /\ backupArchive[s].database \notin {"good", "damaged"}
      BY <1>1, <2>1, <3>1 DEF BackupRunInv, BackupSoundInv
    <3> QED BY <1>1, <2>1, <3>2, BackupTypes DEF Backups!Present, Backups!Pair
  <2> QED BY <1>2, <2>2, <2>3
<1> QED BY <1>3, <1>4, <1>5, <1>6 DEF BackupInv

LEMMA BackupFault ==
  ASSUME Backups!TypeOK, backupFaults < BackupFaults, backupFaults' = backupFaults + 1
  PROVE  backupFaults' \in 0..BackupFaults
BY BackupTypes, BackupAssumption

\* A run ends, wherever it is; where it was cut in two, that is remembered.
LEMMA BackupRests ==
  ASSUME BackupInv, NEW a \in Backups!Actors, NEW r \in Backups!Run, Backups!Become(a, r),
         UNCHANGED <<backupDay, backupArchive>>, Backups!TypeOK',
         backupPast'.last = backupPast.last, backupPast'.complete = backupPast.complete,
         backupPast'.tampered = backupPast.tampered, ~backupPast'.cut => ~backupPast.cut,
         r.step \in {"idle", "due"} \/ (r.step = "retain" /\ a = "command"), r.plan = {},
         \/ backupPolicy'.success = backupPolicy.success
         \/ /\ a = "driver" /\ Retaining(a)
            /\ backupPolicy'.success = backupArchive[backupRuns[a].stem].at + 1,
         backupRuns[a].step \in {"published", "half"} => backupPast'.cut
  PROVE  BackupInv'
<1>1. Backups!TypeOK /\ BackupOrderInv /\ BackupRunInv /\ BackupSoundInv
  BY DEF BackupInv
<1>2. ASSUME ~backupPast.tampered, backupPolicy'.success > 0
      PROVE  \E t \in Backups!Stems : /\ Backups!Whole(t)
                                      /\ backupArchive[t].at + 1 >= backupPolicy'.success
  <2>1. CASE backupPolicy'.success = backupPolicy.success
    BY <1>1, <1>2, <2>1 DEF BackupSoundInv
  <2>2. CASE /\ a = "driver" /\ Retaining(a)
             /\ backupPolicy'.success = backupArchive[backupRuns[a].stem].at + 1
    <3> DEFINE s == backupRuns[a].stem
    <3>1. StandsFrom(s) /\ s \in Backups!Stems
      BY <1>1, <1>2, <2>2 DEF BackupSoundInv, BackupRunInv
    <3>2. PICK t \in Backups!Stems : t >= s /\ Backups!Whole(t)
      BY <3>1 DEF StandsFrom
    <3>3. t <= backupPast.last
      BY <1>1, <3>2, BackupTypes DEF BackupOrderInv, Backups!Present, Backups!Whole
    <3>4. backupArchive[s].at <= backupArchive[t].at
      BY <1>1, <3>1, <3>2, <3>3, BackupTypes DEF BackupOrderInv
    <3> QED BY <1>1, <2>2, <3>1, <3>2, <3>4, BackupTypes
  <2> QED BY <2>1, <2>2
<1> QED BY <1>2, BackupTurns

LEMMA BackupRuns ==
  ASSUME BackupInv,
         \/ \E force \in BOOLEAN : Backups!BeginScheduled(force)
         \/ Backups!BeginCommand \/ \E keeps \in Retentions : Backups!BeginRetention(keeps)
         \/ \E a \in Backups!Actors : Backups!Record(a) \/ Backups!Stop(a)
  PROVE  BackupInv'
<1>1. Backups!TypeOK /\ BackupRunInv
  BY DEF BackupInv
<1>2. /\ backupPolicy \in [enabled : BOOLEAN, keeps : Retentions, version : 1..(MaxPolicies + 1),
                           success : 0..(MaxDays + 1), error : {"none", "create", "blocked", "retention"}]
      /\ "driver" \in Backups!Actors /\ "command" \in Backups!Actors
      /\ Backups!NoRun \in Backups!Run
  BY <1>1, BackupKeeps DEF Backups!TypeOK, Backups!Actors
<1>3. ASSUME NEW keeps \in Retentions, NEW step \in {"due", "retain"}
      PROVE  /\ [Backups!NoRun EXCEPT !.step = step, !.keeps = keeps] \in Backups!Run
             /\ [Backups!NoRun EXCEPT !.step = step] \in Backups!Run
             /\ [Backups!NoRun EXCEPT !.step = step, !.keeps = keeps].step = step
             /\ [Backups!NoRun EXCEPT !.step = step, !.keeps = keeps].plan = {}
             /\ [Backups!NoRun EXCEPT !.step = step].step = step
             /\ [Backups!NoRun EXCEPT !.step = step].plan = {}
  <2>1. step \in Backups!Steps
    BY DEF Backups!Steps
  <2>2. Backups!NoRun.plan = {}
    BY DEF Backups!NoRun
  <2> QED BY <1>2, <2>1, <2>2 DEF Backups!Run
<1>4. ASSUME NEW a \in Backups!Actors, NEW r \in Backups!Run, Backups!Become(a, r),
             backupRuns[a].step = "idle",
             r.step = "due" \/ (r.step = "retain" /\ a = "command"), r.plan = {},
             UNCHANGED <<backupDay, backupPolicy, backupArchive, backupPast, backupFaults>>
      PROVE  BackupInv'
  <2>1. Backups!TypeOK'
    BY <1>1, <1>4, BackupBecomes DEF Backups!TypeOK
  <2> QED BY <1>4, <2>1, BackupRests
<1>5. CASE Backups!BeginCommand
  BY <1>2, <1>3, <1>4, <1>5, BackupKeeps DEF Backups!BeginCommand, Backups!At
<1>6. ASSUME NEW force \in BOOLEAN, Backups!BeginScheduled(force) PROVE BackupInv'
  <2>1. PICK keeps \in Retentions : keeps = backupPolicy.keeps
    BY <1>2
  <2>2. Backups!Become("driver", [Backups!NoRun EXCEPT !.step = "due", !.keeps = keeps])
    BY <1>6, <2>1 DEF Backups!BeginScheduled
  <2> QED BY <1>2, <1>3, <1>4, <1>6, <2>2 DEF Backups!BeginScheduled, Backups!At
<1>7. ASSUME NEW keeps \in Retentions, Backups!BeginRetention(keeps) PROVE BackupInv'
  BY <1>2, <1>3, <1>4, <1>7 DEF Backups!BeginRetention, Backups!At
<1>8. ASSUME NEW a \in Backups!Actors, Backups!Record(a) PROVE BackupInv'
  <2>1. /\ Backups!Become(a, Backups!NoRun) /\ backupRuns[a].step = "record"
        /\ UNCHANGED <<backupDay, backupArchive, backupPast, backupFaults>>
    BY <1>8 DEF Backups!Record, Backups!At
  <2>2. /\ backupPolicy' \in [enabled : BOOLEAN, keeps : Retentions, version : 1..(MaxPolicies + 1),
                              success : 0..(MaxDays + 1),
                              error : {"none", "create", "blocked", "retention"}]
        /\ \/ backupPolicy'.success = backupPolicy.success
           \/ /\ a = "driver" /\ Retaining(a)
              /\ backupPolicy'.success = backupArchive[backupRuns[a].stem].at + 1
    <3>1. CASE a # "driver"
      BY <1>2, <1>8, <3>1 DEF Backups!Record
    <3>2. CASE a = "driver"
      <4> DEFINE success == backupArchive[backupRuns[a].stem].at + 1
                 error == IF backupRuns[a].failed THEN "retention"
                          ELSE IF backupRuns[a].blocked THEN "blocked" ELSE "none"
      <4>1. Retaining(a) /\ backupRuns[a].stem \in Backups!Stems
        BY <1>1, <2>1, <3>2 DEF Retaining, BackupRunInv
      <4>2. backupArchive[backupRuns[a].stem].at \in 0..MaxDays
        BY <1>1, <4>1, BackupTypes DEF Backups!Pair
      <4>3. success \in 0..(MaxDays + 1) /\ error \in {"none", "create", "blocked", "retention"}
        BY <4>2, BackupAssumption
      <4>4. backupPolicy' = [backupPolicy EXCEPT !.success = success, !.error = error]
        BY <1>8, <3>2 DEF Backups!Record
      <4> HIDE DEF success, error
      <4>5. /\ backupPolicy' \in [enabled : BOOLEAN, keeps : Retentions, version : 1..(MaxPolicies + 1),
                                  success : 0..(MaxDays + 1),
                                  error : {"none", "create", "blocked", "retention"}]
            /\ backupPolicy'.success = success
        BY <1>2, <4>3, <4>4
      <4> QED BY <3>2, <4>1, <4>5 DEF success
    <3> QED BY <3>1, <3>2
  <2>3. Backups!TypeOK'
    BY <1>1, <1>2, <2>1, <2>2, BackupBecomes DEF Backups!TypeOK
  <2> QED BY <1>2, <2>1, <2>2, <2>3, BackupRests DEF Backups!NoRun
<1>9. ASSUME NEW a \in Backups!Actors, Backups!Stop(a) PROVE BackupInv'
  <2> DEFINE cut == backupPast.cut \/ backupRuns[a].step \in {"published", "half"}
  <2>1. /\ Backups!Become(a, Backups!NoRun) /\ UNCHANGED <<backupDay, backupArchive, backupPolicy>>
        /\ backupFaults' \in 0..BackupFaults
        /\ backupPast' = [backupPast EXCEPT !.cut = cut]
    BY <1>1, <1>9, BackupFault DEF Backups!Stop
  <2>2. backupPast \in [last : 0..MaxBackups, complete : BOOLEAN, tampered : BOOLEAN, cut : BOOLEAN]
    BY <1>1 DEF Backups!TypeOK
  <2>3. /\ backupPast' \in [last : 0..MaxBackups, complete : BOOLEAN, tampered : BOOLEAN, cut : BOOLEAN]
        /\ backupPast'.last = backupPast.last /\ backupPast'.complete = backupPast.complete
        /\ backupPast'.tampered = backupPast.tampered /\ backupPast'.cut = cut
    BY <2>1, <2>2
  <2>4. Backups!TypeOK'
    BY <1>1, <1>2, <2>1, <2>3, BackupBecomes DEF Backups!TypeOK
  <2> QED BY <1>2, <2>1, <2>3, <2>4, BackupRests DEF Backups!NoRun
<1> QED BY <1>5, <1>6, <1>7, <1>8, <1>9

LEMMA BackupExpired ==
  ASSUME NEW days, NEW s \in Backups!Expired(days) PROVE s \in Backups!WholeOnes
BY DEF Backups!Expired

LEMMA BackupCounts == ASSUME NEW S PROVE Backups!Cardinality(S) = Cardinality(S)
BY DEF Backups!Cardinality, Cardinality

LEMMA BackupProtected ==
  ASSUME NEW keep, NEW s \in Backups!WholeOnes,
         Cardinality(Backups!NewerThan(s, Backups!WholeOnes)) < keep
  PROVE  s \in Backups!Protected(keep)
<1> DEFINE P(t) == Backups!Cardinality(Backups!NewerThan(t, Backups!WholeOnes)) < keep
<1>1. Backups!Protected(keep) = {t \in Backups!WholeOnes : P(t)}
  BY DEF Backups!Protected
<1>2. P(s)
  BY BackupCounts
<1> HIDE DEF P
<1> QED BY <1>1, <1>2

\* A plan names only what a newer one that is kept stands for.
LEMMA BackupPlans ==
  ASSUME BackupInv, NEW a \in Backups!Actors,
         Backups!Plan(a) \/ Backups!RetentionFails(a) \/ Backups!RetentionEnds(a)
  PROVE  BackupInv'
<1>1. /\ Backups!TypeOK /\ BackupRunInv /\ BackupSoundInv /\ BackupOrderInv
      /\ backupRuns[a] \in Backups!Run
      /\ UNCHANGED <<backupDay, backupPolicy, backupArchive, backupPast, backupFaults>>
  BY BackupTypes DEF BackupInv, Backups!Plan, Backups!RetentionFails, Backups!RetentionEnds
<1>2. ASSUME NEW r \in Backups!Run, Backups!Become(a, r), r.step \in {"remove", "record"},
             r.stem = backupRuns[a].stem, Retaining(a),
             \A s \in r.plan : /\ s \in Backups!Stems /\ s <= backupPast.last
                               /\ \A b \in Backups!Actors : Publishing(b) => backupRuns[b].stem # s
                               /\ ~backupPast.tampered => NewerStands(s),
             backupRuns[a].step = "half" =>
               \A s \in Backups!Stems : Backups!Newest(s, backupRuns[a].plan)
                                          => ~backupArchive[s].manifest
      PROVE  BackupInv'
  <2>1. Backups!TypeOK'
    BY <1>1, <1>2, BackupBecomes DEF Backups!TypeOK
  <2>2. a = "driver" => /\ r.stem \in Backups!Stems /\ r.stem <= backupPast.last
                        /\ ~backupPast.tampered => StandsFrom(r.stem)
    BY <1>1, <1>2 DEF BackupRunInv, BackupSoundInv, StandsFrom
  <2>3. backupRuns[a].step # "published"
    BY <1>2 DEF Retaining
  <2>4. ~backupPast.tampered /\ backupPolicy'.success > 0 =>
           \E t \in Backups!Stems : /\ Backups!Whole(t)
                                    /\ backupArchive[t].at + 1 >= backupPolicy'.success
    BY <1>1 DEF BackupSoundInv
  <2> QED BY <1>1, <1>2, <2>1, <2>2, <2>3, <2>4, BackupTurns
<1>3. \A s \in backupRuns[a].plan :
        /\ s \in Backups!Stems /\ s <= backupPast.last
        /\ \A b \in Backups!Actors : Publishing(b) => backupRuns[b].stem # s
        /\ ~backupPast.tampered => NewerStands(s)
  BY <1>1, BackupTypes DEF BackupRunInv, BackupSoundInv
<1>4. CASE Backups!Plan(a)
  <2> DEFINE keeps == backupRuns[a].keeps
             plan == Backups!Expired(keeps.days) \ Backups!Protected(keeps.keep)
             blocked == \E s \in Backups!Stems : Backups!Present(s) /\ ~Backups!Whole(s)
             r == [backupRuns[a] EXCEPT !.step = "remove", !.plan = plan, !.blocked = blocked]
  <2>1. Backups!Become(a, r) /\ backupRuns[a].step = "retain" /\ Retaining(a)
    BY <1>4 DEF Backups!Plan, Backups!At, Retaining
  <2>2. keeps.keep \in Nat \ {0} /\ plan \subseteq Backups!Stems /\ blocked \in BOOLEAN
    <3>1. keeps \in Retentions
      BY <1>1 DEF Backups!Run
    <3>2. keeps.keep \in KeepLatest
      BY <3>1 DEF Retentions
    <3> QED BY <3>2, BackupAssumption DEF Backups!Expired, Backups!WholeOnes
  <2>3. ASSUME NEW s \in plan
        PROVE  /\ s \in Backups!Stems /\ Backups!Whole(s) /\ s <= backupPast.last /\ NewerStands(s)
               /\ \A b \in Backups!Actors : Publishing(b) => backupRuns[b].stem # s
    <3>1. /\ s \in Backups!WholeOnes
          /\ ~(Cardinality(Backups!NewerThan(s, Backups!WholeOnes)) < keeps.keep)
      <4>1. s \in Backups!Expired(keeps.days) /\ s \notin Backups!Protected(keeps.keep)
        OBVIOUS
      <4> QED BY <4>1, BackupExpired, BackupProtected
    <3>2. s \in Backups!Stems /\ Backups!Whole(s)
      BY <3>1 DEF Backups!WholeOnes
    <3>3. Backups!NewerThan(s, Backups!WholeOnes) # {}
      BY <2>2, <3>1, FS_EmptySet
    <3>4. NewerStands(s)
      BY <3>3 DEF Backups!NewerThan, Backups!WholeOnes, NewerStands
    <3>5. s <= backupPast.last
      BY <1>1, <3>2, BackupTypes DEF BackupOrderInv, Backups!Present, Backups!Whole
    <3>6. \A b \in Backups!Actors : Publishing(b) => backupRuns[b].stem # s
      BY <1>1, <3>2 DEF BackupRunInv, Backups!Whole
    <3> QED BY <3>2, <3>4, <3>5, <3>6
  <2> HIDE DEF plan, blocked
  <2>4. /\ r \in Backups!Run /\ r.step = "remove" /\ r.stem = backupRuns[a].stem /\ r.plan = plan
    BY <1>1, <2>2 DEF Backups!Run, Backups!Steps
  <2> HIDE DEF r
  <2> QED BY <1>2, <2>1, <2>3, <2>4
<1>5. CASE Backups!RetentionFails(a)
  <2> DEFINE r == [backupRuns[a] EXCEPT !.step = "record", !.failed = TRUE]
  <2>1. PICK s \in Backups!Stems : /\ Backups!Newest(s, backupRuns[a].plan)
                                   /\ \/ backupRuns[a].step = "remove"
                                      \/ backupRuns[a].step = "half" /\ ~backupArchive[s].manifest
    BY <1>5 DEF Backups!RetentionFails, Backups!At
  <2>2. Backups!Become(a, r) /\ Retaining(a)
    BY <1>5, <2>1 DEF Backups!RetentionFails, Retaining
  <2>3. /\ r \in Backups!Run /\ r.step = "record" /\ r.stem = backupRuns[a].stem
        /\ r.plan = backupRuns[a].plan
    BY <1>1 DEF Backups!Run, Backups!Steps
  <2>4. ASSUME NEW t \in Backups!Stems, Backups!Newest(t, backupRuns[a].plan) PROVE t = s
    <3>1. s \in Nat /\ t \in Nat
      BY <1>1, BackupTypes
    <3> QED BY <2>1, <2>4, <3>1 DEF Backups!Newest
  <2> HIDE DEF r
  <2> QED BY <1>2, <1>3, <2>1, <2>2, <2>3, <2>4
<1>6. CASE Backups!RetentionEnds(a)
  <2> DEFINE r == [backupRuns[a] EXCEPT !.step = "record"]
  <2>1. Backups!Become(a, r) /\ backupRuns[a].step = "remove" /\ Retaining(a)
    BY <1>6 DEF Backups!RetentionEnds, Backups!Goto, Backups!At, Retaining
  <2>2. /\ r \in Backups!Run /\ r.step = "record" /\ r.stem = backupRuns[a].stem
        /\ r.plan = backupRuns[a].plan
    BY <1>1 DEF Backups!Run, Backups!Steps
  <2> HIDE DEF r
  <2> QED BY <1>2, <1>3, <2>1, <2>2
<1> QED BY <1>4, <1>5, <1>6

\* The policy and the calendar.
LEMMA BackupQuiet ==
  ASSUME BackupInv,
         \/ \E enabled \in BOOLEAN, keeps \in Retentions : Backups!EditPolicy(enabled, keeps)
         \/ Backups!Tomorrow
  PROVE  BackupInv'
<1>1. /\ Backups!TypeOK /\ BackupOrderInv /\ BackupRunInv /\ BackupSoundInv /\ Backups!HalfOnlyByStop
      /\ UNCHANGED <<backupArchive, backupRuns, backupPast, backupFaults>>
      /\ \A s \in Backups!Stems : backupArchive[s].at \in Nat
  BY BackupTypes DEF BackupInv, Backups!EditPolicy, Backups!Tomorrow
<1>2. /\ backupDay' \in 0..MaxDays /\ backupDay' >= backupDay /\ backupDay \in Nat /\ backupDay' \in Nat
      /\ backupPolicy'.success = backupPolicy.success
      /\ backupPolicy' \in [enabled : BOOLEAN, keeps : Retentions, version : 1..(MaxPolicies + 1),
                            success : 0..(MaxDays + 1),
                            error : {"none", "create", "blocked", "retention"}]
  <2>1. /\ backupDay \in 0..MaxDays /\ backupPolicy.version \in 1..(MaxPolicies + 1)
        /\ backupPolicy \in [enabled : BOOLEAN, keeps : Retentions, version : 1..(MaxPolicies + 1),
                             success : 0..(MaxDays + 1),
                             error : {"none", "create", "blocked", "retention"}]
    BY <1>1 DEF Backups!TypeOK
  <2>2. CASE Backups!Tomorrow
    BY <2>1, <2>2, BackupAssumption DEF Backups!Tomorrow
  <2>3. ASSUME NEW enabled \in BOOLEAN, NEW keeps \in Retentions, Backups!EditPolicy(enabled, keeps)
        PROVE  <1>2
    <3>1. backupPolicy.version <= MaxPolicies /\ backupPolicy.version \in 1..(MaxPolicies + 1)
      BY <2>1, <2>3 DEF Backups!EditPolicy
    <3>2. backupPolicy.version + 1 \in 1..(MaxPolicies + 1)
      BY <3>1, BackupAssumption
    <3>3. backupPolicy' = [backupPolicy EXCEPT !.enabled = enabled, !.keeps = keeps,
                                               !.version = backupPolicy.version + 1]
      BY <2>1, <2>3 DEF Backups!EditPolicy
    <3>4. /\ backupPolicy' \in [enabled : BOOLEAN, keeps : Retentions, version : 1..(MaxPolicies + 1),
                                success : 0..(MaxDays + 1),
                                error : {"none", "create", "blocked", "retention"}]
          /\ backupPolicy'.success = backupPolicy.success
      BY <2>1, <3>2, <3>3
    <3>5. backupDay' = backupDay
      BY <2>3 DEF Backups!EditPolicy
    <3>6. backupDay \in Nat /\ backupDay >= backupDay
      BY <1>1, BackupTypes
    <3> QED BY <2>1, <3>4, <3>5, <3>6
  <2> QED BY <2>2, <2>3
<1>3. Backups!TypeOK'
  BY <1>1, <1>2 DEF Backups!TypeOK
<1>4. BackupOrderInv'
  BY <1>1, <1>2 DEF BackupOrderInv, Backups!Present
<1>5. BackupRunInv'
  BY <1>1 DEF BackupRunInv, Publishing, Retaining, Backups!Newest
<1>6. BackupSoundInv'
  <2>1. \A s : /\ Backups!Whole(s)' <=> Backups!Whole(s)
               /\ NewerStands(s) => NewerStands(s)'
    BY <1>1 DEF Backups!Whole, NewerStands
  <2>2. StandsFrom(backupRuns["driver"].stem) => StandsFrom(backupRuns["driver"].stem)'
    BY <1>1, <2>1 DEF StandsFrom
  <2> QED BY <1>1, <1>2, <2>1, <2>2 DEF BackupSoundInv, Retaining
<1>7. Backups!HalfOnlyByStop'
  BY <1>1 DEF Backups!HalfOnlyByStop, Backups!Present, Backups!Whole, Backups!At, Backups!Newest
<1> QED BY <1>3, <1>4, <1>5, <1>6, <1>7 DEF BackupInv

\* A pair of files changes, not its time.
LEMMA BackupPair ==
  ASSUME Backups!TypeOK, NEW s \in Backups!Stems, NEW pair \in Backups!Pair,
         backupArchive' = [backupArchive EXCEPT ![s] = pair]
  PROVE  /\ backupArchive' \in [Backups!Stems -> Backups!Pair] /\ backupArchive'[s] = pair
         /\ \A t \in Backups!Stems \ {s} : backupArchive'[t] = backupArchive[t]
BY BackupTypes

LEMMA BackupCopies ==
  ASSUME BackupInv, NEW a \in Backups!Actors, Backups!Copy(a) PROVE BackupInv'
<1> DEFINE n == backupPast.last + 1
           r == [backupRuns[a] EXCEPT !.step = "copied", !.stem = n]
<1>1. /\ Backups!TypeOK /\ BackupOrderInv /\ BackupRunInv /\ BackupSoundInv /\ Backups!HalfOnlyByStop
      /\ UNCHANGED <<backupDay, backupPolicy, backupFaults>> /\ backupRuns[a].step = "due"
      /\ backupPast.last < MaxBackups /\ Backups!Become(a, r)
      /\ backupPast' = [backupPast EXCEPT !.last = n]
  BY DEF BackupInv, Backups!Copy, Backups!At
<1>2. /\ n \in Backups!Stems /\ n \in 0..MaxBackups /\ n \in Nat /\ n > backupPast.last
      /\ backupPast.last \in Nat /\ backupDay \in 0..MaxDays
      /\ \A s \in Backups!Stems : s \in Nat /\ backupArchive[s].at \in Nat
  BY <1>1, BackupTypes, BackupAssumption DEF Backups!Stems
<1>3. /\ backupPast' \in [last : 0..MaxBackups, complete : BOOLEAN, tampered : BOOLEAN, cut : BOOLEAN]
      /\ backupPast'.last = n /\ backupPast'.complete = backupPast.complete
      /\ backupPast'.tampered = backupPast.tampered /\ backupPast'.cut = backupPast.cut
  <2>1. backupPast \in [last : 0..MaxBackups, complete : BOOLEAN, tampered : BOOLEAN, cut : BOOLEAN]
    BY <1>1 DEF Backups!TypeOK
  <2> HIDE DEF n
  <2> QED BY <1>1, <1>2, <2>1
<1>4. /\ r \in Backups!Run /\ r.step = "copied" /\ r.stem = n /\ r.plan = backupRuns[a].plan
  <2> HIDE DEF n
  <2> QED BY <1>1, <1>2, BackupTypes DEF Backups!Run, Backups!Steps
<1>5. /\ backupRuns' \in [Backups!Actors -> Backups!Run] /\ backupRuns'[a] = r
      /\ \A b \in Backups!Actors \ {a} : backupRuns'[b] = backupRuns[b]
  <2> HIDE DEF r
  <2> QED BY <1>1, <1>4, BackupBecomes
<1> DEFINE pair == [backupArchive[n] EXCEPT !.at = backupDay]
<1>6. /\ pair \in Backups!Pair /\ pair.at = backupDay /\ pair.database = "none" /\ ~pair.manifest
      /\ backupArchive' = [backupArchive EXCEPT ![n] = pair]
  <2>1. ~Backups!Present(n) /\ backupArchive[n] \in Backups!Pair
    BY <1>1, <1>2, BackupTypes DEF BackupOrderInv
  <2>2. backupArchive' = [backupArchive EXCEPT ![n] = pair]
    BY <1>1, <1>2, BackupTypes DEF Backups!Copy
  <2> HIDE DEF n
  <2> QED BY <1>2, <2>1, <2>2 DEF Backups!Pair, Backups!Present
<1> HIDE DEF n, pair, r
<1>7. /\ backupArchive' \in [Backups!Stems -> Backups!Pair] /\ backupArchive'[n] = pair
      /\ \A t \in Backups!Stems \ {n} : backupArchive'[t] = backupArchive[t]
  BY <1>1, <1>2, <1>6, BackupPair
<1>8. \A s \in Backups!Stems : s <= backupPast.last <=> (s <= n /\ s # n)
  BY <1>2 DEF n
<1>9. Backups!TypeOK'
  BY <1>1, <1>3, <1>5, <1>7 DEF Backups!TypeOK
<1>10. BackupOrderInv'
  <2>1. \A s \in Backups!Stems : s <= backupPast.last => backupArchive[s].at <= backupDay
    BY <1>1 DEF BackupOrderInv
  <2> QED BY <1>1, <1>2, <1>3, <1>6, <1>7, <1>8, <2>1 DEF BackupOrderInv, Backups!Present
<1>11. \A b \in Backups!Actors : /\ backupRuns'[b].plan = backupRuns[b].plan
                                 /\ \A s \in backupRuns[b].plan : s \in Backups!Stems /\ s # n
                                                                  /\ s <= backupPast.last
  BY <1>1, <1>2, <1>4, <1>5, <1>8, BackupTypes DEF BackupRunInv
<1>12. BackupRunInv'
  <2>1. ASSUME NEW b \in Backups!Actors, b # a, Publishing(b)
        PROVE  /\ backupRuns[b].stem \in Backups!Stems /\ backupRuns[b].stem # n
               /\ backupRuns[b].stem <= backupPast.last
    BY <1>1, <1>8, <2>1 DEF BackupRunInv
  <2>2. ASSUME NEW b \in Backups!Actors, Publishing(b)'
        PROVE  /\ backupRuns'[b].stem \in Backups!Stems /\ backupRuns'[b].stem <= backupPast'.last
               /\ ~backupArchive'[backupRuns'[b].stem].manifest
               /\ \A c \in Backups!Actors : backupRuns'[b].stem \notin backupRuns'[c].plan
               /\ \A c \in Backups!Actors \ {b} :
                    Publishing(c)' => backupRuns'[c].stem # backupRuns'[b].stem
               /\ backupRuns'[b].step = "copied" =>
                    backupArchive'[backupRuns'[b].stem].database = "none"
    <3>1. CASE b = a
      <4>1. ASSUME NEW c \in Backups!Actors \ {b}, Publishing(c)' PROVE backupRuns'[c].stem # n
        BY <1>5, <2>1, <3>1, <4>1 DEF Publishing
      <4>2. n <= n
        BY <1>2
      <4> QED BY <1>2, <1>3, <1>4, <1>5, <1>6, <1>7, <1>11, <3>1, <4>1, <4>2
    <3>2. CASE b # a
      <4>1. backupRuns'[b] = backupRuns[b] /\ Publishing(b)
        BY <1>5, <2>2, <3>2 DEF Publishing
      <4>2. /\ backupRuns[b].stem \in Backups!Stems /\ backupRuns[b].stem # n
            /\ backupRuns[b].stem <= n /\ ~backupArchive[backupRuns[b].stem].manifest
            /\ \A c \in Backups!Actors : backupRuns[b].stem \notin backupRuns[c].plan
            /\ \A c \in Backups!Actors \ {b} : Publishing(c) => backupRuns[c].stem # backupRuns[b].stem
            /\ backupRuns[b].step = "copied" =>
                 backupArchive[backupRuns[b].stem].database = "none"
        BY <1>1, <1>8, <2>1, <3>2, <4>1 DEF BackupRunInv
      <4>3. ASSUME NEW c \in Backups!Actors \ {b}, Publishing(c)'
            PROVE  backupRuns'[c].stem # backupRuns'[b].stem
        BY <1>4, <1>5, <4>1, <4>2, <4>3 DEF Publishing
      <4> QED BY <1>3, <1>7, <1>11, <4>1, <4>2, <4>3
    <3> QED BY <3>1, <3>2
  <2>3. ASSUME NEW b \in Backups!Actors
        PROVE  /\ b = "driver" /\ Retaining(b)' => /\ backupRuns'[b].stem \in Backups!Stems
                                                   /\ backupRuns'[b].stem <= backupPast'.last
               /\ \A s \in backupRuns'[b].plan : s <= backupPast'.last
               /\ backupRuns'[b].step = "half" =>
                    \A s \in Backups!Stems : Backups!Newest(s, backupRuns'[b].plan)
                                               => backupArchive'[s].database # "good"
    <3>1. b # a \/ (backupRuns'[b].step # "half" /\ ~Retaining(b)')
      BY <1>4, <1>5 DEF Retaining
    <3>2. b # a => backupRuns'[b] = backupRuns[b]
      BY <1>5
    <3>3. /\ b = "driver" /\ Retaining(b) => /\ backupRuns[b].stem \in Backups!Stems
                                             /\ backupRuns[b].stem <= n
          /\ \A s \in backupRuns[b].plan : s <= n
          /\ backupRuns[b].step = "half" =>
               \A s \in Backups!Stems : Backups!Newest(s, backupRuns[b].plan)
                                          => backupArchive[s].database # "good"
      BY <1>1, <1>8, <1>11 DEF BackupRunInv
    <3> QED BY <1>3, <1>7, <1>11, <3>1, <3>2, <3>3 DEF Backups!Newest, Retaining
  <2>4. \A b \in Backups!Actors : backupRuns'[b].step = "copied" => Publishing(b)'
    BY DEF Publishing
  <2> QED BY <2>2, <2>3, <2>4 DEF BackupRunInv, Backups!Newest
<1>13. \A s \in Backups!Stems : /\ Backups!Whole(s)' <=> Backups!Whole(s)
                                /\ Backups!Present(s)' <=> Backups!Present(s)
                                /\ Backups!Whole(s) => s <= backupPast.last
  <2>1. ~Backups!Present(n)
    BY <1>1, <1>2 DEF BackupOrderInv
  <2>2. \A s \in Backups!Stems : s <= backupPast.last \/ ~Backups!Present(s)
    BY <1>1, <1>2 DEF BackupOrderInv
  <2> QED BY <1>6, <1>7, <2>1, <2>2 DEF Backups!Whole, Backups!Present
<1>14. BackupSoundInv'
  <2> SUFFICES ASSUME ~backupPast.tampered PROVE BackupSoundInv'
    BY <1>3 DEF BackupSoundInv
  <2>1. /\ \A s \in Backups!Stems : Backups!Whole(s) =>
             \E t \in Backups!Stems : t >= s /\ t <= backupPast.last /\ Backups!Whole(t)'
        /\ \A s \in Backups!Stems : s <= backupPast.last => backupArchive'[s].at = backupArchive[s].at
    BY <1>2, <1>7, <1>8, <1>13
  <2>2. /\ \A b \in Backups!Actors :
             /\ \A s \in backupRuns[b].plan : NewerStands(s)'
             /\ b = "driver" /\ Retaining(b) =>
                  \E t \in Backups!Stems : t >= backupRuns[b].stem /\ Backups!Whole(t)'
        /\ backupPast.complete => \E t \in Backups!Stems : Backups!Whole(t)'
        /\ backupPolicy.success > 0 =>
             \E t \in Backups!Stems : /\ Backups!Whole(t)'
                                      /\ backupArchive'[t].at + 1 >= backupPolicy.success
    BY <2>1, BackupStands
  <2>3. ASSUME NEW b \in Backups!Actors
        PROVE  /\ backupRuns'[b].step = "published" =>
                    backupArchive'[backupRuns'[b].stem].database = "good"
               /\ \A s \in backupRuns'[b].plan : NewerStands(s)'
               /\ b = "driver" /\ Retaining(b)' => StandsFrom(backupRuns[b].stem)'
    <3>1. CASE b = a
      BY <1>4, <1>5, <1>11, <2>2, <3>1 DEF Retaining
    <3>2. CASE b # a
      <4>1. backupRuns'[b] = backupRuns[b]
        BY <1>5, <3>2
      <4>2. backupRuns[b].step = "published" => /\ backupArchive[backupRuns[b].stem].database = "good"
                                                /\ backupRuns[b].stem \in Backups!Stems
                                                /\ backupRuns[b].stem # n
        BY <1>1, <1>8 DEF BackupSoundInv, BackupRunInv, Publishing
      <4>3. b = "driver" /\ Retaining(b)' => StandsFrom(backupRuns[b].stem)'
        BY <2>2, <4>1 DEF Retaining, StandsFrom
      <4> QED BY <1>7, <1>11, <2>2, <4>1, <4>2, <4>3
    <3> QED BY <3>1, <3>2
  <2>4. \A s \in Backups!Stems : backupArchive'[s].database # "damaged"
    BY <1>1, <1>6, <1>7 DEF BackupSoundInv
  <2> QED BY <1>1, <1>3, <2>2, <2>3, <2>4 DEF BackupSoundInv
<1>15. Backups!HalfOnlyByStop'
  <2> SUFFICES ASSUME ~backupPast.tampered, ~backupPast.cut, NEW s \in Backups!Stems,
                      Backups!Present(s), ~Backups!Whole(s)
               PROVE  \E b \in Backups!Actors :
                        \/ backupRuns'[b].step = "published" /\ backupRuns'[b].stem = s
                        \/ backupRuns'[b].step = "half" /\ Backups!Newest(s, backupRuns'[b].plan)
    BY <1>3, <1>13 DEF Backups!HalfOnlyByStop, Backups!At, Backups!Newest
  <2>1. PICK b \in Backups!Actors :
          \/ backupRuns[b].step = "published" /\ backupRuns[b].stem = s
          \/ backupRuns[b].step = "half" /\ Backups!Newest(s, backupRuns[b].plan)
    BY <1>1 DEF Backups!HalfOnlyByStop, Backups!At
  <2> QED BY <1>1, <1>5, <2>1
<1> QED BY <1>9, <1>10, <1>12, <1>14, <1>15 DEF BackupInv

\* One of them changes one pair of files.  Nobody else is at that pair, and what
\* was whole still is or a newer one is.
BackupChange(a, r, s, pair) ==
  /\ Backups!Become(a, r) /\ backupArchive' = [backupArchive EXCEPT ![s] = pair]
  /\ pair.at = backupArchive[s].at /\ s <= backupPast.last /\ UNCHANGED backupDay
  /\ backupPolicy' \in [enabled : BOOLEAN, keeps : Retentions, version : 1..(MaxPolicies + 1),
                        success : 0..(MaxDays + 1),
                        error : {"none", "create", "blocked", "retention"}]
  /\ backupPolicy'.success = backupPolicy.success /\ backupFaults' \in 0..BackupFaults
  /\ backupPast' \in [last : 0..MaxBackups, complete : BOOLEAN, tampered : BOOLEAN, cut : BOOLEAN]
  /\ backupPast'.last = backupPast.last /\ backupPast'.tampered = backupPast.tampered
  /\ backupPast'.cut = backupPast.cut

\* Nobody else is at this pair.
BackupOwns(a, r, s, pair) ==
  /\ \A b \in Backups!Actors \ {a} : Publishing(b) => backupRuns[b].stem # s
  /\ pair.database = "good" => \A b \in Backups!Actors : s \notin backupRuns[b].plan
  /\ r.plan \subseteq backupRuns[a].plan /\ r.step # "copied"
  /\ backupRuns[a].step \in {"copied", "published"} => backupRuns[a].stem = s
  /\ backupRuns[a].step = "half" => Backups!Newest(s, backupRuns[a].plan)
  /\ r.step = "published" => /\ r.stem = s /\ ~pair.manifest /\ Publishing(a)
                             /\ backupRuns[a].stem = s
                             /\ ~backupPast.tampered => pair.database = "good"
  /\ r.step = "half" => Backups!Newest(s, r.plan) /\ pair.database # "good"

\* What was whole still is, or a newer one is.
BackupKept(a, r, s, pair) ==
  /\ a = "driver" /\ r.step \in {"retain", "remove", "half", "record"} =>
       \/ Retaining(a) /\ r.stem = backupRuns[a].stem
       \/ /\ r.stem = s
          /\ ~backupPast.tampered => pair.database = "good" /\ pair.manifest
  /\ ~backupPast.tampered =>
       /\ pair.database # "damaged"
       /\ Backups!Whole(s) => NewerStands(s)
       /\ backupPast'.complete => backupPast.complete \/ (pair.database = "good" /\ pair.manifest)
       /\ \/ pair.database = "none" /\ ~pair.manifest
          \/ pair.database = "good" /\ pair.manifest
          \/ r.step \in {"published", "half"}

LEMMA BackupChanges ==
  ASSUME BackupInv, NEW a \in Backups!Actors, NEW r \in Backups!Run,
         NEW s \in Backups!Stems, NEW pair \in Backups!Pair,
         BackupChange(a, r, s, pair), BackupOwns(a, r, s, pair), BackupKept(a, r, s, pair)
  PROVE  BackupInv'
<1> USE DEF BackupChange, BackupOwns, BackupKept
<1>1. /\ Backups!TypeOK /\ BackupOrderInv /\ BackupRunInv /\ BackupSoundInv /\ Backups!HalfOnlyByStop
      /\ backupDay' = backupDay
  BY DEF BackupInv
<1>2. /\ backupRuns' \in [Backups!Actors -> Backups!Run] /\ backupRuns'[a] = r
      /\ \A b \in Backups!Actors \ {a} : backupRuns'[b] = backupRuns[b]
  BY <1>1, BackupBecomes
<1>3. /\ backupArchive' \in [Backups!Stems -> Backups!Pair] /\ backupArchive'[s] = pair
      /\ \A t \in Backups!Stems \ {s} : backupArchive'[t] = backupArchive[t]
      /\ \A t \in Backups!Stems : backupArchive'[t].at = backupArchive[t].at
  <2>1. /\ backupArchive' \in [Backups!Stems -> Backups!Pair] /\ backupArchive'[s] = pair
        /\ \A t \in Backups!Stems \ {s} : backupArchive'[t] = backupArchive[t]
    BY <1>1, BackupPair
  <2> QED BY <2>1
<1>4. Backups!TypeOK'
  <2>1. backupDay' \in 0..MaxDays
    BY <1>1, BackupTypes
  <2> QED BY <1>2, <1>3, <2>1 DEF Backups!TypeOK
<1>5. BackupOrderInv'
  <2>1. \A t \in Backups!Stems : t > backupPast.last => t # s
    BY <1>1, BackupTypes
  <2>2. \A t \in Backups!Stems : t > backupPast.last => ~Backups!Present(t)'
    BY <1>1, <1>3, <2>1 DEF BackupOrderInv, Backups!Present
  <2> QED BY <1>1, <1>3, <2>2 DEF BackupOrderInv
<1>6. \A b \in Backups!Actors : /\ backupRuns'[b].plan \subseteq backupRuns[b].plan
                                /\ backupRuns'[b].plan \subseteq Backups!Stems
  BY <1>1, <1>2, BackupTypes
<1>7. BackupRunInv'
  <2>1. ASSUME NEW b \in Backups!Actors, b # a, Publishing(b)
        PROVE  /\ backupRuns[b].stem \in Backups!Stems /\ backupRuns[b].stem # s
               /\ backupRuns[b].stem <= backupPast.last
               /\ ~backupArchive'[backupRuns[b].stem].manifest
               /\ \A c \in Backups!Actors : backupRuns[b].stem \notin backupRuns[c].plan
               /\ \A c \in Backups!Actors \ {b} : Publishing(c) => backupRuns[c].stem # backupRuns[b].stem
               /\ backupRuns[b].step = "copied" => backupArchive'[backupRuns[b].stem].database = "none"
    BY <1>1, <1>3, <2>1 DEF BackupRunInv
  <2>2. ASSUME NEW b \in Backups!Actors, Publishing(b)'
        PROVE  /\ Publishing(b) /\ b # a => backupRuns'[b] = backupRuns[b]
               /\ b = a => r.step = "published"
    BY <1>2, <2>2 DEF Publishing
  <2>3. ASSUME NEW b \in Backups!Actors, Publishing(b)'
        PROVE  /\ backupRuns'[b].stem \in Backups!Stems /\ backupRuns'[b].stem <= backupPast'.last
               /\ ~backupArchive'[backupRuns'[b].stem].manifest
               /\ \A c \in Backups!Actors : backupRuns'[b].stem \notin backupRuns'[c].plan
               /\ \A c \in Backups!Actors \ {b} :
                    Publishing(c)' => backupRuns'[c].stem # backupRuns'[b].stem
               /\ backupRuns'[b].step = "copied" =>
                    backupArchive'[backupRuns'[b].stem].database = "none"
    <3>1. CASE b = a
      <4>1. r.step = "published" /\ backupRuns'[b] = r /\ r.stem = s
        BY <1>2, <2>2, <2>3, <3>1
      <4>2. \A c \in Backups!Actors : s \notin backupRuns[c].plan
        BY <1>1, <4>1 DEF BackupRunInv
      <4>3. ASSUME NEW c \in Backups!Actors \ {b}, Publishing(c)' PROVE backupRuns'[c].stem # s
        <5>1. backupRuns'[c] = backupRuns[c] /\ c \in Backups!Actors \ {a}
          BY <1>2, <3>1, <4>3
        <5>2. Publishing(c)
          BY <4>3, <5>1 DEF Publishing
        <5> QED BY <5>1, <5>2
      <4> QED BY <1>3, <1>6, <4>1, <4>2, <4>3
    <3>2. CASE b # a
      <4>1. Publishing(b) /\ backupRuns'[b] = backupRuns[b]
        BY <1>2, <2>2, <2>3, <3>2 DEF Publishing
      <4>2. ASSUME NEW c \in Backups!Actors \ {b}, Publishing(c)'
            PROVE  backupRuns'[c].stem # backupRuns[b].stem
        <5>1. CASE c = a
          BY <1>2, <2>1, <2>2, <3>2, <4>1, <4>2, <5>1
        <5>2. CASE c # a
          <6>1. Publishing(c) /\ backupRuns'[c] = backupRuns[c]
            BY <1>2, <4>2, <5>2 DEF Publishing
          <6> QED BY <2>1, <3>2, <4>1, <4>2, <6>1
        <5> QED BY <5>1, <5>2
      <4> QED BY <1>6, <2>1, <3>2, <4>1, <4>2
    <3> QED BY <3>1, <3>2
  <2>4. ASSUME NEW b \in Backups!Actors, b = "driver", Retaining(b)'
        PROVE  backupRuns'[b].stem \in Backups!Stems /\ backupRuns'[b].stem <= backupPast'.last
    <3>1. CASE b = a
      BY <1>1, <1>2, <2>4, <3>1 DEF BackupRunInv, Retaining
    <3>2. CASE b # a
      BY <1>1, <1>2, <2>4, <3>2 DEF BackupRunInv, Retaining
    <3> QED BY <3>1, <3>2
  <2>5. \A b \in Backups!Actors : \A t \in backupRuns'[b].plan : t <= backupPast'.last
    BY <1>1, <1>6 DEF BackupRunInv
  <2>6. ASSUME NEW b \in Backups!Actors, backupRuns'[b].step = "half", NEW t \in Backups!Stems,
               Backups!Newest(t, backupRuns'[b].plan)
        PROVE  backupArchive'[t].database # "good"
    <3>1. CASE b = a
      <4>1. Backups!Newest(s, r.plan) /\ Backups!Newest(t, r.plan) /\ pair.database # "good"
        BY <1>2, <2>6, <3>1
      <4>2. s = t
        BY <1>1, <4>1, BackupTypes DEF Backups!Newest
      <4> QED BY <1>3, <4>1, <4>2
    <3>2. CASE b # a
      <4>1. backupRuns'[b] = backupRuns[b]
        BY <1>2, <3>2
      <4>2. backupArchive[t].database # "good" /\ t \in backupRuns[b].plan
        BY <1>1, <2>6, <4>1 DEF BackupRunInv, Backups!Newest
      <4> QED BY <1>3, <4>2
    <3> QED BY <3>1, <3>2
  <2>7. \A b \in Backups!Actors : backupRuns'[b].step = "copied" => Publishing(b)'
    BY DEF Publishing
  <2> QED BY <2>3, <2>4, <2>5, <2>6, <2>7 DEF BackupRunInv, Backups!Newest
<1>8. BackupSoundInv'
  <2> SUFFICES ASSUME ~backupPast.tampered PROVE BackupSoundInv'
    BY DEF BackupSoundInv
  <2>1. \A t \in Backups!Stems : backupArchive'[t].database # "damaged"
    BY <1>1, <1>3 DEF BackupSoundInv
  <2>2. ASSUME NEW u \in Backups!Stems, Backups!Whole(u)
        PROVE  \E t \in Backups!Stems : t >= u /\ t <= backupPast.last /\ Backups!Whole(t)'
    <3>1. \A t \in Backups!Stems : Backups!Whole(t) => t <= backupPast.last
      BY <1>1, BackupTypes DEF BackupOrderInv, Backups!Whole, Backups!Present
    <3>2. CASE u # s
      BY <1>1, <1>3, <2>2, <3>1, <3>2, BackupTypes DEF Backups!Whole
    <3>3. CASE u = s
      <4>1. PICK t \in Backups!Stems : t > s /\ Backups!Whole(t)
        BY <2>2, <3>3 DEF NewerStands
      <4>2. t # s /\ t >= u
        BY <1>1, <3>3, <4>1, BackupTypes
      <4> QED BY <1>3, <3>1, <4>1, <4>2 DEF Backups!Whole
    <3> QED BY <3>2, <3>3
  <2>3. /\ \A b \in Backups!Actors :
             /\ \A t \in backupRuns[b].plan : NewerStands(t)'
             /\ b = "driver" /\ Retaining(b) =>
                  \E t \in Backups!Stems : t >= backupRuns[b].stem /\ Backups!Whole(t)'
        /\ backupPast.complete => \E t \in Backups!Stems : Backups!Whole(t)'
        /\ backupPolicy.success > 0 =>
             \E t \in Backups!Stems : /\ Backups!Whole(t)'
                                      /\ backupArchive'[t].at + 1 >= backupPolicy.success
    BY <1>3, <2>2, BackupStands
  <2>4. ASSUME NEW b \in Backups!Actors, backupRuns'[b].step = "published"
        PROVE  backupArchive'[backupRuns'[b].stem].database = "good"
    <3>1. CASE b = a
      BY <1>2, <1>3, <2>4, <3>1
    <3>2. CASE b # a
      <4>1. /\ backupRuns'[b] = backupRuns[b] /\ Publishing(b)
            /\ backupArchive[backupRuns[b].stem].database = "good"
            /\ backupRuns[b].stem \in Backups!Stems /\ backupRuns[b].stem # s
        BY <1>1, <1>2, <2>4, <3>2 DEF BackupSoundInv, BackupRunInv, Publishing
      <4> QED BY <1>3, <4>1
    <3> QED BY <3>1, <3>2
  <2>5. ASSUME NEW b \in Backups!Actors, b = "driver", Retaining(b)'
        PROVE  \E t \in Backups!Stems : t >= backupRuns'[b].stem /\ Backups!Whole(t)'
    <3>1. CASE b = a /\ r.stem = s /\ pair.database = "good" /\ pair.manifest
      <4>1. s >= s
        BY <1>1, BackupTypes
      <4> QED BY <1>2, <1>3, <3>1, <4>1 DEF Backups!Whole
    <3>2. CASE b = a /\ Retaining(a) /\ r.stem = backupRuns[a].stem
      BY <1>2, <2>3, <2>5, <3>2
    <3>3. CASE b # a
      BY <1>2, <2>3, <2>5, <3>3 DEF Retaining
    <3> QED BY <1>2, <2>5, <3>1, <3>2, <3>3 DEF Retaining
  <2>6. backupPast'.complete => \E t \in Backups!Stems : Backups!Whole(t)'
    BY <1>3, <2>3 DEF Backups!Whole
  <2>7. \A b \in Backups!Actors : \A t \in backupRuns'[b].plan : NewerStands(t)'
    BY <1>6, <2>3
  <2> QED BY <2>1, <2>3, <2>4, <2>5, <2>6, <2>7 DEF BackupSoundInv, StandsFrom
<1>9. Backups!HalfOnlyByStop'
  <2> SUFFICES ASSUME ~backupPast.tampered, ~backupPast.cut, NEW t \in Backups!Stems,
                      Backups!Present(t)', ~Backups!Whole(t)'
               PROVE  \E b \in Backups!Actors :
                        \/ backupRuns'[b].step = "published" /\ backupRuns'[b].stem = t
                        \/ backupRuns'[b].step = "half" /\ Backups!Newest(t, backupRuns'[b].plan)
    BY DEF Backups!HalfOnlyByStop, Backups!At, Backups!Newest
  <2>1. CASE t = s
    <3>1. r.step = "published" \/ r.step = "half"
      BY <1>3, <2>1 DEF Backups!Present, Backups!Whole
    <3> QED BY <1>2, <2>1, <3>1
  <2>2. CASE t # s
    <3>1. PICK b \in Backups!Actors :
            \/ backupRuns[b].step = "published" /\ backupRuns[b].stem = t
            \/ backupRuns[b].step = "half" /\ Backups!Newest(t, backupRuns[b].plan)
      BY <1>1, <1>3, <2>2 DEF Backups!HalfOnlyByStop, Backups!At, Backups!Present, Backups!Whole
    <3>2. b # a
      <4>1. ASSUME Backups!Newest(t, backupRuns[a].plan), Backups!Newest(s, backupRuns[a].plan)
            PROVE  t = s
        BY <1>1, <4>1, BackupTypes DEF Backups!Newest
      <4> QED BY <2>2, <3>1, <4>1
    <3> QED BY <1>2, <3>1, <3>2
  <2> QED BY <2>1, <2>2
<1> QED BY <1>4, <1>5, <1>7, <1>8, <1>9 DEF BackupInv

\* The two files of a backup are published, and with an error the first goes again.
LEMMA BackupPublishes ==
  ASSUME BackupInv, NEW a \in Backups!Actors,
         Backups!PublishDatabase(a) \/ Backups!PublishManifest(a) \/ Backups!CreateFails(a)
  PROVE  BackupInv'
<1>1. /\ Backups!TypeOK /\ BackupRunInv /\ BackupSoundInv /\ backupRuns[a] \in Backups!Run
      /\ Publishing(a) /\ UNCHANGED backupDay
  BY BackupTypes DEF BackupInv, Publishing, Backups!PublishDatabase, Backups!PublishManifest,
     Backups!CreateFails, Backups!At
<1>2. PICK s \in Backups!Stems : s = backupRuns[a].stem
  BY <1>1 DEF BackupRunInv
<1>3. /\ s <= backupPast.last /\ ~backupArchive[s].manifest /\ backupArchive[s] \in Backups!Pair
      /\ \A b \in Backups!Actors : s \notin backupRuns[b].plan
      /\ \A b \in Backups!Actors \ {a} : Publishing(b) => backupRuns[b].stem # s
      /\ backupRuns[a].step = "copied" => backupArchive[s].database = "none"
      /\ ~backupPast.tampered => /\ backupArchive[s].database # "damaged"
                                 /\ backupRuns[a].step = "published" => backupArchive[s].database = "good"
      /\ ~Backups!Whole(s) /\ backupRuns[a].step # "half" /\ ~Retaining(a)
  BY <1>1, <1>2, BackupTypes DEF BackupRunInv, BackupSoundInv, Backups!Whole, Publishing, Retaining
<1>4. /\ backupPolicy \in [enabled : BOOLEAN, keeps : Retentions, version : 1..(MaxPolicies + 1),
                           success : 0..(MaxDays + 1), error : {"none", "create", "blocked", "retention"}]
      /\ backupPast \in [last : 0..MaxBackups, complete : BOOLEAN, tampered : BOOLEAN, cut : BOOLEAN]
      /\ backupFaults \in 0..BackupFaults /\ Backups!NoRun \in Backups!Run
  BY <1>1, BackupKeeps DEF Backups!TypeOK
<1>5. CASE Backups!PublishDatabase(a)
  <2> DEFINE pair == [backupArchive[s] EXCEPT !.database = "good"]
             r == [backupRuns[a] EXCEPT !.step = "published"]
  <2>1. /\ pair \in Backups!Pair /\ pair.at = backupArchive[s].at /\ pair.database = "good"
        /\ ~pair.manifest
    BY <1>3 DEF Backups!Pair
  <2>2. /\ r \in Backups!Run /\ r.step = "published" /\ r.stem = s /\ r.plan = backupRuns[a].plan
    BY <1>1, <1>2 DEF Backups!Run, Backups!Steps
  <2>3. /\ Backups!Become(a, r) /\ UNCHANGED <<backupDay, backupPolicy, backupPast, backupFaults>>
        /\ backupArchive' = [backupArchive EXCEPT ![s] = pair]
    BY <1>1, <1>2, <1>5, BackupTypes DEF Backups!PublishDatabase, Backups!Goto
  <2> HIDE DEF pair, r
  <2>4. BackupChange(a, r, s, pair)
    BY <1>3, <1>4, <2>1, <2>3 DEF BackupChange
  <2>5. BackupOwns(a, r, s, pair)
    BY <1>1, <1>2, <1>3, <2>1, <2>2, <2>3 DEF BackupOwns
  <2>6. BackupKept(a, r, s, pair)
    BY <1>3, <2>1, <2>2, <2>3 DEF BackupKept
  <2> QED BY <2>1, <2>2, <2>4, <2>5, <2>6, BackupChanges
<1>6. CASE Backups!PublishManifest(a)
  <2> DEFINE pair == [backupArchive[s] EXCEPT !.manifest = TRUE]
             goes == [backupRuns[a] EXCEPT !.step = "retain"]
             r == IF a = "driver" THEN goes ELSE Backups!NoRun
  <2>1. /\ pair \in Backups!Pair /\ pair.at = backupArchive[s].at /\ pair.manifest
        /\ pair.database = backupArchive[s].database
    BY <1>3 DEF Backups!Pair
  <2>2. /\ goes \in Backups!Run /\ goes.step = "retain" /\ goes.stem = s
        /\ goes.plan = backupRuns[a].plan
    BY <1>1, <1>2 DEF Backups!Run, Backups!Steps
  <2>3. Backups!NoRun.step = "idle" /\ Backups!NoRun.plan = {}
    BY DEF Backups!NoRun
  <2>4. /\ Backups!Become(a, r) /\ UNCHANGED <<backupDay, backupPolicy, backupFaults>>
        /\ backupRuns[a].step = "published"
        /\ backupArchive' = [backupArchive EXCEPT ![s] = pair]
        /\ backupPast' = [backupPast EXCEPT !.complete = TRUE]
    <3>1. backupArchive' = [backupArchive EXCEPT ![s] = pair]
      BY <1>1, <1>2, <1>6, BackupTypes DEF Backups!PublishManifest
    <3> QED BY <1>6, <3>1 DEF Backups!PublishManifest, Backups!Goto, Backups!At
  <2>5. /\ backupPast' \in [last : 0..MaxBackups, complete : BOOLEAN, tampered : BOOLEAN, cut : BOOLEAN]
        /\ backupPast'.last = backupPast.last /\ backupPast'.tampered = backupPast.tampered
        /\ backupPast'.cut = backupPast.cut
    BY <1>4, <2>4
  <2>6. ~backupPast.tampered => pair.database = "good"
    BY <1>3, <2>1, <2>4
  <2> HIDE DEF pair, goes
  <2>7. /\ r \in Backups!Run /\ r.step \in {"idle", "retain"} /\ r.plan \subseteq backupRuns[a].plan
        /\ a = "driver" => r.stem = s
        /\ r.step = "retain" => a = "driver"
    BY <1>4, <2>2, <2>3
  <2> HIDE DEF r
  <2>8. BackupChange(a, r, s, pair)
    BY <1>3, <1>4, <2>1, <2>4, <2>5 DEF BackupChange
  <2>9. BackupOwns(a, r, s, pair)
    BY <1>1, <1>2, <1>3, <2>1, <2>4, <2>7 DEF BackupOwns
  <2>10. BackupKept(a, r, s, pair)
    BY <1>3, <2>1, <2>6, <2>7 DEF BackupKept
  <2> QED BY <2>1, <2>7, <2>8, <2>9, <2>10, BackupChanges
<1>7. CASE Backups!CreateFails(a)
  <2> DEFINE pair == IF backupRuns[a].step = "published"
                     THEN [backupArchive[s] EXCEPT !.database = "none"] ELSE backupArchive[s]
  <2>1. /\ pair \in Backups!Pair /\ pair.at = backupArchive[s].at /\ pair.database = "none"
        /\ ~pair.manifest
    <3>1. backupRuns[a].step \in {"copied", "published"}
      BY <1>1 DEF Publishing
    <3> QED BY <1>3, <3>1 DEF Backups!Pair
  <2>2. Backups!NoRun.step = "idle" /\ Backups!NoRun.plan = {}
    BY DEF Backups!NoRun
  <2>3. backupFaults' \in 0..BackupFaults /\ Backups!Become(a, Backups!NoRun) /\ UNCHANGED backupPast
    BY <1>1, <1>7, BackupFault DEF Backups!CreateFails
  <2>4. backupArchive' = [backupArchive EXCEPT ![s] = pair]
    BY <1>1, <1>2, <1>7, BackupTypes DEF Backups!CreateFails, Backups!At
  <2>5. /\ backupPolicy' \in [enabled : BOOLEAN, keeps : Retentions, version : 1..(MaxPolicies + 1),
                              success : 0..(MaxDays + 1),
                              error : {"none", "create", "blocked", "retention"}]
        /\ backupPolicy'.success = backupPolicy.success
    BY <1>4, <1>7 DEF Backups!CreateFails
  <2> HIDE DEF pair
  <2>6. BackupChange(a, Backups!NoRun, s, pair)
    BY <1>1, <1>3, <1>4, <2>1, <2>3, <2>4, <2>5 DEF BackupChange
  <2>7. BackupOwns(a, Backups!NoRun, s, pair)
    BY <1>1, <1>2, <1>3, <2>1, <2>2 DEF BackupOwns
  <2>8. BackupKept(a, Backups!NoRun, s, pair)
    BY <1>3, <2>1, <2>2, <2>3 DEF BackupKept
  <2> QED BY <1>4, <2>1, <2>6, <2>7, <2>8, BackupChanges
<1> QED BY <1>5, <1>6, <1>7

\* The two files of a backup go, the database before the manifest.
LEMMA BackupRemoves ==
  ASSUME BackupInv, NEW a \in Backups!Actors,
         Backups!RemoveDatabase(a) \/ Backups!RemoveManifest(a)
  PROVE  BackupInv'
<1>1. /\ Backups!TypeOK /\ BackupRunInv /\ BackupSoundInv /\ backupRuns[a] \in Backups!Run
      /\ Retaining(a) /\ ~Publishing(a)
      /\ UNCHANGED <<backupDay, backupPolicy, backupPast, backupFaults>>
  BY BackupTypes DEF BackupInv, Publishing, Retaining, Backups!RemoveDatabase,
     Backups!RemoveManifest, Backups!At
<1>2. /\ backupPolicy' \in [enabled : BOOLEAN, keeps : Retentions, version : 1..(MaxPolicies + 1),
                            success : 0..(MaxDays + 1),
                            error : {"none", "create", "blocked", "retention"}]
      /\ backupPast' \in [last : 0..MaxBackups, complete : BOOLEAN, tampered : BOOLEAN, cut : BOOLEAN]
      /\ backupFaults' \in 0..BackupFaults
  BY <1>1 DEF Backups!TypeOK
<1>3. ASSUME NEW s \in Backups!Stems, Backups!Newest(s, backupRuns[a].plan)
      PROVE  /\ s <= backupPast.last /\ backupArchive[s] \in Backups!Pair
             /\ ~backupPast.tampered => NewerStands(s) /\ backupArchive[s].database # "damaged"
             /\ \A b \in Backups!Actors \ {a} : Publishing(b) => backupRuns[b].stem # s
  BY <1>1, <1>3, BackupTypes DEF Backups!Newest, BackupRunInv, BackupSoundInv
<1>4. CASE Backups!RemoveDatabase(a)
  <2>1. PICK s \in Backups!Stems :
          /\ Backups!Newest(s, backupRuns[a].plan) /\ Backups!Whole(s)
          /\ backupArchive' = [backupArchive EXCEPT ![s].database = "none"]
    BY <1>4 DEF Backups!RemoveDatabase
  <2> DEFINE pair == [backupArchive[s] EXCEPT !.database = "none"]
             r == [backupRuns[a] EXCEPT !.step = "half"]
  <2>2. pair \in Backups!Pair /\ pair.at = backupArchive[s].at /\ pair.database = "none"
    BY <1>3, <2>1 DEF Backups!Pair
  <2>3. /\ r \in Backups!Run /\ r.step = "half" /\ r.plan = backupRuns[a].plan
        /\ r.stem = backupRuns[a].stem
    BY <1>1 DEF Backups!Run, Backups!Steps
  <2>4. /\ Backups!Become(a, r) /\ backupArchive' = [backupArchive EXCEPT ![s] = pair]
        /\ backupRuns[a].step = "remove"
    BY <1>4, <2>1 DEF Backups!RemoveDatabase, Backups!Goto, Backups!At
  <2> HIDE DEF pair, r
  <2>5. BackupChange(a, r, s, pair)
    BY <1>1, <1>2, <1>3, <2>1, <2>2, <2>4 DEF BackupChange
  <2>6. BackupOwns(a, r, s, pair)
    BY <1>1, <1>3, <2>1, <2>2, <2>3, <2>4 DEF BackupOwns, Publishing
  <2>7. BackupKept(a, r, s, pair)
    BY <1>1, <1>3, <2>1, <2>2, <2>3 DEF BackupKept
  <2> QED BY <2>2, <2>3, <2>5, <2>6, <2>7, BackupChanges
<1>5. CASE Backups!RemoveManifest(a)
  <2>1. PICK s \in Backups!Stems :
          /\ Backups!Newest(s, backupRuns[a].plan)
          /\ backupArchive' = [backupArchive EXCEPT ![s].manifest = FALSE]
          /\ Backups!Become(a, [backupRuns[a] EXCEPT !.step = "remove",
                                                     !.plan = backupRuns[a].plan \ {s}])
    BY <1>5 DEF Backups!RemoveManifest
  <2> DEFINE pair == [backupArchive[s] EXCEPT !.manifest = FALSE]
             plan == backupRuns[a].plan \ {s}
             r == [backupRuns[a] EXCEPT !.step = "remove", !.plan = plan]
  <2>2. backupArchive[s].database # "good" /\ backupRuns[a].step = "half"
    BY <1>1, <1>5, <2>1 DEF BackupRunInv, Backups!RemoveManifest, Backups!At
  <2>3. /\ pair \in Backups!Pair /\ pair.at = backupArchive[s].at
        /\ pair.database = backupArchive[s].database /\ ~pair.manifest
    BY <1>3, <2>1 DEF Backups!Pair
  <2>4. ~backupPast.tampered => pair.database = "none"
    BY <1>3, <2>1, <2>2, <2>3 DEF Backups!Pair
  <2>5. plan \subseteq backupRuns[a].plan /\ plan \subseteq Backups!Stems
    BY <1>1, BackupTypes
  <2>6. backupArchive' = [backupArchive EXCEPT ![s] = pair] /\ Backups!Become(a, r)
    BY <2>1
  <2>7. ~Backups!Whole(s)
    BY <2>2 DEF Backups!Whole
  <2> HIDE DEF pair, plan
  <2>8. r \in Backups!Run /\ r.step = "remove" /\ r.plan = plan /\ r.stem = backupRuns[a].stem
    BY <1>1, <2>5 DEF Backups!Run, Backups!Steps
  <2> HIDE DEF r
  <2>9. BackupChange(a, r, s, pair)
    BY <1>1, <1>2, <1>3, <2>1, <2>3, <2>6 DEF BackupChange
  <2>10. BackupOwns(a, r, s, pair)
    BY <1>1, <1>3, <2>1, <2>2, <2>3, <2>5, <2>8 DEF BackupOwns, Publishing
  <2>11. BackupKept(a, r, s, pair)
    BY <1>1, <2>3, <2>4, <2>7, <2>8 DEF BackupKept
  <2> QED BY <2>3, <2>8, <2>9, <2>10, <2>11, BackupChanges
<1> QED BY <1>4, <1>5

\* Somebody damages a file: nothing is promised from then on.
LEMMA BackupDamaged ==
  ASSUME BackupInv, NEW s \in Backups!Stems, Backups!Tamper(s) PROVE BackupInv'
<1>1. /\ Backups!TypeOK /\ BackupOrderInv /\ BackupRunInv /\ backupArchive[s] \in Backups!Pair
      /\ UNCHANGED <<backupDay, backupPolicy, backupRuns>> /\ Backups!Present(s)
      /\ backupFaults' \in 0..BackupFaults
      /\ backupPast' = [backupPast EXCEPT !.tampered = TRUE]
  BY BackupTypes, BackupFault DEF BackupInv, Backups!Tamper
<1> DEFINE Damaged(pair) ==
             /\ backupArchive' = [backupArchive EXCEPT ![s] = pair] /\ pair.at = backupArchive[s].at
             /\ pair.manifest => backupArchive[s].manifest
             /\ backupArchive[s].database # "good" => pair.database = backupArchive[s].database
             /\ pair.database = "good" => backupArchive[s].database = "good"
<1>2. \E pair \in Backups!Pair : Damaged(pair)
  <2>1. ASSUME NEW d \in {"none", "damaged"}, backupArchive[s].database = "good",
               backupArchive' = [backupArchive EXCEPT ![s].database = d]
        PROVE  \E pair \in Backups!Pair : Damaged(pair)
    <3> DEFINE pair == [backupArchive[s] EXCEPT !.database = d]
    <3>1. /\ pair \in Backups!Pair /\ pair.at = backupArchive[s].at
          /\ pair.manifest = backupArchive[s].manifest /\ pair.database = d
      BY <1>1 DEF Backups!Pair
    <3>2. backupArchive' = [backupArchive EXCEPT ![s] = pair]
      BY <2>1
    <3>3. Damaged(pair)
      BY <2>1, <3>1, <3>2
    <3> QED BY <3>1, <3>3
  <2>2. ASSUME backupArchive' = [backupArchive EXCEPT ![s].manifest = FALSE]
        PROVE  \E pair \in Backups!Pair : Damaged(pair)
    <3> DEFINE pair == [backupArchive[s] EXCEPT !.manifest = FALSE]
    <3>1. /\ pair \in Backups!Pair /\ pair.at = backupArchive[s].at
          /\ ~pair.manifest /\ pair.database = backupArchive[s].database
      BY <1>1 DEF Backups!Pair
    <3>2. backupArchive' = [backupArchive EXCEPT ![s] = pair]
      BY <2>2
    <3>3. Damaged(pair)
      BY <3>1, <3>2
    <3> QED BY <3>1, <3>3
  <2> QED BY <2>1, <2>2 DEF Backups!Tamper
<1> PICK pair \in Backups!Pair : Damaged(pair)
  BY <1>2
<1>3. /\ backupArchive' \in [Backups!Stems -> Backups!Pair] /\ backupArchive'[s] = pair
      /\ \A t \in Backups!Stems \ {s} : backupArchive'[t] = backupArchive[t]
  BY <1>1, BackupPair
<1>4. /\ backupPast' \in [last : 0..MaxBackups, complete : BOOLEAN, tampered : BOOLEAN, cut : BOOLEAN]
      /\ backupPast'.last = backupPast.last /\ backupPast'.tampered
  <2>1. backupPast \in [last : 0..MaxBackups, complete : BOOLEAN, tampered : BOOLEAN, cut : BOOLEAN]
    BY <1>1 DEF Backups!TypeOK
  <2> QED BY <1>1, <2>1
<1>5. Backups!TypeOK'
  BY <1>1, <1>3, <1>4 DEF Backups!TypeOK
<1>6. \A t \in Backups!Stems :
        /\ backupArchive'[t].at = backupArchive[t].at /\ Backups!Present(t)' => Backups!Present(t)
        /\ backupArchive'[t].manifest => backupArchive[t].manifest
        /\ backupArchive[t].database # "good" => backupArchive'[t].database = backupArchive[t].database
  BY <1>1, <1>3 DEF Backups!Present
<1>7. BackupOrderInv'
  BY <1>1, <1>4, <1>6 DEF BackupOrderInv
<1>8. BackupRunInv'
  <2>1. \A b \in Backups!Actors : backupRuns[b].step = "copied" => Publishing(b)
    BY DEF Publishing
  <2>2. \A b \in Backups!Actors : backupRuns[b].step = "copied" =>
          backupArchive'[backupRuns[b].stem].database = "none"
    BY <1>1, <1>6, <2>1 DEF BackupRunInv
  <2>3. \A b \in Backups!Actors : backupRuns[b].step = "half" =>
          \A t \in Backups!Stems :
            Backups!Newest(t, backupRuns[b].plan) => backupArchive'[t].database # "good"
    BY <1>1, <1>6 DEF BackupRunInv
  <2> QED BY <1>1, <1>4, <1>6, <2>2, <2>3 DEF BackupRunInv, Publishing, Retaining, Backups!Newest
<1> QED BY <1>4, <1>5, <1>7, <1>8 DEF BackupInv, BackupSoundInv, Backups!HalfOnlyByStop

LEMMA BackupInit == ASSUME Backups!Init PROVE BackupInv
<1>1. /\ backupDay = 0 /\ backupFaults = 0 /\ backupArchive = [s \in Backups!Stems |-> Backups!NoPair]
      /\ backupRuns = [a \in Backups!Actors |-> Backups!NoRun]
      /\ backupPolicy = [enabled |-> FALSE, keeps |-> Backups!AnyKeeps, version |-> 1,
                         success |-> 0, error |-> "none"]
      /\ backupPast = [last |-> 0, complete |-> FALSE, tampered |-> FALSE, cut |-> FALSE]
  BY DEF Backups!Init
<1>2. /\ Backups!NoPair \in Backups!Pair /\ Backups!NoPair.database = "none"
      /\ ~Backups!NoPair.manifest /\ Backups!NoPair.at = 0
  BY BackupAssumption DEF Backups!NoPair, Backups!Pair
<1>3. Backups!NoRun.step = "idle" /\ Backups!NoRun.plan = {}
  BY DEF Backups!NoRun
<1>4. Backups!TypeOK
  <2>1. backupDay \in 0..MaxDays /\ backupFaults \in 0..BackupFaults
    BY <1>1, BackupAssumption
  <2>2. 1 \in 1..(MaxPolicies + 1) /\ 0 \in 0..(MaxDays + 1) /\ 0 \in 0..MaxBackups
    BY BackupAssumption
  <2> QED BY <1>1, <1>2, <2>1, <2>2, BackupKeeps DEF Backups!TypeOK
<1>5. \A s \in Backups!Stems : /\ s \in Nat /\ backupArchive[s] = Backups!NoPair
                               /\ ~Backups!Present(s)
  BY <1>1, <1>2, <1>4, BackupTypes DEF Backups!Present
<1>6. \A a \in Backups!Actors : /\ ~Publishing(a) /\ ~Retaining(a) /\ backupRuns[a].plan = {}
                                /\ backupRuns[a].step = "idle"
  BY <1>1, <1>3 DEF Publishing, Retaining
<1>7. BackupOrderInv
  BY <1>1, <1>2, <1>5 DEF BackupOrderInv
<1>8. BackupRunInv
  BY <1>6 DEF BackupRunInv
<1>9. BackupSoundInv
  <2>1. ~(backupPolicy.success > 0) /\ ~backupPast.complete
    BY <1>1
  <2> QED BY <1>2, <1>5, <1>6, <2>1 DEF BackupSoundInv
<1>10. Backups!HalfOnlyByStop
  BY <1>5 DEF Backups!HalfOnlyByStop
<1> QED BY <1>4, <1>7, <1>8, <1>9, <1>10 DEF BackupInv

LEMMA BackupStep == BackupInv /\ [Backups!Next]_(Backups!vars) => BackupInv'
<1> SUFFICES ASSUME BackupInv, [Backups!Next]_(Backups!vars) PROVE BackupInv'
  OBVIOUS
<1>1. CASE UNCHANGED Backups!vars
  <2>1. UNCHANGED <<backupDay, backupPolicy, backupArchive, backupRuns, backupPast, backupFaults>>
    BY <1>1 DEF Backups!vars
  <2>2. Backups!TypeOK' /\ BackupOrderInv' /\ Backups!HalfOnlyByStop'
    BY <2>1 DEF BackupInv, Backups!TypeOK, BackupOrderInv, Backups!HalfOnlyByStop, Backups!Present,
       Backups!Whole, Backups!At, Backups!Newest
  <2>3. BackupRunInv'
    BY <2>1 DEF BackupInv, BackupRunInv, Publishing, Retaining, Backups!Newest
  <2>4. BackupSoundInv'
    <3>1. \A s : /\ Backups!Whole(s)' <=> Backups!Whole(s)
                 /\ NewerStands(s) => NewerStands(s)'
      BY <2>1 DEF Backups!Whole, NewerStands
    <3>2. StandsFrom(backupRuns["driver"].stem) => StandsFrom(backupRuns["driver"].stem)'
      BY <2>1, <3>1 DEF StandsFrom
    <3> QED BY <2>1, <3>1, <3>2 DEF BackupInv, BackupSoundInv, Retaining
  <2> QED BY <2>2, <2>3, <2>4 DEF BackupInv
<1>2. CASE Backups!Next
  BY <1>2, BackupQuiet, BackupRuns, BackupCopies, BackupPublishes, BackupPlans, BackupRemoves,
     BackupDamaged DEF Backups!Next
<1> QED BY <1>1, <1>2

\* What was committed, restored or backed up is found: a switch that was not killed
\* half-way leaves file and log together and loses no commit, the application runs on
\* the schema it expects, and retention leaves the newest of what is whole
\* (upgrades.py, backups.py, backup_schedule.py).
THEOREM DataStaysFound == Spec => []DataIsFound
<1> DEFINE Inv == /\ subject = "database" => DatabaseInv
                  /\ subject = "backup" => BackupInv
<1>1. Init => Inv
  BY DatabaseInit, BackupInit DEF Init
<1>2. Inv /\ [Next]_vars => Inv'
  <2> SUFFICES ASSUME Inv, [Next]_vars PROVE Inv'
    OBVIOUS
  <2>1. ASSUME subject' = "database" PROVE DatabaseInv'
    <3>1. subject = "database" /\ [Database!Next]_(Database!vars)
      BY <2>1 DEF Next, vars, Others, database, Database!vars
    <3> QED BY <3>1, DatabaseStep
  <2>2. ASSUME subject' = "backup" PROVE BackupInv'
    <3>1. subject = "backup" /\ [Backups!Next]_(Backups!vars)
      BY <2>2 DEF Next, vars, Others, backup, Backups!vars
    <3> QED BY <3>1, BackupStep
  <2> QED BY <2>1, <2>2
<1>3. Inv => DataIsFound
  <2>1. ASSUME DatabaseInv
        PROVE  /\ Database!TypeOK /\ Database!SwitchedWhole /\ Database!FoundAgain
               /\ Database!RunsItsSchema
    BY <2>1 DEF DatabaseInv, DatabaseAppInv, Database!SwitchedWhole, Database!RunsItsSchema
  <2>2. ASSUME BackupInv
        PROVE  /\ Backups!TypeOK /\ Backups!LastStands /\ Backups!SuccessIsBacked
               /\ Backups!HalfOnlyByStop
    <3>1. \A t \in Backups!Stems : Backups!Whole(t) => t \in Backups!WholeOnes
      BY DEF Backups!WholeOnes
    <3>2. Backups!LastStands
      BY <2>2, <3>1 DEF BackupInv, BackupSoundInv, Backups!LastStands
    <3>3. Backups!SuccessIsBacked
      BY <2>2, <3>1 DEF BackupInv, BackupSoundInv, Backups!SuccessIsBacked
    <3> QED BY <2>2, <3>2, <3>3 DEF BackupInv
  <2> QED BY <2>1, <2>2 DEF DataIsFound
<1> QED BY <1>1, <1>2, <1>3, PTL DEF Spec
-----------------------------------------------------------------------------
(* What the calls to one site spare it *)

\* The lock of the key: one search at a time is past it, and while one is the
\* search is not in the cache.
SiteKeyInv ==
  \A c \in Calls : Site!HasKey(c) => ~siteCached /\ \A o \in Calls : Site!HasKey(o) => o = c

SiteSearches(call) == call.kind = "search" /\ call.step \notin {"idle", "look", "key"}

\* A step of one call keeps it that takes the key only when it is free and fills the
\* cache only when it gives the key back.
LEMMA SiteKeyStep ==
  ASSUME SiteInv, SiteKeyInv, NEW c \in Calls, \A o \in Calls \ {c} : siteCall'[o] = siteCall[o],
         SiteSearches(siteCall'[c]) =>
           Site!HasKey(c) \/ (~siteCached' /\ \A o \in Calls : ~Site!HasKey(o)),
         siteCached' => siteCached \/ (Site!HasKey(c) /\ ~SiteSearches(siteCall'[c]))
  PROVE  SiteKeyInv'
<1>1. \A o \in Calls : Site!HasKey(o) <=> SiteSearches(siteCall[o])
  BY DEF Site!HasKey, SiteSearches
<1>2. \A o \in Calls : Site!HasKey(o)' <=> SiteSearches(siteCall'[o])
  BY DEF Site!HasKey, SiteSearches
<1>3. \A o \in Calls : o = c \/ (Site!HasKey(o)' <=> Site!HasKey(o))
  BY <1>1, <1>2
<1> SUFFICES ASSUME NEW d \in Calls, Site!HasKey(d)'
             PROVE  ~siteCached' /\ \A o \in Calls : Site!HasKey(o)' => o = d
  BY DEF SiteKeyInv
<1>4. CASE d = c
  BY <1>1, <1>2, <1>3, <1>4 DEF SiteKeyInv
<1>5. CASE d # c
  BY <1>1, <1>2, <1>3, <1>5 DEF SiteKeyInv
<1> QED BY <1>4, <1>5

LEMMA SiteKeyEnds ==
  ASSUME SiteInv, SiteKeyInv, NEW c \in Calls, Site!End(c), siteCached' => siteCached \/ Site!HasKey(c)
  PROVE  SiteKeyInv'
<1>1. ~SiteSearches(siteCall'[c]) /\ \A o \in Calls \ {c} : siteCall'[o] = siteCall[o]
  BY SiteEnds DEF SiteSearches
<1> QED BY <1>1, SiteKeyStep

LEMMA SiteKeyGoes ==
  ASSUME SiteInv, SiteKeyInv, NEW c \in Calls, siteCached' = siteCached,
         Site!HasKey(c) \/ siteCall[c].kind # "search",
         siteCall'[c].kind = siteCall[c].kind, \A o \in Calls \ {c} : siteCall'[o] = siteCall[o]
  PROVE  SiteKeyInv'
<1>1. SiteSearches(siteCall'[c]) => Site!HasKey(c)
  BY DEF SiteSearches
<1> QED BY <1>1, SiteKeyStep

\* What a step makes of the kind of its call.
LEMMA SiteKind ==
  ASSUME SiteInv, NEW c \in Calls, NEW s, siteCall' = [siteCall EXCEPT ![c].step = s]
  PROVE  /\ siteCall'[c].kind = siteCall[c].kind /\ siteCall'[c].step = s
         /\ \A o \in Calls \ {c} : siteCall'[o] = siteCall[o]
BY SiteTypes DEF SiteCall

LEMMA SiteKeySteps ==
  ASSUME SiteInv, SiteKeyInv, NEW c \in Calls,
         \/ \E kind \in Site!Kinds : Site!Start(c, kind)
         \/ Site!LookInCache(c) \/ Site!TakeKey(c) \/ Site!Check(c) \/ Site!TakeSlot(c)
         \/ Site!WaitForRate(c) \/ Site!WakeUp(c) \/ Site!Begin(c)
  PROVE  SiteKeyInv'
<1>1. ASSUME NEW kind \in Site!Kinds, Site!Start(c, kind) PROVE SiteKeyInv'
  <2> DEFINE step == IF kind = "search" THEN "look" ELSE "check"
             new == [Site!Idle EXCEPT !.step = step, !.kind = kind]
  <2>1. siteCall' = [siteCall EXCEPT ![c] = new] /\ siteCached' = siteCached
    BY <1>1 DEF Site!Start
  <2>2. ~SiteSearches(new)
    BY DEF SiteSearches, Site!Idle
  <2> HIDE DEF new
  <2>3. siteCall'[c] = new /\ \A o \in Calls \ {c} : siteCall'[o] = siteCall[o]
    BY <2>1, SiteTypes
  <2> QED BY <2>1, <2>2, <2>3, SiteKeyStep
<1>2. CASE Site!LookInCache(c)
  <2>1. siteCached' = siteCached /\ (Site!End(c) \/ Site!Goto(c, "key"))
    BY <1>2 DEF Site!LookInCache
  <2>2. CASE Site!Goto(c, "key")
    <3>1. siteCall'[c].step = "key" /\ \A o \in Calls \ {c} : siteCall'[o] = siteCall[o]
      BY <2>2, SiteKind DEF Site!Goto
    <3> QED BY <2>1, <3>1, SiteKeyStep DEF SiteSearches
  <2> QED BY <2>1, <2>2, SiteKeyEnds
<1>3. CASE Site!TakeKey(c)
  <2>1. siteCached' = siteCached /\ \A o \in Calls : ~Site!HasKey(o)
    BY <1>3 DEF Site!TakeKey
  <2>2. CASE ~siteCached /\ Site!Goto(c, "check")
    <3>1. \A o \in Calls \ {c} : siteCall'[o] = siteCall[o]
      BY <2>2, SiteKind DEF Site!Goto
    <3> QED BY <2>1, <2>2, <3>1, SiteKeyStep
  <2> QED BY <1>3, <2>1, <2>2, SiteKeyEnds DEF Site!TakeKey
<1>4. CASE Site!Check(c) \/ Site!TakeSlot(c) \/ Site!WaitForRate(c)
  <2>1. /\ siteCached' = siteCached /\ (Site!HasKey(c) \/ siteCall[c].kind # "search")
        /\ Site!End(c) \/ \E s \in {"slot", "rate", "begin"} : Site!Goto(c, s)
    BY <1>4 DEF Site!Check, Site!TakeSlot, Site!WaitForRate, Site!HasKey, Site!At
  <2>2. ASSUME NEW s, Site!Goto(c, s) PROVE SiteKeyInv'
    <3>1. siteCall'[c].kind = siteCall[c].kind /\ \A o \in Calls \ {c} : siteCall'[o] = siteCall[o]
      BY <2>2, SiteKind DEF Site!Goto
    <3> QED BY <2>1, <3>1, SiteKeyGoes
  <2> QED BY <2>1, <2>2, SiteKeyEnds
<1>5. CASE Site!WakeUp(c)
  <2>1. siteCall' = [siteCall EXCEPT ![c] =
                       [siteCall[c] EXCEPT !.step = "check", !.attempt = siteCall[c].attempt + 1]]
    BY <1>5, SiteTypes DEF Site!WakeUp
  <2>2. siteCall'[c].kind = siteCall[c].kind /\ \A o \in Calls \ {c} : siteCall'[o] = siteCall[o]
    BY <2>1, SiteTypes DEF SiteCall
  <2>3. siteCached' = siteCached /\ (Site!HasKey(c) \/ siteCall[c].kind # "search")
    BY <1>5 DEF Site!WakeUp, Site!HasKey, Site!At
  <2> QED BY <2>2, <2>3, SiteKeyGoes
<1>6. CASE Site!Begin(c)
  <2>1. siteCached' = siteCached /\ (Site!HasKey(c) \/ siteCall[c].kind # "search")
    BY <1>6 DEF Site!Begin, Site!HasKey, Site!At
  <2>2. CASE ~Site!End(c)
    <3> DEFINE probe == siteUntil # "none"
    <3>1. siteCall' = [siteCall EXCEPT ![c] = [siteCall[c] EXCEPT !.step = "request", !.probe = probe]]
      BY <1>6, <2>2, SiteTypes DEF Site!Begin
    <3> HIDE DEF probe
    <3>2. siteCall'[c].kind = siteCall[c].kind /\ \A o \in Calls \ {c} : siteCall'[o] = siteCall[o]
      BY <3>1, SiteTypes DEF SiteCall
    <3> QED BY <2>1, <3>2, SiteKeyGoes
  <2> QED BY <2>1, <2>2, SiteKeyEnds
<1> QED BY <1>1, <1>2, <1>3, <1>4, <1>5, <1>6

LEMMA SiteKeyAnswers ==
  ASSUME SiteInv, SiteKeyInv, NEW c \in Calls,
         \/ Site!Succeed(c) \/ Site!Refused(c) \/ Site!AuthFailed(c) \/ Site!InvalidResponse(c)
         \/ Site!Unavailable(c) \/ Site!RateLimited(c) \/ Site!Cancel(c) \/ Site!Escape(c)
  PROVE  SiteKeyInv'
<1>1. CASE Site!Succeed(c)
  BY <1>1, SiteKeyEnds DEF Site!Succeed, Site!HasKey, Site!At
<1>2. CASE Site!Refused(c) \/ Site!AuthFailed(c) \/ Site!InvalidResponse(c) \/ Site!Cancel(c) \/ Site!Escape(c)
  BY <1>2, SiteKeyEnds DEF Site!Refused, Site!AuthFailed, Site!InvalidResponse, Site!Cancel, Site!Escape
<1>3. CASE Site!Unavailable(c) \/ Site!RateLimited(c)
  <2>1. /\ siteCached' = siteCached /\ (Site!HasKey(c) \/ siteCall[c].kind # "search")
        /\ Site!RetryOrEnd(c)
    BY <1>3 DEF Site!Unavailable, Site!RateLimited, Site!HasKey, Site!At
  <2>2. CASE siteCall' = [siteCall EXCEPT ![c].step = "sleep", ![c].probe = FALSE]
    <3>1. siteCall' = [siteCall EXCEPT ![c] = [siteCall[c] EXCEPT !.step = "sleep", !.probe = FALSE]]
      BY <2>2, SiteTypes
    <3>2. siteCall'[c].kind = siteCall[c].kind /\ \A o \in Calls \ {c} : siteCall'[o] = siteCall[o]
      BY <3>1, SiteTypes DEF SiteCall
    <3> QED BY <2>1, <3>2, SiteKeyGoes
  <2> QED BY <2>1, <2>2, SiteKeyEnds DEF Site!RetryOrEnd
<1> QED BY <1>1, <1>2, <1>3

LEMMA SiteKeyNext ==
  SiteInv /\ SiteKeyInv /\ [Site!Next]_(Site!vars) => SiteKeyInv'
<1> SUFFICES ASSUME SiteInv, SiteKeyInv, [Site!Next]_(Site!vars) PROVE SiteKeyInv'
  OBVIOUS
<1>1. CASE Site!Reset \/ Site!OpenTimePasses \/ Site!CacheExpires \/ UNCHANGED Site!vars
  <2>1. siteCall' = siteCall /\ (siteCached' => siteCached)
    BY <1>1 DEF Site!Reset, Site!OpenTimePasses, Site!CacheExpires, Site!vars
  <2> QED BY <2>1 DEF SiteKeyInv, Site!HasKey
<1> QED BY <1>1, SiteKeySteps, SiteKeyAnswers DEF Site!Next, Site!Step

\* A request begins at a site that is not shut, and no search that is in the cache.
SiteSends(c) == siteCall[c].step = "begin" /\ siteCall'[c].step = "request"

LEMMA SiteSpares ==
  ASSUME SiteInv, SiteKeyInv, [Site!Next]_(Site!vars), NEW c \in Calls, SiteSends(c)
  PROVE  ~Site!Shut /\ (siteCall[c].kind = "search" => ~siteCached)
<1>1. siteCall[c].kind = "search" => ~siteCached
  BY DEF SiteKeyInv, Site!HasKey, SiteSends
<1>2. siteCall'[c] # siteCall[c]
  BY DEF SiteSends
<1>3. ASSUME NEW d \in Calls, Site!Step(d) PROVE Site!Begin(c)
  <2>1. d = c
    <3>1. siteCall' = siteCall \/ \E new : siteCall' = [siteCall EXCEPT ![d] = new]
      BY <1>3, SiteTypes DEF Site!Step, Site!Start, Site!LookInCache, Site!TakeKey, Site!Check,
         Site!TakeSlot, Site!WaitForRate, Site!Begin, Site!WakeUp, Site!Succeed, Site!Refused,
         Site!AuthFailed, Site!InvalidResponse, Site!Unavailable, Site!RateLimited, Site!RetryOrEnd,
         Site!Cancel, Site!Escape, Site!End, Site!Goto
    <3> QED BY <1>2, <3>1, SiteTypes
  <2>2. CASE Site!Cancel(c)
    BY <2>2, SiteEnds DEF Site!Cancel, SiteSends
  <2> QED BY <1>3, <2>1, <2>2 DEF SiteSends, Site!Step, Site!Start, Site!LookInCache, Site!TakeKey, Site!Check,
         Site!TakeSlot, Site!WaitForRate, Site!WakeUp, Site!Succeed, Site!Refused,
         Site!AuthFailed, Site!InvalidResponse, Site!Unavailable, Site!RateLimited,
         Site!Escape, Site!At
<1>4. Site!Begin(c)
  BY <1>2, <1>3 DEF Site!Next, Site!Reset, Site!OpenTimePasses, Site!CacheExpires, Site!vars
<1>5. ~Site!Shut
  BY <1>4, SiteEnds DEF Site!Begin, SiteSends
<1> QED BY <1>1, <1>5

-----------------------------------------------------------------------------
(* The search of an item *)

SearchItem ==
  [status : {"MATCH_PENDING", "MATCHING", "NO_MATCH", "MATCH_TIMEOUT", "MATCH_ERROR"} \cup Search!Matched,
   retries : Nat, notBefore : Nat]

\* How long a site that failed may ask to be left alone.
SearchPauses == {0, RiskPause, RiskPause + 1, Search!Never}

SearchFields == {"pc", "query", "page", "again", "had", "empties", "found", "failures", "last", "refused"}

\* A result as far as it matters here: its failures, and that it is over once it
\* was refused or has found enough.
SearchResult(r) ==
  /\ r = [f \in SearchFields |-> r[f]]
  /\ \A f \in r.failures : f.after \in SearchPauses
  /\ r.refused \/ "exact" \in r.found => r.pc = "done"

\* The failure of a site that was counted in this search says how long it wants to
\* be left alone; one of more than a day counts as the cooldown.
SearchRefused(s) ==
  \E f \in searchSearch[s].failures :
    /\ f.counted /\ f.retryable
    /\ searchHush[s] <= searchClock + (IF f.after = Search!Never THEN RiskPause ELSE f.after)

SearchTypeInv ==
  /\ searchItem \in [SearchItems -> SearchItem]
  /\ searchSearch = [s \in SearchSites |-> searchSearch[s]]
  /\ searchHush \in [SearchSites -> Nat] /\ searchAsked \in [SearchSites -> Nat]
  /\ searchClock \in 0..SearchClock /\ searchWanted \subseteq SearchItems
  /\ searchActive \in SearchItems \cup {0}
  /\ searchMemory = [s \in SearchSites |-> searchMemory[s]]
  /\ \A s \in SearchSites : SearchResult(searchSearch[s])

\* What is remembered is an answer; the item that is searched is claimed; outside a
\* search the sites are done.
SearchStateInv ==
  /\ \A s \in SearchSites : \A m \in searchMemory[s] : m.answer.error \in {"none", "foreign"}
  /\ searchActive # 0 => searchItem[searchActive].status = "MATCHING"
  /\ searchActive = 0 => \A s \in SearchSites : searchSearch[s].pc = "done"

\* A pending item nobody has asked for waits until the site may be asked again, or
\* the running search has yet to tell it; the one searched waits no more.
SearchHushInv ==
  \A s \in SearchSites :
    /\ \A i \in SearchItems \ searchWanted :
         searchItem[i].status = "MATCH_PENDING" =>
           searchHush[s] <= searchItem[i].notBefore
             \/ (searchActive # 0 /\ searchSearch[s].pc = "done" /\ SearchRefused(s))
    /\ searchActive \in SearchItems \ searchWanted =>
         searchHush[s] <= searchClock \/ (searchSearch[s].pc = "done" /\ SearchRefused(s))

SearchInv == SearchTypeInv /\ SearchStateInv /\ SearchHushInv

-----------------------------------------------------------------------------

LEMMA SearchNumbers ==
  /\ RiskPause \in Nat /\ SearchClock \in Nat /\ Search!Never \in Nat /\ RiskPause + 1 < Search!Never
  /\ SearchPauses \subseteq 0..Search!Never /\ SearchPauses \subseteq Nat /\ SearchItems \subseteq Nat
     /\ 0 \notin SearchItems
BY SearchAssumption DEF Search!Never, SearchPauses

LEMMA SearchTypes ==
  ASSUME SearchInv
  PROVE  /\ searchItem \in [SearchItems -> SearchItem] /\ \A i \in SearchItems : searchItem[i] \in SearchItem
         /\ \A s \in SearchSites : SearchResult(searchSearch[s])
         /\ searchHush \in [SearchSites -> Nat] /\ searchAsked \in [SearchSites -> Nat]
         /\ searchClock \in 0..SearchClock /\ searchWanted \subseteq SearchItems
         /\ searchActive \in SearchItems \cup {0}
BY DEF SearchInv, SearchTypeInv

\* A set of natural numbers has a least element, a bounded one a greatest.
LEMMA SearchFirst ==
  ASSUME NEW S, S \subseteq Nat, S # {}
  PROVE  \E m \in S : \A n \in S : m <= n
<1> DEFINE Less == OpToRel(<, Nat)
<1>1. IsWellFoundedOn(Less, Nat)
  BY NatLessThanWellFounded
<1> HIDE DEF Less
<1>2. PICK m \in S : \A n \in S : ~(<<n, m>> \in Less)
  BY <1>1, WFMin
<1>3. \A n \in S : ~(n < m)
  BY <1>2 DEF Less, OpToRel
<1> QED BY <1>2, <1>3

LEMMA SearchLongest ==
  ASSUME NEW S, NEW b \in Nat, S \subseteq 0..b, S # {}
  PROVE  /\ Search!Longest(S) \in S /\ Search!Longest(S) \in Nat
         /\ \A n \in S : n <= Search!Longest(S)
<1> DEFINE Gaps == {b - n : n \in S}
<1>1. Gaps \subseteq Nat /\ Gaps # {}
  <2>1. \A n \in S : b - n \in Nat
    OBVIOUS
  <2>2. PICK n \in S : TRUE
    OBVIOUS
  <2>3. b - n \in Gaps
    BY <2>2
  <2> QED BY <2>1, <2>3
<1> HIDE DEF Gaps
<1>2. PICK g \in Gaps : \A h \in Gaps : g <= h
  BY <1>1, SearchFirst
<1>3. PICK m \in S : g = b - m
  BY <1>2 DEF Gaps
<1>4. ASSUME NEW n \in S PROVE n <= m
  <2>1. b - m <= b - n
    BY <1>2, <1>3, <1>4 DEF Gaps
  <2> QED BY <1>3, <1>4, <2>1
<1>5. PICK l : l = Search!Longest(S)
  OBVIOUS
<1>6. l \in S /\ \A n \in S : n <= l
  BY <1>3, <1>4, <1>5 DEF Search!Longest
<1>7. l \in Nat
  <2>1. l \in 0..b
    BY <1>6
  <2> QED BY <2>1
<1> QED BY <1>5, <1>6, <1>7

-----------------------------------------------------------------------------
(* Results *)

\* A result that is not refused yet, whatever it has found.
SearchOpen(r) ==
  /\ r = [f \in SearchFields |-> r[f]]
  /\ \A f \in r.failures : f.after \in SearchPauses
  /\ ~r.refused

LEMMA SearchStays ==
  ASSUME NEW r, SearchResult(r), r.pc # "done"
  PROVE  SearchOpen(r) /\ "exact" \notin r.found
BY DEF SearchResult, SearchOpen

LEMMA SearchClose ==
  ASSUME NEW r, SearchOpen(r), NEW foreign \in BOOLEAN
  PROVE  SearchResult(Search!Close(r, foreign))
<1>1. Search!Close(r, foreign) = [r EXCEPT !.pc = "done"]
      \/ (Search!Close(r, foreign) = [r EXCEPT !.pc = "retry"] /\ "exact" \notin r.found)
  BY DEF Search!Close, Search!Usable
<1> QED BY <1>1 DEF SearchOpen, SearchResult, SearchFields

LEMMA SearchEndQuery ==
  ASSUME NEW r, SearchOpen(r), NEW foreign \in BOOLEAN
  PROVE  SearchResult(Search!EndQuery(r, foreign))
<1> DEFINE e == IF r.had \/ foreign THEN r ELSE [r EXCEPT !.empties = r.empties \cup {r.query}]
           n == [e EXCEPT !.pc = "ask", !.query = e.query + 1, !.page = 1, !.had = FALSE]
<1>1. SearchOpen(e)
  BY DEF SearchOpen, SearchFields
<1>2. Search!EndQuery(r, foreign) = IF Search!NoMoreQueries(e) THEN Search!Close(e, foreign) ELSE n
  BY DEF Search!EndQuery
<1> HIDE DEF e
<1>3. CASE Search!NoMoreQueries(e)
  BY <1>1, <1>2, <1>3, SearchClose
<1>4. CASE ~Search!NoMoreQueries(e)
  <2>1. "exact" \notin e.found
    BY <1>4 DEF Search!NoMoreQueries
  <2>2. SearchResult(n)
    BY <1>1, <2>1 DEF SearchOpen, SearchResult, SearchFields
  <2> QED BY <1>2, <1>4, <2>2
<1> QED BY <1>3, <1>4

LEMMA SearchPlain == \A error : Search!Plain(error).after \in SearchPauses
BY DEF Search!Plain, Search!Failure, SearchPauses

LEMMA SearchTake ==
  ASSUME NEW r, SearchResult(r), r.pc # "done", NEW a
  PROVE  SearchResult(Search!Take(r, a))
<1> DEFINE ignored == r.page = 1 /\ a.items = {"unrelated"} /\ r.last = a.items
           fs == r.failures \cup (IF ignored THEN {Search!Plain("ignored")} ELSE {})
           found == r.found \cup (a.items \ {"unrelated"})
           last == IF r.page = 1 THEN a.items ELSE r.last
           had == r.had \/ a.items # {}
           taken == [r EXCEPT !.had = had, !.found = found, !.last = last, !.failures = fs]
<1>1. Search!Take(r, a) =
        IF a.more /\ r.page < SearchPages /\ ~ignored /\ "exact" \notin taken.found
        THEN [taken EXCEPT !.pc = "ask", !.page = taken.page + 1]
        ELSE Search!EndQuery(taken, FALSE)
  BY DEF Search!Take
<1>2. SearchOpen(r) /\ \A f \in fs : f.after \in SearchPauses
  BY SearchStays, SearchPlain DEF SearchOpen, SearchFields
<1> HIDE DEF fs, found, last, had, ignored
<1>3. SearchOpen(taken)
  BY <1>2 DEF SearchOpen, SearchFields
<1> HIDE DEF taken
<1>4. "exact" \notin taken.found => SearchResult([taken EXCEPT !.pc = "ask", !.page = taken.page + 1])
  BY <1>3 DEF SearchOpen, SearchResult, SearchFields
<1>5. SearchResult(Search!EndQuery(taken, FALSE))
  BY <1>3, SearchEndQuery
<1> QED BY <1>1, <1>4, <1>5

\* An answer that ends the search of a site, and the failure it leaves.
SearchFails(a) == a \in {Search!Unavailable, Search!Broken} \cup Search!Refusals

LEMMA SearchFail ==
  ASSUME NEW r, SearchOpen(r), NEW a, SearchFails(a), NEW limit
  PROVE  /\ SearchResult(Search!Fail(r, a, limit)) /\ Search!Fail(r, a, limit).pc = "done"
         /\ \E f \in Search!Fail(r, a, limit).failures :
              /\ a.error = "risk" => f.counted
              /\ a.retryable => f.retryable
              /\ f.after = (IF a.after = 0 /\ a.error = "risk" THEN RiskPause ELSE a.after)
<1> DEFINE after == IF a.after = 0 /\ a.error = "risk" THEN RiskPause ELSE a.after
           f == [error |-> a.error, retryable |-> a.retryable, after |-> after,
                 counted |-> (a.error = "risk"), limit |-> limit]
<1>1. /\ a = [error |-> a.error, retryable |-> a.retryable, after |-> a.after]
      /\ a.after \in SearchPauses /\ after \in SearchPauses
  BY DEF SearchFails, Search!Unavailable, Search!Broken, Search!Refusals, Search!Refusal, SearchPauses
<1>2. Search!Failure([a EXCEPT !.after = after], a.error = "risk", limit) = f
  BY <1>1 DEF Search!Failure
<1>3. Search!Fail(r, a, limit) = [r EXCEPT !.pc = "done", !.refused = TRUE, !.failures = r.failures \cup {f}]
  BY <1>1, <1>2 DEF Search!Fail
<1>4. f.after = after /\ (a.error = "risk" => f.counted) /\ (a.retryable => f.retryable)
  OBVIOUS
<1> HIDE DEF f, after
<1>5. SearchResult([r EXCEPT !.pc = "done", !.refused = TRUE, !.failures = r.failures \cup {f}])
  BY <1>1, <1>4 DEF SearchOpen, SearchResult, SearchFields
<1>6. f \in [r EXCEPT !.pc = "done", !.refused = TRUE, !.failures = r.failures \cup {f}].failures
      /\ [r EXCEPT !.pc = "done", !.refused = TRUE, !.failures = r.failures \cup {f}].pc = "done"
  BY DEF SearchOpen, SearchFields
<1> QED BY <1>3, <1>4, <1>5, <1>6 DEF after

LEMMA SearchTimedOut ==
  /\ SearchResult(Search!TimedOut) /\ Search!TimedOut.pc = "done"
  /\ SearchResult(Search!Finished) /\ Search!Finished.pc = "done"
  /\ SearchResult(Search!Fresh)
  /\ SearchResult([Search!Finished EXCEPT !.failures = {Search!Plain("missing")}])
<1>1. /\ SearchResult(Search!Finished) /\ Search!Finished.pc = "done" /\ SearchResult(Search!Fresh)
      /\ ~Search!Finished.refused
  BY DEF Search!Finished, Search!Fresh, SearchResult, SearchFields
<1>2. Search!Failure(Search!Timeout, FALSE, FALSE).after \in SearchPauses
  BY DEF Search!Failure, Search!Timeout, SearchPauses
<1>3. SearchResult(Search!TimedOut) /\ Search!TimedOut.pc = "done"
  BY <1>1, <1>2 DEF Search!TimedOut, SearchResult, SearchFields
<1>4. SearchResult([Search!Finished EXCEPT !.failures = {Search!Plain("missing")}])
  BY <1>1, SearchPlain DEF SearchResult, SearchFields
<1> QED BY <1>1, <1>3, <1>4

-----------------------------------------------------------------------------
(* The steps of one site *)

\* An answer, and what the adapter makes of it: only an answer is remembered, so a
\* refusal was never remembered; the counts of the other sites stay.
LEMMA SearchContent == \A t, page : Search!Content(t, page).error = "none"
BY DEF Search!Content, Search!Page, Search!Empty

LEMMA SearchAnswer ==
  ASSUME SearchInv, NEW s \in SearchSites, NEW q, NEW page,
         NEW m \in Search!Recalled(s, q, page), NEW a \in Search!Answers(s, q, page, m),
         Search!Answer(s, q, page, m, a)
  PROVE  /\ a.error \in {"none", "foreign", "timeout"} \/ SearchFails(a)
         /\ searchMemory' = [o \in SearchSites |-> searchMemory'[o]]
         /\ \A o \in SearchSites : \A n \in searchMemory'[o] : n.answer.error \in {"none", "foreign"}
         /\ searchAsked' \in [SearchSites -> Nat]
         /\ \A o \in SearchSites : o # s => searchAsked'[o] = searchAsked[o]
<1>1. /\ \A o \in SearchSites : \A n \in searchMemory[o] : n.answer.error \in {"none", "foreign"}
      /\ searchMemory = [o \in SearchSites |-> searchMemory[o]] /\ searchAsked \in [SearchSites -> Nat]
  BY DEF SearchInv, SearchTypeInv, SearchStateInv
<1>2. a.error \in {"none", "foreign", "timeout"} \/ SearchFails(a)
  <2>1. CASE m # Search!Nothing
    <3>1. \E n \in searchMemory[s] : m = n.answer
      BY <2>1 DEF Search!Recalled
    <3>2. a = m
      BY <2>1 DEF Search!Answers
    <3> QED BY <1>1, <3>1, <3>2
  <2>2. CASE m = Search!Nothing
    <3>1. a = Search!Content(searchTruth[s][q], page) \/ a \in Search!Mishaps
      BY <2>2 DEF Search!Answers
    <3>2. a \in Search!Mishaps => a.error \in {"none", "foreign", "timeout"} \/ SearchFails(a)
      BY DEF Search!Mishaps, Search!Empty, Search!Page, Search!Foreign, Search!Timeout, SearchFails
    <3> QED BY <3>1, <3>2, SearchContent
  <2> QED BY <2>1, <2>2
<1>3. PICK others : /\ \A n \in others : n \in searchMemory[s]
                    /\ searchMemory' = [searchMemory EXCEPT ![s] =
                         IF a.error \in {"none", "foreign"}
                         THEN others \cup {[of |-> searchActive, query |-> q, page |-> page, answer |-> a]}
                         ELSE others]
  <2> DEFINE others == {n \in searchMemory[s] : <<n.of, n.query, n.page>> # <<searchActive, q, page>>}
  <2>1. searchMemory' = [searchMemory EXCEPT ![s] =
                         IF a.error \in {"none", "foreign"}
                         THEN others \cup {[of |-> searchActive, query |-> q, page |-> page, answer |-> a]}
                         ELSE others]
    BY DEF Search!Answer
  <2>2. \A n \in others : n \in searchMemory[s]
    OBVIOUS
  <2> QED BY <2>1, <2>2
<1>4. /\ searchMemory' = [o \in SearchSites |-> searchMemory'[o]]
      /\ \A o \in SearchSites : \A n \in searchMemory'[o] : n.answer.error \in {"none", "foreign"}
  <2> DEFINE new == [of |-> searchActive, query |-> q, page |-> page, answer |-> a]
             all == IF a.error \in {"none", "foreign"} THEN others \cup {new} ELSE others
  <2>1. new.answer = a
    OBVIOUS
  <2>2. searchMemory' = [searchMemory EXCEPT ![s] = all]
    BY <1>3
  <2> HIDE DEF new
  <2>3. \A n \in all : n.answer.error \in {"none", "foreign"}
    BY <1>1, <1>3, <2>1
  <2> HIDE DEF all
  <2>4. /\ searchMemory' = [o \in SearchSites |-> searchMemory'[o]] /\ searchMemory'[s] = all
        /\ \A o \in SearchSites : o # s => searchMemory'[o] = searchMemory[o]
    BY <1>1, <2>2
  <2> QED BY <1>1, <2>3, <2>4
<1>5. /\ searchAsked' \in [SearchSites -> Nat]
      /\ \A o \in SearchSites : o # s => searchAsked'[o] = searchAsked[o]
  <2>1. searchAsked' = [searchAsked EXCEPT ![s] =
                          IF m = Search!Nothing THEN searchAsked[s] + 1 ELSE searchAsked[s]]
    BY DEF Search!Answer
  <2>2. (IF m = Search!Nothing THEN searchAsked[s] + 1 ELSE searchAsked[s]) \in Nat
    BY <1>1
  <2> QED BY <1>1, <2>1, <2>2
<1> QED BY <1>2, <1>4, <1>5

\* A step of a site that is not done: it goes on, or it is done, and when it leaves
\* a later time to be left alone, it has the failure that says so.
LEMMA SearchSiteStep ==
  ASSUME SearchInv, NEW s \in SearchSites, NEW r, SearchResult(r), searchSearch[s].pc # "done",
         searchSearch' = [searchSearch EXCEPT ![s] = r],
         UNCHANGED <<searchItem, searchActive, searchClock, searchWanted>>,
         searchMemory' = [o \in SearchSites |-> searchMemory'[o]],
         \A o \in SearchSites : \A n \in searchMemory'[o] : n.answer.error \in {"none", "foreign"},
         searchAsked' \in [SearchSites -> Nat],
         searchHush' \in [SearchSites -> Nat], \A o \in SearchSites : o # s => searchHush'[o] = searchHush[o],
         \/ searchHush'[s] = searchHush[s]
         \/ /\ r.pc = "done"
            /\ \E f \in r.failures :
                 /\ f.counted /\ f.retryable
                 /\ searchHush'[s] <= searchClock + (IF f.after = Search!Never THEN RiskPause ELSE f.after)
  PROVE  SearchInv'
<1>1. /\ searchSearch = [o \in SearchSites |-> searchSearch[o]] /\ searchActive # 0
      /\ \A o \in SearchSites : SearchResult(searchSearch[o])
  BY DEF SearchInv, SearchTypeInv, SearchStateInv
<1>2. /\ searchSearch'[s] = r /\ \A o \in SearchSites : o # s => searchSearch'[o] = searchSearch[o]
      /\ searchSearch' = [o \in SearchSites |-> searchSearch'[o]]
  BY <1>1
<1>3. SearchTypeInv'
  <2>1. \A o \in SearchSites : SearchResult(searchSearch'[o])
    BY <1>1, <1>2
  <2> QED BY <1>2, <2>1 DEF SearchInv, SearchTypeInv
<1>4. SearchStateInv'
  BY <1>1 DEF SearchInv, SearchStateInv
<1>5. SearchHushInv'
  <2>1. \A o \in SearchSites : o # s => SearchRefused(o)' = SearchRefused(o)
    BY <1>2 DEF SearchRefused
  <2>2. searchHush'[s] = searchHush[s] \/ (searchSearch'[s].pc = "done" /\ SearchRefused(s)')
    BY <1>2 DEF SearchRefused
  <2> SUFFICES ASSUME NEW o \in SearchSites
               PROVE  /\ \A i \in SearchItems \ searchWanted :
                           searchItem[i].status = "MATCH_PENDING" =>
                             searchHush'[o] <= searchItem[i].notBefore
                               \/ (searchSearch'[o].pc = "done" /\ SearchRefused(o)')
                      /\ searchActive \in SearchItems \ searchWanted =>
                           searchHush'[o] <= searchClock \/ (searchSearch'[o].pc = "done" /\ SearchRefused(o)')
    BY <1>1 DEF SearchHushInv
  <2>3. /\ \A i \in SearchItems \ searchWanted :
             searchItem[i].status = "MATCH_PENDING" =>
               searchHush[o] <= searchItem[i].notBefore \/ (searchSearch[o].pc = "done" /\ SearchRefused(o))
        /\ searchActive \in SearchItems \ searchWanted =>
             searchHush[o] <= searchClock \/ (searchSearch[o].pc = "done" /\ SearchRefused(o))
    BY DEF SearchInv, SearchHushInv
  <2>4. CASE o = s
    BY <2>2, <2>3, <2>4
  <2>5. CASE o # s
    BY <1>2, <2>1, <2>3, <2>5
  <2> QED BY <2>4, <2>5
<1> QED BY <1>3, <1>4, <1>5 DEF SearchInv

\* A quiet step of a site.
LEMMA SearchQuiet ==
  ASSUME SearchInv, NEW s \in SearchSites, NEW r, SearchResult(r), searchSearch[s].pc # "done",
         Search!Set(s, r), Search!InSearch, Search!Uncounted,
         searchMemory' = [o \in SearchSites |-> searchMemory'[o]],
         \A o \in SearchSites : \A n \in searchMemory'[o] : n.answer.error \in {"none", "foreign"},
         searchAsked' \in [SearchSites -> Nat]
  PROVE  SearchInv'
BY SearchSiteStep, SearchTypes DEF Search!Set, Search!InSearch, Search!Uncounted

\* What an answer comes to.
LEMMA SearchOutcome ==
  ASSUME SearchInv, NEW s \in SearchSites, NEW a, searchSearch[s].pc # "done",
         a.error \in {"none", "foreign", "timeout"} \/ SearchFails(a),
         Search!Outcome(s, a, Search!Take(searchSearch[s], a)), Search!InSearch,
         searchMemory' = [o \in SearchSites |-> searchMemory'[o]],
         \A o \in SearchSites : \A n \in searchMemory'[o] : n.answer.error \in {"none", "foreign"},
         searchAsked' \in [SearchSites -> Nat]
  PROVE  SearchInv'
<1>1. SearchResult(searchSearch[s]) /\ SearchOpen(searchSearch[s])
  BY SearchTypes, SearchStays
<1>2. CASE a.error = "none" /\ Search!Set(s, Search!Take(searchSearch[s], a)) /\ Search!Uncounted
  BY <1>1, <1>2, SearchTake, SearchQuiet
<1>3. CASE a.error = "foreign" /\ Search!Uncounted
           /\ Search!Set(s, Search!EndQuery([searchSearch[s]
                                              EXCEPT !.failures = @ \cup {Search!Plain("foreign")}], TRUE))
  <2> DEFINE r == [searchSearch[s] EXCEPT !.failures = searchSearch[s].failures \cup {Search!Plain("foreign")}]
  <2>1. SearchOpen(r)
    BY <1>1, SearchPlain DEF SearchOpen, SearchFields
  <2>2. Search!Set(s, Search!EndQuery(r, TRUE))
    BY <1>3
  <2> HIDE DEF r
  <2>3. SearchResult(Search!EndQuery(r, TRUE))
    BY <2>1, SearchEndQuery
  <2> QED BY <1>3, <2>2, <2>3, SearchQuiet
<1>4. CASE a.error = "timeout" /\ Search!Set(s, Search!TimedOut) /\ Search!Uncounted
  BY <1>4, SearchTimedOut, SearchQuiet
<1>5. CASE a.error \in {"unavailable", "broken"} /\ Search!Set(s, Search!Fail(searchSearch[s], a, FALSE))
           /\ Search!Uncounted
  <2>1. SearchResult(Search!Fail(searchSearch[s], a, FALSE))
    BY <1>1, <1>5, SearchFail
  <2> QED BY <1>5, <2>1, SearchQuiet
<1>6. CASE a.error = "risk" /\ Search!Set(s, Search!Fail(searchSearch[s], a, Search!Reached(s)))
           /\ Search!CountRisk(s, a)
  <2> DEFINE r == Search!Fail(searchSearch[s], a, Search!Reached(s))
             h == searchClock + (IF a.after \in (RiskPause + 1)..(Search!Never - 1) THEN a.after ELSE RiskPause)
  <2>1. a.retryable /\ a.after \in {0, RiskPause + 1, Search!Never} /\ SearchFails(a)
    BY <1>6 DEF SearchFails, Search!Refusals, Search!Refusal, Search!Unavailable, Search!Broken
  <2>2. /\ SearchResult(r) /\ r.pc = "done"
        /\ \E f \in r.failures : /\ f.counted /\ f.retryable
                                 /\ f.after = (IF a.after = 0 THEN RiskPause ELSE a.after)
    BY <1>1, <1>6, <2>1, SearchFail
  <2>3. searchSearch' = [searchSearch EXCEPT ![s] = r] /\ searchHush' = [searchHush EXCEPT ![s] = h]
    BY <1>6 DEF Search!Set, Search!CountRisk
  <2> HIDE DEF r
  <2>4. h \in Nat /\ \A after : after = (IF a.after = 0 THEN RiskPause ELSE a.after)
                        => h <= searchClock + (IF after = Search!Never THEN RiskPause ELSE after)
    BY <2>1, SearchNumbers, SearchTypes
  <2> HIDE DEF h
  <2>5. /\ searchHush' \in [SearchSites -> Nat] /\ searchHush'[s] = h
        /\ \A o \in SearchSites : o # s => searchHush'[o] = searchHush[o]
    BY <2>3, <2>4, SearchTypes
  <2>6. \E f \in r.failures : /\ f.counted /\ f.retryable
          /\ searchHush'[s] <= searchClock + (IF f.after = Search!Never THEN RiskPause ELSE f.after)
    BY <2>2, <2>4, <2>5
  <2>7. UNCHANGED <<searchItem, searchActive, searchClock, searchWanted>>
    BY DEF Search!InSearch
  <2> QED BY <2>2, <2>3, <2>5, <2>6, <2>7, SearchSiteStep
<1> QED BY <1>2, <1>3, <1>4, <1>5, <1>6 DEF Search!Outcome

LEMMA SearchAsks ==
  ASSUME SearchInv, NEW s \in SearchSites,
         Search!Capabilities(s) \/ Search!Ask(s) \/ Search!AskAgain(s) \/ Search!AskLast(s)
  PROVE  SearchInv'
<1>1. SearchResult(searchSearch[s])
  BY SearchTypes
<1>2. CASE Search!Capabilities(s)
  <2>1. /\ searchSearch[s].pc = "capabilities" /\ Search!InSearch /\ Search!Uncounted
        /\ searchMemory' = searchMemory /\ searchAsked' = searchAsked
        /\ \/ Search!Set(s, [searchSearch[s] EXCEPT !.pc = "ask"]) \/ Search!Set(s, Search!TimedOut)
           \/ Search!Set(s, Search!Fail(searchSearch[s], Search!Unavailable, FALSE))
    BY <1>2 DEF Search!Capabilities
  <2>2. /\ searchMemory' = [o \in SearchSites |-> searchMemory'[o]]
        /\ \A o \in SearchSites : \A n \in searchMemory'[o] : n.answer.error \in {"none", "foreign"}
        /\ searchAsked' \in [SearchSites -> Nat]
    BY <2>1 DEF SearchInv, SearchTypeInv, SearchStateInv
  <2>3. SearchResult([searchSearch[s] EXCEPT !.pc = "ask"])
    BY <1>1, <2>1 DEF SearchResult, SearchFields
  <2>4. SearchResult(Search!Fail(searchSearch[s], Search!Unavailable, FALSE))
    BY <1>1, <2>1, SearchStays, SearchFail DEF SearchFails
  <2> QED BY <2>1, <2>2, <2>3, <2>4, SearchTimedOut, SearchQuiet
<1>3. CASE Search!Ask(s)
  <2> DEFINE r == searchSearch[s]
  <2>1. PICK m \in Search!Recalled(s, r.query, r.page) : \E a \in Search!Answers(s, r.query, r.page, m) :
               /\ Search!Answer(s, r.query, r.page, m, a)
               /\ IF a = Search!Empty /\ r.page = 1 /\ ~r.again
                  THEN Search!Set(s, [r EXCEPT !.pc = "again", !.again = TRUE]) /\ Search!Uncounted
                  ELSE Search!Outcome(s, a, Search!Take(r, a))
    BY <1>3 DEF Search!Ask
  <2>2. PICK a \in Search!Answers(s, r.query, r.page, m) :
               /\ Search!Answer(s, r.query, r.page, m, a)
               /\ IF a = Search!Empty /\ r.page = 1 /\ ~r.again
                  THEN Search!Set(s, [r EXCEPT !.pc = "again", !.again = TRUE]) /\ Search!Uncounted
                  ELSE Search!Outcome(s, a, Search!Take(r, a))
    BY <2>1
  <2>3. r.pc = "ask" /\ Search!InSearch
    BY <1>3 DEF Search!Ask
  <2>4. CASE Search!Set(s, [r EXCEPT !.pc = "again", !.again = TRUE]) /\ Search!Uncounted
    <3>1. SearchResult([r EXCEPT !.pc = "again", !.again = TRUE])
      BY <1>1, <2>3 DEF SearchResult, SearchFields
    <3> QED BY <2>2, <2>3, <2>4, <3>1, SearchAnswer, SearchQuiet
  <2>5. CASE Search!Outcome(s, a, Search!Take(r, a))
    BY <2>2, <2>3, <2>5, SearchAnswer, SearchOutcome
  <2> QED BY <2>2, <2>4, <2>5
<1>4. CASE Search!AskAgain(s)
  <2> DEFINE r == searchSearch[s]
  <2>1. PICK m \in Search!Recalled(s, r.query, 1) : \E a \in Search!Answers(s, r.query, 1, m) :
               Search!Answer(s, r.query, 1, m, a) /\ Search!Outcome(s, a, Search!Take(r, a))
    BY <1>4 DEF Search!AskAgain
  <2>2. PICK a \in Search!Answers(s, r.query, 1, m) :
               Search!Answer(s, r.query, 1, m, a) /\ Search!Outcome(s, a, Search!Take(r, a))
    BY <2>1
  <2>3. r.pc = "again" /\ Search!InSearch
    BY <1>4 DEF Search!AskAgain
  <2> QED BY <2>2, <2>3, SearchAnswer, SearchOutcome
<1>5. CASE Search!AskLast(s)
  <2> DEFINE r == [searchSearch[s] EXCEPT !.pc = "done"]
             new(a) == CASE a.error = "none" -> [r EXCEPT !.found = r.found \cup (a.items \ {"unrelated"})]
                         [] a.error = "foreign" -> [r EXCEPT !.failures = r.failures \cup {Search!Plain("foreign")}]
                         [] a.error = "timeout" -> Search!TimedOut
                         [] OTHER -> [r EXCEPT !.failures = r.failures \cup {Search!Failure(a, FALSE, FALSE)}]
  <2>1. PICK q \in searchSearch[s].empties : \E m \in Search!Recalled(s, q, 1) : \E a \in Search!Answers(s, q, 1, m) :
           Search!Answer(s, q, 1, m, a) /\ Search!Set(s, new(a))
    BY <1>5 DEF Search!AskLast
  <2>2. PICK m \in Search!Recalled(s, q, 1) : \E a \in Search!Answers(s, q, 1, m) :
           Search!Answer(s, q, 1, m, a) /\ Search!Set(s, new(a))
    BY <2>1
  <2>3. PICK a \in Search!Answers(s, q, 1, m) : Search!Answer(s, q, 1, m, a) /\ Search!Set(s, new(a))
    BY <2>2
  <2>4. searchSearch[s].pc # "done" /\ Search!InSearch /\ Search!Uncounted
    BY <1>5 DEF Search!AskLast
  <2>5. SearchResult(new(a))
    <3>1. SearchOpen(r) /\ r.pc = "done"
      BY <1>1, <2>4, SearchStays DEF SearchOpen, SearchFields
    <3>2. a.error \in {"none", "foreign", "timeout"} \/ SearchFails(a)
      BY <2>3, SearchAnswer
    <3> HIDE DEF r
    <3>3. CASE a.error = "none"
      BY <3>1, <3>3 DEF SearchOpen, SearchResult, SearchFields
    <3>4. CASE a.error = "foreign"
      BY <3>1, <3>4, SearchPlain DEF SearchOpen, SearchResult, SearchFields
    <3>5. CASE a.error = "timeout"
      BY <3>5, SearchTimedOut
    <3>6. CASE a.error \notin {"none", "foreign", "timeout"}
      <4>1. Search!Failure(a, FALSE, FALSE).after \in SearchPauses
        BY <3>2, <3>6 DEF SearchFails, Search!Unavailable, Search!Broken, Search!Refusals, Search!Refusal,
                          Search!Failure, SearchPauses
      <4>2. SearchResult([r EXCEPT !.failures = r.failures \cup {Search!Failure(a, FALSE, FALSE)}])
        BY <3>1, <4>1 DEF SearchOpen, SearchResult, SearchFields
      <4> QED BY <3>6, <4>2
    <3> QED BY <3>3, <3>4, <3>5, <3>6
  <2> HIDE DEF new
  <2> QED BY <2>3, <2>4, <2>5, SearchAnswer, SearchQuiet
<1> QED BY <1>2, <1>3, <1>4, <1>5

-----------------------------------------------------------------------------
(* Claiming, finalizing, users and time *)

\* Steps that leave the sites' results alone.
LEMMA SearchRowsStep ==
  ASSUME SearchInv, UNCHANGED <<searchSearch, searchHush, searchAsked, searchClock, searchActive>>,
         searchMemory' = [o \in SearchSites |-> searchMemory'[o]],
         \A o \in SearchSites : \A n \in searchMemory'[o] : n.answer.error \in {"none", "foreign"},
         searchItem' \in [SearchItems -> SearchItem], searchWanted' \subseteq SearchItems,
         searchWanted \subseteq searchWanted',
         searchActive # 0 => searchItem'[searchActive].status = "MATCHING",
         \A i \in SearchItems \ searchWanted' :
           searchItem'[i].status = "MATCH_PENDING" =>
             searchItem[i].status = "MATCH_PENDING" /\ searchItem[i].notBefore <= searchItem'[i].notBefore
  PROVE  SearchInv'
<1>1. SearchTypeInv'
  BY DEF SearchInv, SearchTypeInv
<1>2. SearchStateInv'
  BY DEF SearchInv, SearchStateInv
<1>3. SearchHushInv'
  <2> SUFFICES ASSUME NEW s \in SearchSites
               PROVE  /\ \A i \in SearchItems \ searchWanted' :
                           searchItem'[i].status = "MATCH_PENDING" =>
                             searchHush[s] <= searchItem'[i].notBefore
                               \/ (searchActive # 0 /\ searchSearch[s].pc = "done" /\ SearchRefused(s))
                      /\ searchActive \in SearchItems \ searchWanted' =>
                           searchHush[s] <= searchClock \/ (searchSearch[s].pc = "done" /\ SearchRefused(s))
    BY DEF SearchHushInv, SearchRefused
  <2>1. ASSUME NEW i \in SearchItems \ searchWanted', searchItem'[i].status = "MATCH_PENDING"
        PROVE  searchHush[s] <= searchItem'[i].notBefore
                 \/ (searchActive # 0 /\ searchSearch[s].pc = "done" /\ SearchRefused(s))
    <3>1. searchItem[i].status = "MATCH_PENDING" /\ searchItem[i].notBefore <= searchItem'[i].notBefore
      BY <2>1
    <3>2. /\ searchHush[s] \in Nat /\ searchItem[i].notBefore \in Nat /\ searchItem'[i].notBefore \in Nat
          /\ i \in SearchItems \ searchWanted
      BY SearchTypes DEF SearchItem
    <3>3. searchHush[s] <= searchItem[i].notBefore
            \/ (searchActive # 0 /\ searchSearch[s].pc = "done" /\ SearchRefused(s))
      BY <3>1, <3>2 DEF SearchInv, SearchHushInv
    <3> QED BY <3>1, <3>2, <3>3
  <2>2. searchActive \in SearchItems \ searchWanted' =>
          searchHush[s] <= searchClock \/ (searchSearch[s].pc = "done" /\ SearchRefused(s))
    BY DEF SearchInv, SearchHushInv
  <2> QED BY <2>1, <2>2
<1> QED BY <1>1, <1>2, <1>3 DEF SearchInv

\* Deferring moves pending items to a later time and leaves the others.
LEMMA SearchDefers ==
  ASSUME SearchInv, NEW until \in Nat, NEW rows, rows = Search!Defer(searchItem, until)
  PROVE  /\ rows \in [SearchItems -> SearchItem]
         /\ \A i \in SearchItems :
              /\ rows[i].status = searchItem[i].status
              /\ rows[i].status = "MATCH_PENDING" =>
                   searchItem[i].notBefore <= rows[i].notBefore /\ until <= rows[i].notBefore
<1> DEFINE new(i) == [searchItem[i] EXCEPT !.notBefore = Search!Later(searchItem[i].notBefore, until)]
<1>1. rows = [i \in SearchItems |-> IF searchItem[i].status = "MATCH_PENDING" THEN new(i) ELSE searchItem[i]]
  BY DEF Search!Defer
<1>2. ASSUME NEW i \in SearchItems
      PROVE  /\ new(i) \in SearchItem /\ new(i).status = searchItem[i].status
             /\ searchItem[i].notBefore <= new(i).notBefore /\ until <= new(i).notBefore
  <2> DEFINE later == Search!Later(searchItem[i].notBefore, until)
  <2>1. searchItem[i] \in SearchItem /\ searchItem[i].notBefore \in Nat
    BY SearchTypes DEF SearchItem
  <2>2. later \in Nat /\ searchItem[i].notBefore <= later /\ until <= later
    BY <2>1 DEF Search!Later
  <2> HIDE DEF later
  <2>3. [searchItem[i] EXCEPT !.notBefore = later] \in SearchItem
        /\ [searchItem[i] EXCEPT !.notBefore = later].status = searchItem[i].status
        /\ [searchItem[i] EXCEPT !.notBefore = later].notBefore = later
    BY <2>1, <2>2 DEF SearchItem
  <2> QED BY <2>2, <2>3 DEF later
<1> HIDE DEF new
<1> QED BY <1>1, <1>2, SearchTypes

LEMMA SearchClaims ==
  ASSUME SearchInv, Search!ClaimParked \/ Search!Claim PROVE SearchInv'
<1>1. CASE Search!ClaimParked
  <2>1. searchClock + RiskPause \in Nat
    BY SearchTypes, SearchNumbers
  <2>2. /\ searchItem' = Search!Defer(searchItem, searchClock + RiskPause) /\ searchActive = 0
        /\ UNCHANGED <<searchSearch, searchHush, searchAsked, searchClock, searchActive, searchMemory, searchWanted>>
    BY <1>1 DEF Search!ClaimParked, Search!None
  <2>3. /\ searchItem' \in [SearchItems -> SearchItem]
        /\ \A i \in SearchItems :
             searchItem'[i].status = "MATCH_PENDING" =>
               searchItem[i].status = "MATCH_PENDING" /\ searchItem[i].notBefore <= searchItem'[i].notBefore
    BY <2>1, <2>2, SearchDefers
  <2>4. /\ searchMemory' = [o \in SearchSites |-> searchMemory'[o]]
        /\ \A o \in SearchSites : \A n \in searchMemory'[o] : n.answer.error \in {"none", "foreign"}
    BY <2>2 DEF SearchInv, SearchTypeInv, SearchStateInv
  <2> QED BY <2>2, <2>3, <2>4, SearchTypes, SearchRowsStep
<1>2. CASE Search!Claim
  <2> DEFINE i == CHOOSE i \in Search!Due : \A j \in Search!Due : i <= j
  <2>1. i \in Search!Due
    <3>1. Search!Due \subseteq Nat /\ Search!Due # {}
      BY <1>2, SearchNumbers DEF Search!Claim, Search!Due
    <3> QED BY <3>1, SearchFirst
  <2>2. /\ searchItem' = [searchItem EXCEPT ![i].status = "MATCHING"] /\ searchActive' = i
        /\ searchAsked' = [s \in SearchSites |-> 0] /\ searchActive = 0
        /\ UNCHANGED <<searchMemory, searchClock, searchHush, searchWanted>>
    BY <1>2 DEF Search!Claim, Search!None
  <2>3. /\ searchSearch' = [s \in SearchSites |-> searchSearch'[s]]
        /\ \A s \in SearchSites : SearchResult(searchSearch'[s])
    <3>1. PICK missing : searchSearch' = [s \in SearchSites |->
                  IF missing = {} THEN Search!Fresh
                  ELSE IF s \in missing THEN [Search!Finished EXCEPT !.failures = {Search!Plain("missing")}]
                  ELSE Search!Finished]
      BY <1>2 DEF Search!Claim
    <3> QED BY <3>1, SearchTimedOut
  <2> HIDE DEF i
  <2>4. /\ i \in SearchItems /\ i # 0 /\ searchItem[i].status = "MATCH_PENDING"
        /\ searchItem[i].notBefore <= searchClock /\ searchItem[i].notBefore \in Nat
    BY <2>1, SearchNumbers, SearchTypes DEF Search!Due, SearchItem
  <2>5. /\ searchItem' \in [SearchItems -> SearchItem] /\ searchItem'[i].status = "MATCHING"
        /\ \A j \in SearchItems : j # i => searchItem'[j] = searchItem[j]
    <3> DEFINE new == [searchItem[i] EXCEPT !.status = "MATCHING"]
    <3>1. new \in SearchItem /\ new.status = "MATCHING"
      BY <2>4, SearchTypes DEF SearchItem
    <3>2. searchItem' = [searchItem EXCEPT ![i] = new]
      BY <2>2
    <3> HIDE DEF new
    <3> QED BY <2>4, <3>1, <3>2, SearchTypes
  <2>6. \A s \in SearchSites : \A j \in SearchItems \ searchWanted :
          searchItem[j].status = "MATCH_PENDING" => searchHush[s] <= searchItem[j].notBefore
    BY <2>2 DEF SearchInv, SearchHushInv
  <2>7. SearchTypeInv'
    <3>1. searchAsked' \in [SearchSites -> Nat]
      BY <2>2
    <3> QED BY <2>2, <2>3, <2>4, <2>5, <3>1 DEF SearchInv, SearchTypeInv
  <2>8. SearchStateInv'
    BY <2>2, <2>4, <2>5 DEF SearchInv, SearchStateInv
  <2>9. SearchHushInv'
    <3> SUFFICES ASSUME NEW s \in SearchSites
                 PROVE  /\ \A j \in SearchItems \ searchWanted :
                             searchItem'[j].status = "MATCH_PENDING" => searchHush[s] <= searchItem'[j].notBefore
                        /\ i \in SearchItems \ searchWanted => searchHush[s] <= searchClock
      BY <2>2 DEF SearchHushInv
    <3>1. \A j \in SearchItems \ searchWanted :
            searchItem'[j].status = "MATCH_PENDING" => searchHush[s] <= searchItem'[j].notBefore
      BY <2>5, <2>6
    <3>2. ASSUME i \in SearchItems \ searchWanted PROVE searchHush[s] <= searchClock
      <4>1. searchHush[s] <= searchItem[i].notBefore /\ searchHush[s] \in Nat /\ searchClock \in Nat
        BY <2>4, <2>6, <3>2, SearchTypes
      <4> QED BY <2>4, <4>1
    <3> QED BY <3>1, <3>2
  <2> QED BY <2>7, <2>8, <2>9 DEF SearchInv
<1> QED BY <1>1, <1>2

LEMMA SearchUsers ==
  ASSUME SearchInv,
         \/ \E s \in SearchSites, enabled \in BOOLEAN : Search!SetEnabled(s, enabled)
         \/ \E i \in SearchItems : Search!Retry(i)
  PROVE  SearchInv'
<1>0. /\ searchMemory = [o \in SearchSites |-> searchMemory[o]]
      /\ \A o \in SearchSites : \A n \in searchMemory[o] : n.answer.error \in {"none", "foreign"}
      /\ searchActive # 0 => searchItem[searchActive].status = "MATCHING"
  BY DEF SearchInv, SearchTypeInv, SearchStateInv
<1>1. ASSUME NEW s \in SearchSites, NEW enabled \in BOOLEAN, Search!SetEnabled(s, enabled) PROVE SearchInv'
  <2>1. /\ searchMemory' = [searchMemory EXCEPT ![s] = {}]
        /\ UNCHANGED <<searchSearch, searchHush, searchAsked, searchClock, searchActive, searchItem, searchWanted>>
    BY <1>1 DEF Search!SetEnabled
  <2>2. /\ searchMemory' = [o \in SearchSites |-> searchMemory'[o]]
        /\ \A o \in SearchSites : \A n \in searchMemory'[o] : n.answer.error \in {"none", "foreign"}
    BY <1>0, <2>1
  <2>3. \A i \in SearchItems : searchItem[i].notBefore <= searchItem[i].notBefore
    BY SearchTypes DEF SearchItem
  <2> QED BY <1>0, <2>1, <2>2, <2>3, SearchTypes, SearchRowsStep
<1>2. ASSUME NEW i \in SearchItems, Search!Retry(i) PROVE SearchInv'
  <2> DEFINE new == [status |-> "MATCH_PENDING", retries |-> 0, notBefore |-> 0]
  <2>1. /\ searchItem' = [searchItem EXCEPT ![i] = new] /\ searchWanted' = searchWanted \cup {i}
        /\ searchItem[i].status # "MATCHING"
        /\ UNCHANGED <<searchSearch, searchHush, searchAsked, searchClock, searchActive, searchMemory>>
    BY <1>2 DEF Search!Retry
  <2>2. new \in SearchItem
    BY DEF SearchItem
  <2> HIDE DEF new
  <2>3. /\ searchItem' \in [SearchItems -> SearchItem]
        /\ \A j \in SearchItems : j # i => searchItem'[j] = searchItem[j]
    BY <2>1, <2>2, SearchTypes
  <2>4. \A j \in SearchItems : searchItem[j].notBefore <= searchItem[j].notBefore
    BY SearchTypes DEF SearchItem
  <2>5. searchActive # 0 => searchItem'[searchActive].status = "MATCHING"
    BY <1>0, <2>1, <2>3, SearchTypes
  <2>6. searchWanted' \subseteq SearchItems
    BY <2>1, SearchTypes
  <2> QED BY <1>0, <2>1, <2>3, <2>4, <2>5, <2>6, SearchRowsStep
<1> QED BY <1>1, <1>2

LEMMA SearchTicks == ASSUME SearchInv, Search!Tick PROVE SearchInv'
<1>1. /\ searchClock < SearchClock /\ searchClock' = searchClock + 1
      /\ UNCHANGED <<searchSearch, searchHush, searchAsked, searchActive, searchMemory, searchItem, searchWanted>>
  BY DEF Search!Tick
<1>2. searchClock' \in 0..SearchClock /\ searchClock \in Nat /\ searchClock' \in Nat
  BY <1>1, SearchTypes, SearchNumbers
<1>3. SearchTypeInv' /\ SearchStateInv'
  BY <1>1, <1>2 DEF SearchInv, SearchTypeInv, SearchStateInv
<1>4. ASSUME NEW s \in SearchSites, SearchRefused(s) PROVE SearchRefused(s)'
  <2>1. PICK f \in searchSearch[s].failures :
          /\ f.counted /\ f.retryable
          /\ searchHush[s] <= searchClock + (IF f.after = Search!Never THEN RiskPause ELSE f.after)
    BY <1>4 DEF SearchRefused
  <2>2. f.after \in SearchPauses
    BY <2>1, SearchTypes DEF SearchResult
  <2>3. f.after \in Nat /\ searchHush[s] \in Nat /\ RiskPause \in Nat
    BY <2>2, SearchNumbers, SearchTypes
  <2>4. searchHush[s] <= searchClock' + (IF f.after = Search!Never THEN RiskPause ELSE f.after)
    BY <1>1, <1>2, <2>1, <2>3
  <2> QED BY <1>1, <2>1, <2>4 DEF SearchRefused
<1>5. SearchHushInv'
  <2> SUFFICES ASSUME NEW s \in SearchSites
               PROVE  /\ \A i \in SearchItems \ searchWanted :
                           searchItem[i].status = "MATCH_PENDING" =>
                             searchHush[s] <= searchItem[i].notBefore
                               \/ (searchActive # 0 /\ searchSearch[s].pc = "done" /\ SearchRefused(s)')
                      /\ searchActive \in SearchItems \ searchWanted =>
                           searchHush[s] <= searchClock' \/ (searchSearch[s].pc = "done" /\ SearchRefused(s)')
    BY <1>1 DEF SearchHushInv
  <2>1. /\ \A i \in SearchItems \ searchWanted :
             searchItem[i].status = "MATCH_PENDING" =>
               searchHush[s] <= searchItem[i].notBefore
                 \/ (searchActive # 0 /\ searchSearch[s].pc = "done" /\ SearchRefused(s))
        /\ searchActive \in SearchItems \ searchWanted =>
             searchHush[s] <= searchClock \/ (searchSearch[s].pc = "done" /\ SearchRefused(s))
    BY DEF SearchInv, SearchHushInv
  <2>2. searchHush[s] <= searchClock => searchHush[s] <= searchClock'
    BY <1>1, <1>2, SearchTypes
  <2> QED BY <1>4, <2>1, <2>2
<1> QED BY <1>3, <1>5 DEF SearchInv

\* The cooldown and the pauses that the failures of a search ask for.
LEMMA SearchQuiets ==
  ASSUME SearchInv
  PROVE  /\ Search!Quiet \in Nat /\ searchClock <= Search!Quiet
         /\ \A s \in SearchSites : SearchRefused(s) => Search!Risks # {} /\ searchHush[s] <= Search!Quiet
<1> DEFINE S == {RiskPause} \cup {f.after : f \in {g \in Search!Risks : g.after # Search!Never}}
<1>1. \A s \in SearchSites : \A f \in searchSearch[s].failures :
        f \in Search!Failures /\ f.after \in SearchPauses /\ f.after \in Nat
  BY SearchTypes, SearchNumbers DEF SearchResult, Search!Failures
<1>2. \A f \in Search!Risks : f.after \in SearchPauses
  BY <1>1 DEF Search!Failures, Search!Risks
<1>3. S \subseteq 0..Search!Never /\ S # {} /\ RiskPause \in S
  BY <1>2, SearchNumbers DEF SearchPauses
<1>4. Search!Quiet = searchClock + Search!Longest(S)
  BY DEF Search!Quiet
<1>5. \A s \in SearchSites : \A f \in searchSearch[s].failures :
        f.counted => f \in Search!Risks /\ (f.after # Search!Never => f.after \in S)
  BY <1>1 DEF Search!Risks
<1> HIDE DEF S
<1>6. PICK l \in Nat : l = Search!Longest(S) /\ \A n \in S : n <= l
  BY <1>3, SearchNumbers, SearchLongest
<1>7. Search!Quiet = searchClock + l /\ searchClock \in Nat
  BY <1>4, <1>6, SearchTypes
<1>8. ASSUME NEW s \in SearchSites, SearchRefused(s)
      PROVE  Search!Risks # {} /\ searchHush[s] <= Search!Quiet
  <2>1. PICK f \in searchSearch[s].failures :
          /\ f.counted /\ f.retryable
          /\ searchHush[s] <= searchClock + (IF f.after = Search!Never THEN RiskPause ELSE f.after)
    BY <1>8 DEF SearchRefused
  <2>2. f \in Search!Risks /\ f.after \in Nat /\ (f.after # Search!Never => f.after <= l) /\ RiskPause <= l
    BY <1>1, <1>3, <1>5, <1>6, <2>1
  <2>3. searchHush[s] \in Nat /\ RiskPause \in Nat
    BY SearchTypes, SearchNumbers
  <2> QED BY <1>7, <2>1, <2>2, <2>3
<1> QED BY <1>6, <1>7, <1>8

LEMMA SearchRetryLater ==
  ASSUME SearchInv, NEW i \in SearchItems, NEW r \in Search!Retries(i)
  PROVE  /\ r \in SearchItem /\ searchClock <= r.notBefore
         /\ \A s \in SearchSites : SearchRefused(s) => searchHush[s] <= r.notBefore
<1> DEFINE S == Search!Pauses(Search!Failures)
<1>1. \A s \in SearchSites : \A f \in searchSearch[s].failures :
        f.after \in Nat /\ (f.retryable => f.after \in S)
  BY SearchTypes, SearchNumbers DEF SearchResult, Search!Failures, Search!Pauses
<1>2. S \subseteq 0..Search!Never /\ S # {}
  <2>1. \A f \in Search!Failures : f.after \in SearchPauses
    BY SearchTypes DEF SearchResult, Search!Failures
  <2>2. 1 \in 0..Search!Never /\ 1 \in S
    BY SearchNumbers DEF Search!Pauses
  <2> QED BY <2>1, <2>2, SearchNumbers DEF Search!Pauses
<1>3. /\ Search!Never \notin S
      /\ r = [status |-> "MATCH_PENDING", retries |-> searchItem[i].retries + 1,
              notBefore |-> searchClock + Search!Longest(S)]
  BY DEF Search!Retries
<1> HIDE DEF S
<1>4. PICK l \in Nat : l = Search!Longest(S) /\ \A n \in S : n <= l
  BY <1>2, SearchNumbers, SearchLongest
<1>5. searchItem[i].retries + 1 \in Nat /\ searchClock \in Nat /\ searchClock + l \in Nat
  BY SearchTypes DEF SearchItem
<1>6. r \in SearchItem /\ r.notBefore = searchClock + l
  BY <1>3, <1>4, <1>5 DEF SearchItem
<1>7. ASSUME NEW s \in SearchSites, SearchRefused(s) PROVE searchHush[s] <= r.notBefore
  <2>1. PICK f \in searchSearch[s].failures :
          /\ f.counted /\ f.retryable
          /\ searchHush[s] <= searchClock + (IF f.after = Search!Never THEN RiskPause ELSE f.after)
    BY <1>7 DEF SearchRefused
  <2>2. f.after \in Nat /\ f.after # Search!Never /\ f.after <= l /\ searchHush[s] \in Nat
    BY <1>1, <1>3, <1>4, <2>1, SearchTypes
  <2> QED BY <1>5, <1>6, <2>1, <2>2
<1> QED BY <1>5, <1>6, <1>7

\* What a search makes of its item.
LEMMA SearchVerdict ==
  ASSUME SearchInv, NEW i \in SearchItems,
         NEW r, \/ r \in {[searchItem[i] EXCEPT !.status = m] : m \in Search!Matched}
                \/ r \in Search!Unmatched(i)
  PROVE  /\ r \in SearchItem
         /\ r.status = "MATCH_PENDING" =>
              /\ searchClock <= r.notBefore
              /\ \A s \in SearchSites : SearchRefused(s) => searchHush[s] <= r.notBefore
<1>1. searchItem[i] \in SearchItem
  BY SearchTypes
<1>2. ASSUME NEW m \in Search!Matched \cup {"NO_MATCH", "MATCH_TIMEOUT", "MATCH_ERROR"},
             r = [searchItem[i] EXCEPT !.status = m]
      PROVE  r \in SearchItem /\ r.status # "MATCH_PENDING"
  BY <1>1, <1>2 DEF SearchItem, Search!Matched
<1>3. CASE r = [searchItem[i] EXCEPT !.status = "MATCH_PENDING", !.notBefore = Search!Quiet]
  <2>1. r \in SearchItem /\ r.notBefore = Search!Quiet
    BY <1>1, <1>3, SearchQuiets DEF SearchItem
  <2> QED BY <2>1, SearchQuiets
<1>4. CASE r \in Search!Retries(i)
  BY <1>4, SearchRetryLater
<1>5. CASE r \in Search!Unmatched(i)
  <2> DEFINE ends(status) == {[searchItem[i] EXCEPT !.status = status]}
             retry == Search!Retries(i)
             quiet == {[searchItem[i] EXCEPT !.status = "MATCH_PENDING", !.notBefore = Search!Quiet]}
  <2>1. r \in (CASE Search!Failures = {} -> ends("NO_MATCH")
          [] \E f \in Search!Risks : f.limit -> quiet
          [] \E f \in Search!Failures : f.retryable /\ retry # {} -> retry
          [] Search!Risks = {} /\ \E f \in Search!Failures : f.error = "timeout" -> ends("MATCH_TIMEOUT")
          [] OTHER -> ends("MATCH_ERROR"))
    BY <1>5 DEF Search!Unmatched
  <2>2. r \in ends("NO_MATCH") \/ r \in quiet \/ r \in retry \/ r \in ends("MATCH_TIMEOUT")
        \/ r \in ends("MATCH_ERROR")
    <3> HIDE DEF ends, retry, quiet
    <3> QED BY <2>1
  <2> QED BY <1>2, <1>3, <1>4, <2>2
<1> QED BY <1>2, <1>5

LEMMA SearchFinalizes == ASSUME SearchInv, Search!Finalize PROVE SearchInv'
<1> DEFINE rows == IF Search!Risks # {} THEN Search!Defer(searchItem, Search!Quiet) ELSE searchItem
<1>1. PICK r : /\ searchItem' = [rows EXCEPT ![searchActive] = r]
               /\ r \in {[searchItem[searchActive] EXCEPT !.status = m] : m \in Search!Matched}
                  \/ r \in Search!Unmatched(searchActive)
  BY DEF Search!Finalize
<1>2. /\ searchActive \in SearchItems /\ searchActive' = 0
      /\ \A s \in SearchSites : searchSearch[s].pc = "done"
      /\ searchWanted' = IF searchItem'[searchActive].status = "MATCH_PENDING" THEN searchWanted
                         ELSE searchWanted \ {searchActive}
      /\ UNCHANGED <<searchSearch, searchHush, searchAsked, searchClock, searchMemory>>
  BY SearchTypes DEF Search!Finalize, Search!None
<1>3. /\ rows \in [SearchItems -> SearchItem]
      /\ \A i \in SearchItems :
           /\ rows[i].status = searchItem[i].status
           /\ rows[i].status = "MATCH_PENDING" =>
                /\ searchItem[i].notBefore <= rows[i].notBefore
                /\ Search!Risks # {} => Search!Quiet <= rows[i].notBefore
  <2>1. CASE Search!Risks # {}
    BY <2>1, SearchQuiets, SearchDefers
  <2>2. CASE Search!Risks = {}
    <3>1. \A i \in SearchItems : searchItem[i].notBefore <= searchItem[i].notBefore
      BY SearchTypes DEF SearchItem
    <3> QED BY <2>2, <3>1, SearchTypes
  <2> QED BY <2>1, <2>2
<1> HIDE DEF rows
<1>4. /\ r \in SearchItem
      /\ r.status = "MATCH_PENDING" =>
           /\ searchClock <= r.notBefore
           /\ \A s \in SearchSites : SearchRefused(s) => searchHush[s] <= r.notBefore
  BY <1>1, <1>2, SearchVerdict
<1>5. /\ searchItem' \in [SearchItems -> SearchItem] /\ searchItem'[searchActive] = r
      /\ \A i \in SearchItems : i # searchActive => searchItem'[i] = rows[i]
  BY <1>1, <1>2, <1>3, <1>4
<1>6. SearchTypeInv'
  BY <1>2, <1>5 DEF SearchInv, SearchTypeInv
<1>7. SearchStateInv'
  BY <1>2 DEF SearchInv, SearchStateInv
<1>8. SearchHushInv'
  <2> SUFFICES ASSUME NEW s \in SearchSites, NEW i \in SearchItems \ searchWanted',
                      searchItem'[i].status = "MATCH_PENDING"
               PROVE  searchHush[s] <= searchItem'[i].notBefore
    BY <1>2, SearchNumbers DEF SearchHushInv
  <2>1. /\ searchHush[s] \in Nat /\ searchClock \in Nat /\ searchItem[i].notBefore \in Nat
        /\ searchItem'[i].notBefore \in Nat /\ Search!Quiet \in Nat
    BY <1>5, SearchTypes, SearchQuiets DEF SearchItem
  <2>2. CASE i = searchActive
    <3>1. searchActive \in SearchItems \ searchWanted
      BY <1>2, <2>2
    <3>2. searchHush[s] <= searchClock \/ SearchRefused(s)
      BY <3>1 DEF SearchInv, SearchHushInv
    <3>3. searchClock <= searchItem'[i].notBefore
          /\ (SearchRefused(s) => searchHush[s] <= searchItem'[i].notBefore)
      BY <1>4, <1>5, <2>2
    <3> QED BY <2>1, <3>2, <3>3
  <2>3. CASE i # searchActive
    <3>1. i \in SearchItems \ searchWanted /\ searchItem'[i] = rows[i]
      BY <1>2, <1>5, <2>3
    <3>2. searchItem[i].status = "MATCH_PENDING" /\ searchItem[i].notBefore <= searchItem'[i].notBefore
          /\ (Search!Risks # {} => Search!Quiet <= searchItem'[i].notBefore)
      BY <1>3, <3>1
    <3>3. searchHush[s] <= searchItem[i].notBefore \/ SearchRefused(s)
      BY <3>1, <3>2 DEF SearchInv, SearchHushInv
    <3>4. SearchRefused(s) => Search!Risks # {} /\ searchHush[s] <= Search!Quiet
      BY SearchQuiets
    <3> QED BY <2>1, <3>2, <3>3, <3>4
  <2> QED BY <2>2, <2>3
<1> QED BY <1>6, <1>7, <1>8 DEF SearchInv

-----------------------------------------------------------------------------

LEMMA SearchBeginning == Search!Init => SearchInv
<1> SUFFICES ASSUME Search!Init PROVE SearchInv
  OBVIOUS
<1>1. /\ searchItem = [i \in SearchItems |-> [status |-> "MATCH_PENDING", retries |-> 0, notBefore |-> 0]]
      /\ searchMemory = [s \in SearchSites |-> {}] /\ searchActive = 0 /\ searchClock = 0 /\ searchWanted = {}
      /\ searchSearch = [s \in SearchSites |-> Search!Finished]
      /\ searchAsked = [s \in SearchSites |-> 0] /\ searchHush = [s \in SearchSites |-> 0]
  BY DEF Search!Init, Search!None
<1>2. SearchTypeInv
  <2>1. searchItem \in [SearchItems -> SearchItem]
    BY <1>1 DEF SearchItem
  <2>2. searchSearch = [s \in SearchSites |-> searchSearch[s]]
        /\ \A s \in SearchSites : SearchResult(searchSearch[s])
    BY <1>1, SearchTimedOut
  <2>3. searchMemory = [s \in SearchSites |-> searchMemory[s]]
    BY <1>1
  <2>4. searchHush \in [SearchSites -> Nat] /\ searchAsked \in [SearchSites -> Nat]
        /\ searchClock \in 0..SearchClock
    BY <1>1, SearchNumbers
  <2> QED BY <1>1, <2>1, <2>2, <2>3, <2>4 DEF SearchTypeInv
<1>3. SearchStateInv
  BY <1>1, SearchTimedOut DEF SearchStateInv
<1>4. SearchHushInv
  BY <1>1, SearchNumbers DEF SearchHushInv
<1> QED BY <1>2, <1>3, <1>4 DEF SearchInv

LEMMA SearchStill == ASSUME SearchInv, UNCHANGED Search!vars PROVE SearchInv'
<1>1. UNCHANGED <<searchItem, searchSearch, searchHush, searchAsked, searchClock, searchWanted,
                  searchActive, searchMemory>>
  BY DEF Search!vars
<1>2. SearchTypeInv' /\ SearchStateInv'
  BY <1>1 DEF SearchInv, SearchTypeInv, SearchStateInv
<1>3. SearchHushInv'
  BY <1>1 DEF SearchInv, SearchHushInv, SearchRefused
<1> QED BY <1>2, <1>3 DEF SearchInv

LEMMA SearchStep == SearchInv /\ [Search!Next]_(Search!vars) => SearchInv'
BY SearchClaims, SearchFinalizes, SearchTicks, SearchAsks, SearchUsers, SearchStill DEF Search!Next

\* A site is asked in a step of its own search, which is not done.
LEMMA SearchAsking ==
  ASSUME SearchInv, Search!Next, NEW s \in SearchSites, ~(searchAsked'[s] <= searchAsked[s])
  PROVE  searchSearch[s].pc # "done"
<1>1. searchAsked \in [SearchSites -> Nat]
  BY SearchTypes
<1>2. searchAsked' # searchAsked
  BY <1>1
<1>3. ~Search!Claim
  <2>1. Search!Claim => searchAsked'[s] = 0
    BY DEF Search!Claim
  <2> QED BY <1>1, <2>1
<1>4. ASSUME NEW o \in SearchSites, Search!Ask(o) \/ Search!AskAgain(o) \/ Search!AskLast(o)
      PROVE  searchSearch[s].pc # "done"
  <2>1. searchSearch[o].pc # "done"
    BY <1>4 DEF Search!Ask, Search!AskAgain, Search!AskLast
  <2>2. \E q, page, m, a : Search!Answer(o, q, page, m, a)
    BY <1>4 DEF Search!Ask, Search!AskAgain, Search!AskLast
  <2>3. PICK x : searchAsked' = [searchAsked EXCEPT ![o] = x]
    BY <2>2 DEF Search!Answer
  <2>4. o = s
    BY <1>1, <2>3
  <2> QED BY <2>1, <2>4
<1>5. \E o \in SearchSites : Search!Ask(o) \/ Search!AskAgain(o) \/ Search!AskLast(o)
  <2>1. ~Search!ClaimParked /\ ~Search!Finalize /\ ~Search!Tick
    BY <1>2 DEF Search!ClaimParked, Search!Finalize, Search!Tick
  <2>2. \A o : ~Search!Capabilities(o) /\ ~Search!Retry(o)
    BY <1>2 DEF Search!Capabilities, Search!Retry
  <2>3. \A o, enabled : ~Search!SetEnabled(o, enabled)
    BY <1>2 DEF Search!SetEnabled
  <2> QED BY <1>3, <2>1, <2>2, <2>3 DEF Search!Next
<1> QED BY <1>4, <1>5

\* What a step of a search may do to a site.
SearchEnough ==
  \A s \in SearchSites : searchSearch[s].refused \/ "exact" \in searchSearch[s].found =>
    searchAsked'[s] <= searchAsked[s]
SearchCool ==
  \A s \in SearchSites : searchAsked'[s] > searchAsked[s] =>
    searchClock >= searchHush[s] \/ searchActive \in searchWanted

LEMMA SearchSpares ==
  ASSUME SearchInv, Search!Next
  PROVE  SearchEnough /\ SearchCool
<1>1. \A s \in SearchSites : searchAsked[s] \in Nat /\ searchAsked'[s] \in Nat
  <2>1. searchAsked' \in [SearchSites -> Nat]
    BY SearchStep DEF SearchInv, SearchTypeInv
  <2> QED BY <2>1, SearchTypes
<1>2. ASSUME NEW s \in SearchSites, searchSearch[s].refused \/ "exact" \in searchSearch[s].found
      PROVE  searchAsked'[s] <= searchAsked[s]
  <2>1. searchSearch[s].pc = "done"
    BY <1>2, SearchTypes DEF SearchResult
  <2> QED BY <2>1, SearchAsking
<1>3. ASSUME NEW s \in SearchSites, searchAsked'[s] > searchAsked[s]
      PROVE  searchClock >= searchHush[s] \/ searchActive \in searchWanted
  <2>1. searchSearch[s].pc # "done"
    <3>1. ~(searchAsked'[s] <= searchAsked[s])
      BY <1>1, <1>3
    <3> QED BY <3>1, SearchAsking
  <2>2. searchActive \in SearchItems
    BY <2>1, SearchTypes DEF SearchInv, SearchStateInv
  <2>3. searchHush[s] \in Nat /\ searchClock \in Nat
    BY SearchTypes
  <2> QED BY <2>1, <2>2, <2>3 DEF SearchInv, SearchHushInv
<1> QED BY <1>2, <1>3 DEF SearchEnough, SearchCool

-----------------------------------------------------------------------------
(* The site of both *)

\* What a step of a call may do to the site.
SiteQuietly ==
  \A c \in Calls : Site!At(c, "begin") /\ siteCall'[c].step = "request" => ~Site!Shut
SiteOnce ==
  \A c \in Calls : siteCall[c].kind = "search" /\ Site!At(c, "begin")
                    /\ siteCall'[c].step = "request" => ~siteCached

\* No request begins at a site that is shut, and no search is sent that is in the
\* cache (site_reliability.py:334, :416); the search of an item asks no site that has
\* failed or given enough, and no site that wants to be left alone, unless a user
\* wants the item searched now (unpack_matching.py).
THEOREM SiteStaysSpared == Spec => SiteIsSpared
<1> DEFINE SiteHalf == subject = "site" => SiteInv /\ SiteKeyInv
           SearchHalf == subject = "search" => SearchInv
           Inv == SiteHalf /\ SearchHalf
<1>1. Init => Inv
  <2> SUFFICES ASSUME Init PROVE (SiteInv /\ SiteKeyInv) /\ SearchInv
    OBVIOUS
  <2>1. Site!Init /\ Search!Init
    BY DEF Init
  <2>2. SiteKeyInv
    BY <2>1 DEF Site!Init, SiteKeyInv, Site!HasKey, Site!Idle
  <2> QED BY <2>1, <2>2, SiteInit, SearchBeginning
<1>2. Inv /\ [Next]_vars => Inv'
  <2>1. ASSUME SiteHalf, [Next]_vars, subject' = "site" PROVE SiteInv' /\ SiteKeyInv'
    <3>1. subject = "site" /\ [Site!Next]_(Site!vars)
      BY <2>1 DEF Next, vars, Others, site, Site!vars
    <3> QED BY <2>1, <3>1, SiteStep, SiteKeyNext
  <2>2. ASSUME SearchHalf, [Next]_vars, subject' = "search" PROVE SearchInv'
    <3>1. subject = "search" /\ [Search!Next]_(Search!vars)
      BY <2>2 DEF Next, vars, Others, search, Search!vars
    <3> QED BY <2>2, <3>1, SearchStep
  <2> QED BY <2>1, <2>2
<1>3. Inv /\ [Next]_vars => [SiteQuietly]_(Site!vars) /\ [SiteOnce]_(Site!vars)
  <2> SUFFICES ASSUME SiteHalf, [Next]_vars, ~UNCHANGED Site!vars PROVE SiteQuietly /\ SiteOnce
    OBVIOUS
  <2>1. subject = "site" /\ [Site!Next]_(Site!vars)
    BY DEF Next, vars, Others, site, Site!vars
  <2> QED BY <2>1, SiteSpares DEF SiteQuietly, SiteOnce, SiteSends, Site!At
<1>4. Inv /\ [Next]_vars => [SearchEnough]_(Search!vars) /\ [SearchCool]_(Search!vars)
  <2> SUFFICES ASSUME SearchHalf, [Next]_vars, ~UNCHANGED Search!vars PROVE SearchEnough /\ SearchCool
    OBVIOUS
  <2>1. subject = "search" /\ Search!Next
    BY DEF Next, vars, Others, search, Search!vars
  <2> QED BY <2>1, SearchSpares
<1>5. Spec => /\ [][SiteQuietly]_(Site!vars) /\ [][SiteOnce]_(Site!vars)
              /\ [][SearchEnough]_(Search!vars) /\ [][SearchCool]_(Search!vars)
  <2> HIDE DEF Inv
  <2> QED BY <1>1, <1>2, <1>3, <1>4, PTL DEF Spec
<1>6. Spec => Site!ShutIsQuiet /\ Site!SearchIsSentOnce
  BY <1>5 DEF Site!ShutIsQuiet, Site!SearchIsSentOnce, SiteQuietly, SiteOnce
<1>7. Spec => Search!EnoughIsEnough /\ Search!CooldownIsKept
  BY <1>5 DEF Search!EnoughIsEnough, Search!CooldownIsKept, SearchEnough, SearchCool
<1> QED BY <1>6, <1>7 DEF SiteIsSpared
=============================================================================
