------------------------ MODULE UnpackServicesProofs ------------------------
(***************************************************************************)
(* Proofs about the services of MCServices that serve the unpacking, for   *)
(* every value of their constants: definitions and the executions they     *)
(* start, templates, and the staging of missing files in a client.  A run  *)
(* follows one service; each section proves the invariant of one of them   *)
(* from its own initial states and steps.                                  *)
(***************************************************************************)
EXTENDS MCServices, FiniteSetTheorems, SequenceTheorems, TLAPS

-----------------------------------------------------------------------------
(* Definitions and their executions *)

\* What is there was edited at least once, and what the monitor waits with was
\* read of the definition as it is, or the definition has moved on since.
UnpackReadInv ==
  /\ \A d \in Definitions :
       unpackDefinitions[d].there => /\ unpackDefinitions[d].version > 0
                                     /\ unpackDefinitions[d].config \in Configs
  /\ \/ unpackTick = Unpack!NoTick
     \/ /\ unpackTick.of \in Definitions /\ unpackTick.version \in Nat \ {0}
        /\ unpackTick.version <= unpackDefinitions[unpackTick.of].version
        /\ unpackTick.version = unpackDefinitions[unpackTick.of].version
             => unpackTick.config = unpackDefinitions[unpackTick.of].config

UnpackInv ==
  /\ Unpack!TypeOK /\ unpackExecutions \in Seq(Unpack!Execution) /\ UnpackReadInv
  /\ Unpack!SnapshotIsWhole /\ Unpack!EnabledIsScheduled /\ Unpack!NoOrphans

LEMMA UnpackTypes ==
  ASSUME UnpackInv
  PROVE  /\ unpackDefinitions \in [Definitions -> Unpack!Definition]
         /\ \A d \in Definitions : /\ unpackDefinitions[d] \in Unpack!Definition
                                   /\ unpackDefinitions[d].version \in Nat
         /\ unpackExecutions \in Seq(Unpack!Execution) /\ Len(unpackExecutions) \in Nat
         /\ \A i \in 1..Len(unpackExecutions) :
              unpackExecutions[i] \in Unpack!Execution /\ unpackExecutions[i].of \in Definitions
         /\ unpackEdits \in 0..DefinitionEdits /\ unpackReopened \in 0..MaxReopened
         /\ unpackTick.of \in {"none"} \cup Definitions
<1>1. /\ unpackDefinitions \in [Definitions -> Unpack!Definition]
      /\ unpackEdits \in 0..DefinitionEdits /\ unpackReopened \in 0..MaxReopened
      /\ unpackTick.of \in {"none"} \cup Definitions
      /\ unpackExecutions \in Seq(Unpack!Execution)
  BY DEF UnpackInv, Unpack!TypeOK
<1>2. \A d \in Definitions : unpackDefinitions[d].version \in Nat
  BY <1>1 DEF Unpack!Definition
<1>3. \A i \in 1..Len(unpackExecutions) : unpackExecutions[i] \in Unpack!Execution
  BY <1>1
<1>4. \A i \in 1..Len(unpackExecutions) : unpackExecutions[i].of \in Definitions
  BY <1>3 DEF Unpack!Execution
<1> QED BY <1>1, <1>2, <1>3, <1>4

\* A step keeps the invariant when definitions only move on, and executions are
\* whole and have theirs.
LEMMA UnpackKeeps ==
  ASSUME UnpackInv, unpackDefinitions' \in [Definitions -> Unpack!Definition],
         \A d \in Definitions :
           /\ unpackDefinitions'[d].there =>
                /\ unpackDefinitions'[d].version > 0 /\ unpackDefinitions'[d].config \in Configs
                /\ unpackDefinitions'[d].status = "ENABLED" =>
                     /\ unpackDefinitions'[d].kind \in Unpack!Monitors
                     /\ unpackDefinitions'[d].next # "none"
           /\ \/ unpackDefinitions'[d].version > unpackDefinitions[d].version
              \/ /\ unpackDefinitions'[d].version = unpackDefinitions[d].version
                 /\ unpackDefinitions'[d].config = unpackDefinitions[d].config,
         unpackExecutions' \in Seq(Unpack!Execution),
         \A i \in 1..Len(unpackExecutions') :
           /\ unpackExecutions'[i].listed # 0 =>
                unpackExecutions'[i].listed = unpackExecutions'[i].config
           /\ unpackExecutions'[i].status # "GONE" =>
                unpackDefinitions'[unpackExecutions'[i].of].there,
         unpackTick' = unpackTick \/ unpackTick' = Unpack!NoTick,
         unpackEdits' \in 0..DefinitionEdits, unpackReopened' \in 0..MaxReopened
  PROVE  UnpackInv'
<1>1. Unpack!TypeOK'
  <2>1. unpackTick'.of \in {"none"} \cup Definitions
    BY UnpackTypes DEF Unpack!NoTick
  <2>2. \A i \in 1..Len(unpackExecutions') : unpackExecutions'[i] \in Unpack!Execution
    OBVIOUS
  <2> QED BY <2>1, <2>2 DEF Unpack!TypeOK
<1>2. UnpackReadInv'
  <2>1. CASE unpackTick' = Unpack!NoTick
    BY <2>1 DEF UnpackReadInv
  <2>2. CASE unpackTick' = unpackTick /\ unpackTick # Unpack!NoTick
    <3>1. /\ unpackTick.of \in Definitions /\ unpackTick.version \in Nat \ {0}
          /\ unpackTick.version <= unpackDefinitions[unpackTick.of].version
          /\ unpackTick.version = unpackDefinitions[unpackTick.of].version
               => unpackTick.config = unpackDefinitions[unpackTick.of].config
      BY <2>2 DEF UnpackInv, UnpackReadInv
    <3>2. PICK d \in Definitions : d = unpackTick.of
      BY <3>1
    <3>3. unpackDefinitions'[d].version \in Nat /\ unpackDefinitions[d].version \in Nat
      BY UnpackTypes DEF Unpack!Definition
    <3>4. /\ unpackTick.version <= unpackDefinitions'[d].version
          /\ unpackTick.version = unpackDefinitions'[d].version
               => unpackTick.config = unpackDefinitions'[d].config
      BY <3>1, <3>2, <3>3
    <3> QED BY <2>2, <3>1, <3>2, <3>4 DEF UnpackReadInv
  <2> QED BY <2>1, <2>2
<1>3. Unpack!SnapshotIsWhole' /\ Unpack!EnabledIsScheduled' /\ Unpack!NoOrphans'
  BY DEF Unpack!SnapshotIsWhole, Unpack!EnabledIsScheduled, Unpack!NoOrphans
<1> QED BY <1>1, <1>2, <1>3 DEF UnpackInv

\* What the invariant says of a state, for use in the steps.
LEMMA UnpackFacts ==
  ASSUME UnpackInv
  PROVE  /\ \A d \in Definitions :
              unpackDefinitions[d].there =>
                /\ unpackDefinitions[d].version > 0 /\ unpackDefinitions[d].config \in Configs
                /\ unpackDefinitions[d].status = "ENABLED" =>
                     /\ unpackDefinitions[d].kind \in Unpack!Monitors
                     /\ unpackDefinitions[d].next # "none"
         /\ \A i \in 1..Len(unpackExecutions) :
              /\ unpackExecutions[i].listed # 0 =>
                   unpackExecutions[i].listed = unpackExecutions[i].config
              /\ unpackExecutions[i].status # "GONE" =>
                   unpackDefinitions[unpackExecutions[i].of].there
BY DEF UnpackInv, UnpackReadInv, Unpack!SnapshotIsWhole, Unpack!EnabledIsScheduled, Unpack!NoOrphans

\* One definition changes, and stays or comes to be there.
LEMMA UnpackEdited ==
  ASSUME UnpackInv, NEW d \in Definitions, NEW new \in Unpack!Definition,
         unpackDefinitions' = [unpackDefinitions EXCEPT ![d] = new],
         new.there, new.version > 0, new.config \in Configs,
         new.status = "ENABLED" => new.kind \in Unpack!Monitors /\ new.next # "none",
         \/ new.version > unpackDefinitions[d].version
         \/ /\ new.version = unpackDefinitions[d].version
            /\ new.config = unpackDefinitions[d].config
  PROVE  /\ unpackDefinitions' \in [Definitions -> Unpack!Definition]
         /\ \A e \in Definitions :
              /\ unpackDefinitions[e].there => unpackDefinitions'[e].there
              /\ unpackDefinitions'[e].there =>
                   /\ unpackDefinitions'[e].version > 0 /\ unpackDefinitions'[e].config \in Configs
                   /\ unpackDefinitions'[e].status = "ENABLED" =>
                        /\ unpackDefinitions'[e].kind \in Unpack!Monitors
                        /\ unpackDefinitions'[e].next # "none"
              /\ \/ unpackDefinitions'[e].version > unpackDefinitions[e].version
                 \/ /\ unpackDefinitions'[e].version = unpackDefinitions[e].version
                    /\ unpackDefinitions'[e].config = unpackDefinitions[e].config
<1>1. /\ unpackDefinitions' \in [Definitions -> Unpack!Definition] /\ unpackDefinitions'[d] = new
      /\ \A e \in Definitions \ {d} : unpackDefinitions'[e] = unpackDefinitions[e]
  BY UnpackTypes
<1> QED BY <1>1, UnpackFacts, UnpackTypes

LEMMA UnpackEditSteps ==
  ASSUME UnpackInv, NEW d \in Definitions,
         \/ \E kind \in Unpack!Kinds, config \in Configs :
               Unpack!Create(d, kind, config) \/ Unpack!Update(d, kind, config)
         \/ Unpack!Enable(d) \/ Unpack!Pass(d)
  PROVE  UnpackInv'
<1> DEFINE old == unpackDefinitions[d]
<1>1. /\ old \in Unpack!Definition /\ old.version \in Nat
      /\ unpackEdits \in 0..DefinitionEdits /\ unpackReopened \in 0..MaxReopened
      /\ unpackExecutions \in Seq(Unpack!Execution)
      /\ \A i \in 1..Len(unpackExecutions) : unpackExecutions[i].of \in Definitions
  BY UnpackTypes
<1>2. UNCHANGED <<unpackExecutions, unpackTick, unpackReopened>>
  BY DEF Unpack!Create, Unpack!Update, Unpack!Enable, Unpack!Pass
<1>3. ASSUME NEW new \in Unpack!Definition,
             unpackDefinitions' = [unpackDefinitions EXCEPT ![d] = new],
             new.there, new.version > 0, new.config \in Configs,
             new.status = "ENABLED" => new.kind \in Unpack!Monitors /\ new.next # "none",
             new.version > old.version \/ (new.version = old.version /\ new.config = old.config),
             unpackEdits' \in 0..DefinitionEdits
      PROVE  UnpackInv'
  <2>1. /\ unpackDefinitions' \in [Definitions -> Unpack!Definition]
        /\ \A e \in Definitions :
              /\ unpackDefinitions[e].there => unpackDefinitions'[e].there
              /\ unpackDefinitions'[e].there =>
                   /\ unpackDefinitions'[e].version > 0 /\ unpackDefinitions'[e].config \in Configs
                   /\ unpackDefinitions'[e].status = "ENABLED" =>
                        /\ unpackDefinitions'[e].kind \in Unpack!Monitors
                        /\ unpackDefinitions'[e].next # "none"
              /\ \/ unpackDefinitions'[e].version > unpackDefinitions[e].version
                 \/ /\ unpackDefinitions'[e].version = unpackDefinitions[e].version
                    /\ unpackDefinitions'[e].config = unpackDefinitions[e].config
    BY <1>3, UnpackEdited
  <2>2. \A i \in 1..Len(unpackExecutions) :
          /\ unpackExecutions[i].listed # 0 =>
               unpackExecutions[i].listed = unpackExecutions[i].config
          /\ unpackExecutions[i].status # "GONE" => unpackDefinitions'[unpackExecutions[i].of].there
    BY <1>1, <2>1, UnpackFacts
  <2> QED BY <1>1, <1>2, <1>3, <2>1, <2>2, UnpackKeeps
<1>4. /\ old.there => /\ old.version > 0 /\ old.config \in Configs
                      /\ old.status = "ENABLED" => old.kind \in Unpack!Monitors /\ old.next # "none"
  BY UnpackFacts
<1>5. ASSUME NEW kind \in Unpack!Kinds, NEW config \in Configs, Unpack!Create(d, kind, config)
      PROVE  UnpackInv'
  <2> DEFINE new == [Unpack!Absent EXCEPT !.there = TRUE, !.version = 1, !.kind = kind,
                                          !.config = config]
  <2>1. /\ new \in Unpack!Definition /\ new.there /\ new.version = 1 /\ new.config = config
        /\ new.status = "PENDING_EXECUTION"
    BY DEF Unpack!Absent, Unpack!Definition
  <2>2. /\ unpackDefinitions' = [unpackDefinitions EXCEPT ![d] = new] /\ old.version = 0
        /\ unpackEdits < DefinitionEdits /\ unpackEdits' = unpackEdits + 1
    BY <1>5 DEF Unpack!Create
  <2>3. unpackEdits' \in 0..DefinitionEdits
    BY <1>1, <2>2, UnpackAssumption
  <2> HIDE DEF new, old
  <2>4. new.version > 0 /\ new.version > old.version /\ new.status # "ENABLED"
    BY <2>1, <2>2
  <2> QED BY <1>3, <2>1, <2>2, <2>3, <2>4
<1>6. ASSUME NEW kind \in Unpack!Kinds, NEW config \in Configs, Unpack!Update(d, kind, config)
      PROVE  UnpackInv'
  <2>1. PICK status \in {"PENDING_EXECUTION", "ENABLED"}, next \in {"none", "later", "due"} :
          /\ status = Unpack!Schedule(old, kind).status /\ next = Unpack!Schedule(old, kind).next
          /\ status = "ENABLED" => kind \in Unpack!Monitors /\ next # "none"
    BY <1>1 DEF Unpack!Schedule, Unpack!Definition
  <2> DEFINE new == [old EXCEPT !.kind = kind, !.config = config, !.version = old.version + 1,
                                !.status = status, !.next = next]
  <2>2. old.version + 1 \in Nat /\ old.version + 1 > old.version /\ old.version + 1 > 0
    BY <1>1
  <2>3. /\ new \in Unpack!Definition /\ new.there = old.there /\ new.version = old.version + 1
        /\ new.config = config /\ new.status = status /\ new.next = next /\ new.kind = kind
    BY <1>1, <2>2 DEF Unpack!Definition
  <2>4. /\ unpackDefinitions' = [unpackDefinitions EXCEPT ![d] = new] /\ old.there
        /\ unpackEdits < DefinitionEdits /\ unpackEdits' = unpackEdits + 1
    <3> DEFINE sched == Unpack!Schedule(unpackDefinitions[d], kind)
    <3>1. /\ unpackDefinitions' = [unpackDefinitions EXCEPT
               ![d].kind = kind, ![d].config = config, ![d].version = @ + 1,
               ![d].status = sched.status, ![d].next = sched.next]
          /\ old.there /\ unpackEdits < DefinitionEdits /\ unpackEdits' = unpackEdits + 1
      BY <1>6 DEF Unpack!Update
    <3>2. status = sched.status /\ next = sched.next
      BY <2>1
    <3> HIDE DEF sched
    <3>3. unpackDefinitions' = [unpackDefinitions EXCEPT ![d] = new]
      BY <3>1, <3>2, UnpackTypes
    <3> QED BY <3>1, <3>3
  <2>5. unpackEdits' \in 0..DefinitionEdits
    BY <1>1, <2>4, UnpackAssumption
  <2> HIDE DEF new, old
  <2> QED BY <1>3, <2>1, <2>2, <2>3, <2>4, <2>5
<1>7. CASE Unpack!Enable(d)
  <2> DEFINE new == [old EXCEPT !.status = "ENABLED", !.next = "later", !.version = old.version + 1]
  <2>1. old.version + 1 \in Nat /\ old.version + 1 > old.version /\ old.version + 1 > 0
    BY <1>1
  <2>2. /\ new \in Unpack!Definition /\ new.there = old.there /\ new.version = old.version + 1
        /\ new.config = old.config /\ new.kind = old.kind /\ new.next = "later"
    BY <1>1, <2>1 DEF Unpack!Definition
  <2>3. /\ unpackDefinitions' = [unpackDefinitions EXCEPT ![d] = new] /\ old.there
        /\ old.kind \in Unpack!Monitors /\ UNCHANGED unpackEdits
    BY <1>7, UnpackTypes DEF Unpack!Enable
  <2> HIDE DEF new, old
  <2> QED BY <1>1, <1>3, <1>4, <2>1, <2>2, <2>3
<1>8. CASE Unpack!Pass(d)
  <2> DEFINE new == [old EXCEPT !.next = "due"]
  <2>1. /\ new \in Unpack!Definition /\ new.there = old.there /\ new.version = old.version
        /\ new.config = old.config /\ new.kind = old.kind /\ new.next = "due"
        /\ new.status = old.status
    BY <1>1 DEF Unpack!Definition
  <2>2. /\ unpackDefinitions' = [unpackDefinitions EXCEPT ![d] = new] /\ old.there
        /\ UNCHANGED unpackEdits
    BY <1>8 DEF Unpack!Pass
  <2> HIDE DEF new, old
  <2> QED BY <1>1, <1>3, <1>4, <2>1, <2>2
<1> QED BY <1>5, <1>6, <1>7, <1>8

LEMMA UnpackDeletes == ASSUME UnpackInv, NEW d \in Definitions, Unpack!Delete(d) PROVE UnpackInv'
<1> DEFINE old == unpackDefinitions[d]
           new == [old EXCEPT !.there = FALSE]
           n == Len(unpackExecutions)
           gone(i) == [unpackExecutions[i] EXCEPT !.status = "GONE"]
           left == [i \in 1..n |-> IF unpackExecutions[i].of = d THEN gone(i) ELSE unpackExecutions[i]]
<1>1. /\ unpackDefinitions \in [Definitions -> Unpack!Definition]
      /\ old \in Unpack!Definition /\ old.version \in Nat
      /\ unpackEdits \in 0..DefinitionEdits /\ unpackReopened \in 0..MaxReopened /\ n \in Nat
      /\ \A i \in 1..n : unpackExecutions[i] \in Unpack!Execution
  BY UnpackTypes
<1>2. /\ UNCHANGED <<unpackTick, unpackReopened>> /\ unpackExecutions' = left
      /\ unpackDefinitions' = [unpackDefinitions EXCEPT ![d] = new]
      /\ unpackEdits < DefinitionEdits /\ unpackEdits' = unpackEdits + 1
  BY DEF Unpack!Delete
<1>3. unpackEdits' \in 0..DefinitionEdits
  BY <1>1, <1>2, UnpackAssumption
<1>4. /\ new \in Unpack!Definition /\ ~new.there /\ new.version = old.version
      /\ new.config = old.config
  BY <1>1 DEF Unpack!Definition
<1>5. ASSUME NEW i \in 1..n
      PROVE  /\ gone(i) \in Unpack!Execution /\ gone(i).status = "GONE"
             /\ gone(i).of = unpackExecutions[i].of /\ gone(i).listed = unpackExecutions[i].listed
             /\ gone(i).config = unpackExecutions[i].config
  BY <1>1 DEF Unpack!Execution
<1> HIDE DEF new, gone, old
<1>6. /\ unpackDefinitions' \in [Definitions -> Unpack!Definition] /\ unpackDefinitions'[d] = new
      /\ \A e \in Definitions \ {d} : unpackDefinitions'[e] = unpackDefinitions[e]
  BY <1>1, <1>2, <1>4
<1>7. left \in Seq(Unpack!Execution) /\ Len(left) = n
  BY <1>1, <1>5
<1>8. ASSUME NEW i \in 1..n
      PROVE  /\ left[i].listed # 0 => left[i].listed = left[i].config
             /\ left[i].status # "GONE" => unpackDefinitions'[left[i].of].there
  <2>1. /\ unpackExecutions[i].listed # 0 => unpackExecutions[i].listed = unpackExecutions[i].config
        /\ unpackExecutions[i].status # "GONE" => unpackDefinitions[unpackExecutions[i].of].there
        /\ unpackExecutions[i].of \in Definitions
    BY UnpackFacts, UnpackTypes
  <2>2. CASE unpackExecutions[i].of = d
    BY <1>5, <2>1, <2>2
  <2>3. CASE unpackExecutions[i].of # d
    BY <1>6, <2>1, <2>3
  <2> QED BY <2>2, <2>3
<1>9. \A e \in Definitions :
        /\ unpackDefinitions'[e].there =>
             /\ unpackDefinitions'[e].version > 0 /\ unpackDefinitions'[e].config \in Configs
             /\ unpackDefinitions'[e].status = "ENABLED" =>
                  /\ unpackDefinitions'[e].kind \in Unpack!Monitors
                  /\ unpackDefinitions'[e].next # "none"
        /\ unpackDefinitions'[e].version = unpackDefinitions[e].version
        /\ unpackDefinitions'[e].config = unpackDefinitions[e].config
  BY <1>4, <1>6, UnpackFacts DEF old
<1> HIDE DEF left, n
<1> QED BY <1>2, <1>3, <1>6, <1>7, <1>8, <1>9, UnpackKeeps, UnpackTypes

\* Executions move on, or are taken up again.
LEMMA UnpackMoves ==
  ASSUME UnpackInv, NEW i \in 1..Len(unpackExecutions),
         Unpack!Reopen(i) \/ \E to \in {"MATCHING", "WORKING"} \cup Unpack!Ended : Unpack!Advance(i, to)
  PROVE  UnpackInv'
<1>1. PICK to \in {"MATCHING", "WORKING"} \cup Unpack!Ended :
        /\ unpackExecutions' = [unpackExecutions EXCEPT ![i].status = to]
        /\ unpackExecutions[i].status # "GONE"
        /\ UNCHANGED <<unpackDefinitions, unpackTick, unpackEdits>>
        /\ unpackReopened' = unpackReopened
           \/ (unpackReopened < MaxReopened /\ unpackReopened' = unpackReopened + 1)
  <2>1. CASE Unpack!Reopen(i)
    BY <2>1 DEF Unpack!Reopen, Unpack!Ended
  <2>2. ASSUME NEW to \in {"MATCHING", "WORKING"} \cup Unpack!Ended, Unpack!Advance(i, to)
        PROVE  unpackExecutions[i].status # "GONE"
    BY <2>2 DEF Unpack!Advance, Unpack!Moves
  <2> QED BY <2>1, <2>2 DEF Unpack!Advance
<1> DEFINE e == [unpackExecutions[i] EXCEPT !.status = to]
<1>2. /\ unpackExecutions \in Seq(Unpack!Execution) /\ unpackExecutions[i] \in Unpack!Execution
      /\ unpackEdits \in 0..DefinitionEdits /\ unpackReopened \in 0..MaxReopened
      /\ unpackDefinitions \in [Definitions -> Unpack!Definition]
  BY UnpackTypes
<1>3. /\ e \in Unpack!Execution /\ e.of = unpackExecutions[i].of
      /\ e.listed = unpackExecutions[i].listed /\ e.config = unpackExecutions[i].config
  BY <1>2 DEF Unpack!Execution, Unpack!Ended
<1>4. unpackExecutions' = [unpackExecutions EXCEPT ![i] = e]
  BY <1>1
<1> HIDE DEF e
<1>5. /\ unpackExecutions' \in Seq(Unpack!Execution) /\ Len(unpackExecutions') = Len(unpackExecutions)
      /\ unpackExecutions'[i] = e
      /\ \A j \in 1..Len(unpackExecutions) : j # i => unpackExecutions'[j] = unpackExecutions[j]
  BY <1>2, <1>3, <1>4
<1>6. unpackReopened' \in 0..MaxReopened
  BY <1>1, <1>2, UnpackAssumption
<1>7. \A j \in 1..Len(unpackExecutions') :
        /\ unpackExecutions'[j].listed # 0 => unpackExecutions'[j].listed = unpackExecutions'[j].config
        /\ unpackExecutions'[j].status # "GONE" => unpackDefinitions[unpackExecutions'[j].of].there
  BY <1>1, <1>3, <1>5, UnpackFacts
<1> QED BY <1>1, <1>2, <1>5, <1>6, <1>7, UnpackKeeps, UnpackFacts

\* An execution starts: with what its definition is, and a list that was made for it.
LEMMA UnpackStarts ==
  ASSUME UnpackInv, NEW d \in Definitions, NEW listed \in {0} \cup Configs, unpackDefinitions[d].there,
         Unpack!Start(d, listed), listed # 0 => listed = unpackDefinitions[d].config,
         unpackDefinitions' \in [Definitions -> Unpack!Definition],
         \A e \in Definitions :
              /\ unpackDefinitions[e].there => unpackDefinitions'[e].there
              /\ unpackDefinitions'[e].there =>
                   /\ unpackDefinitions'[e].version > 0 /\ unpackDefinitions'[e].config \in Configs
                   /\ unpackDefinitions'[e].status = "ENABLED" =>
                        /\ unpackDefinitions'[e].kind \in Unpack!Monitors
                        /\ unpackDefinitions'[e].next # "none"
              /\ \/ unpackDefinitions'[e].version > unpackDefinitions[e].version
                 \/ /\ unpackDefinitions'[e].version = unpackDefinitions[e].version
                    /\ unpackDefinitions'[e].config = unpackDefinitions[e].config,
         unpackTick' = unpackTick \/ unpackTick' = Unpack!NoTick,
         UNCHANGED <<unpackEdits, unpackReopened>>
  PROVE  UnpackInv'
<1> DEFINE e == [of |-> d, config |-> unpackDefinitions[d].config, listed |-> listed,
                 status |-> "DISCOVERING"]
<1>1. /\ unpackExecutions \in Seq(Unpack!Execution) /\ unpackEdits \in 0..DefinitionEdits
      /\ unpackReopened \in 0..MaxReopened
      /\ \A i \in 1..Len(unpackExecutions) : unpackExecutions[i].of \in Definitions
  BY UnpackTypes
<1>2. e \in Unpack!Execution /\ unpackExecutions' = Append(unpackExecutions, e)
  BY UnpackFacts DEF Unpack!Execution, Unpack!Start
<1>3. /\ e.of = d /\ e.listed = listed /\ e.config = unpackDefinitions[d].config
  OBVIOUS
<1> HIDE DEF e
<1>4. /\ unpackExecutions' \in Seq(Unpack!Execution)
      /\ \A i \in 1..Len(unpackExecutions') :
           unpackExecutions'[i] = e
           \/ (i \in 1..Len(unpackExecutions) /\ unpackExecutions'[i] = unpackExecutions[i])
  BY <1>1, <1>2
<1>5. ASSUME NEW i \in 1..Len(unpackExecutions')
      PROVE  /\ unpackExecutions'[i].listed # 0 =>
                  unpackExecutions'[i].listed = unpackExecutions'[i].config
             /\ unpackExecutions'[i].status # "GONE" =>
                  unpackDefinitions'[unpackExecutions'[i].of].there
  <2>1. CASE unpackExecutions'[i] = e
    BY <1>3, <2>1
  <2>2. CASE i \in 1..Len(unpackExecutions) /\ unpackExecutions'[i] = unpackExecutions[i]
    BY <1>1, <2>2, UnpackFacts
  <2> QED BY <1>4, <2>1, <2>2
<1> QED BY <1>1, <1>4, <1>5, UnpackKeeps

\* What a due definition becomes, whether it starts one or not.
LEMMA UnpackTriggers ==
  ASSUME UnpackInv, NEW d \in Definitions, NEW listed \in {0} \cup Configs, Unpack!Due(d),
         Unpack!Trigger(d, listed), listed # 0 => listed = unpackDefinitions[d].config,
         unpackTick' = unpackTick \/ unpackTick' = Unpack!NoTick,
         UNCHANGED <<unpackEdits, unpackReopened>>
  PROVE  UnpackInv'
<1> DEFINE old == unpackDefinitions[d]
           new == [old EXCEPT !.next = "later", !.version = old.version + 1]
<1>1. /\ old \in Unpack!Definition /\ old.version \in Nat /\ old.there /\ old.config \in Configs
      /\ old.kind \in Unpack!Monitors /\ old.version + 1 \in Nat
      /\ old.version + 1 > old.version /\ old.version + 1 > 0
  BY UnpackTypes, UnpackFacts DEF Unpack!Due
<1>2. /\ new \in Unpack!Definition /\ new.there = old.there /\ new.version = old.version + 1
      /\ new.config = old.config /\ new.kind = old.kind /\ new.next = "later"
  BY <1>1 DEF Unpack!Definition
<1>3. unpackDefinitions' = [unpackDefinitions EXCEPT ![d] = new]
  BY UnpackTypes DEF Unpack!Trigger
<1> HIDE DEF new
<1>4. /\ unpackDefinitions' \in [Definitions -> Unpack!Definition]
      /\ \A e \in Definitions :
              /\ unpackDefinitions[e].there => unpackDefinitions'[e].there
              /\ unpackDefinitions'[e].there =>
                   /\ unpackDefinitions'[e].version > 0 /\ unpackDefinitions'[e].config \in Configs
                   /\ unpackDefinitions'[e].status = "ENABLED" =>
                        /\ unpackDefinitions'[e].kind \in Unpack!Monitors
                        /\ unpackDefinitions'[e].next # "none"
              /\ \/ unpackDefinitions'[e].version > unpackDefinitions[e].version
                 \/ /\ unpackDefinitions'[e].version = unpackDefinitions[e].version
                    /\ unpackDefinitions'[e].config = unpackDefinitions[e].config
  BY <1>1, <1>2, <1>3, UnpackEdited
<1>5. CASE Unpack!Start(d, listed)
  BY <1>1, <1>4, <1>5, UnpackStarts
<1>6. CASE UNCHANGED unpackExecutions
  <2>1. /\ unpackExecutions \in Seq(Unpack!Execution) /\ unpackEdits \in 0..DefinitionEdits
        /\ unpackReopened \in 0..MaxReopened
        /\ \A i \in 1..Len(unpackExecutions) : unpackExecutions[i].of \in Definitions
    BY UnpackTypes
  <2>2. \A i \in 1..Len(unpackExecutions) :
          /\ unpackExecutions[i].listed # 0 => unpackExecutions[i].listed = unpackExecutions[i].config
          /\ unpackExecutions[i].status # "GONE" => unpackDefinitions'[unpackExecutions[i].of].there
    BY <1>4, <2>1, UnpackFacts
  <2> QED BY <1>4, <1>6, <2>1, <2>2, UnpackKeeps
<1> QED BY <1>5, <1>6 DEF Unpack!Trigger

LEMMA UnpackMonitors ==
  ASSUME UnpackInv,
         \/ Unpack!Listed \/ Unpack!NotListed
         \/ \E d \in Definitions : Unpack!Run(d) \/ Unpack!TriggerDirectory(d) \/ Unpack!Load(d)
  PROVE  UnpackInv'
<1>1. /\ unpackExecutions \in Seq(Unpack!Execution) /\ unpackEdits \in 0..DefinitionEdits
      /\ unpackReopened \in 0..MaxReopened
      /\ unpackDefinitions \in [Definitions -> Unpack!Definition]
      /\ \A d \in Definitions : unpackDefinitions[d].version \in Nat
  BY UnpackTypes
<1>2. CASE UNCHANGED <<unpackDefinitions, unpackExecutions, unpackEdits, unpackReopened>>
           /\ unpackTick' = Unpack!NoTick
  BY <1>1, <1>2, UnpackKeeps, UnpackFacts
<1>3. CASE Unpack!Listed
  <2>1. CASE ~Unpack!Unchanged(unpackTick.of)
    BY <1>2, <1>3, <2>1 DEF Unpack!Listed
  <2>2. CASE Unpack!Unchanged(unpackTick.of)
    <3>1. PICK d \in Definitions : d = unpackTick.of
      BY <1>3 DEF Unpack!Listed, UnpackInv, UnpackReadInv
    <3>2. /\ Unpack!Due(d) /\ unpackTick.config = unpackDefinitions[d].config
          /\ Unpack!Trigger(d, unpackTick.config) /\ unpackTick' = Unpack!NoTick
          /\ UNCHANGED <<unpackEdits, unpackReopened>>
      BY <1>3, <2>2, <3>1 DEF Unpack!Listed, Unpack!Unchanged, UnpackInv, UnpackReadInv
    <3>3. PICK listed \in Configs : listed = unpackTick.config
      BY <3>2, UnpackFacts DEF Unpack!Due
    <3> QED BY <3>2, <3>3, UnpackTriggers
  <2> QED BY <2>1, <2>2
<1>4. ASSUME NEW d \in Definitions, Unpack!Run(d) PROVE UnpackInv'
  <2>1. PICK listed \in {0} \cup Configs :
          /\ listed = IF unpackDefinitions[d].kind = "template" THEN unpackDefinitions[d].config ELSE 0
          /\ unpackDefinitions[d].there
    BY <1>4, UnpackFacts DEF Unpack!Run
  <2>2. Unpack!Start(d, listed)
    BY <1>4, <2>1 DEF Unpack!Run
  <2>3. UNCHANGED <<unpackDefinitions, unpackTick, unpackEdits, unpackReopened>>
    BY <1>4 DEF Unpack!Run
  <2> QED BY <1>1, <2>1, <2>2, <2>3, UnpackStarts, UnpackFacts
<1>5. ASSUME NEW d \in Definitions, Unpack!TriggerDirectory(d) PROVE UnpackInv'
  BY <1>5, UnpackTriggers DEF Unpack!TriggerDirectory
<1>6. ASSUME NEW d \in Definitions, Unpack!Load(d) PROVE UnpackInv'
  <2>1. /\ unpackTick' = [of |-> d, version |-> unpackDefinitions[d].version,
                          config |-> unpackDefinitions[d].config]
        /\ UNCHANGED <<unpackDefinitions, unpackExecutions, unpackEdits, unpackReopened>>
        /\ unpackDefinitions[d].version \in Nat \ {0}
    BY <1>1, <1>6, UnpackFacts DEF Unpack!Load, Unpack!Due
  <2>2. Unpack!TypeOK' /\ UnpackReadInv'
    BY <1>1, <2>1 DEF UnpackInv, UnpackReadInv, Unpack!TypeOK
  <2> QED BY <2>1, <2>2 DEF UnpackInv, Unpack!SnapshotIsWhole, Unpack!EnabledIsScheduled,
             Unpack!NoOrphans
<1> QED BY <1>2, <1>3, <1>4, <1>5, <1>6 DEF Unpack!NotListed

LEMMA UnpackInit == ASSUME Unpack!Init PROVE UnpackInv
<1>1. /\ unpackDefinitions = [d \in Definitions |-> Unpack!Absent]
      /\ unpackExecutions = <<>> /\ unpackTick = Unpack!NoTick /\ unpackEdits = 0
      /\ unpackReopened = 0
  BY DEF Unpack!Init
<1>2. Unpack!Absent \in Unpack!Definition /\ ~Unpack!Absent.there
  BY DEF Unpack!Absent, Unpack!Definition, Unpack!Kinds
<1>3. Unpack!TypeOK
  BY <1>1, <1>2, UnpackAssumption DEF Unpack!TypeOK, Unpack!NoTick
<1> QED BY <1>1, <1>2, <1>3 DEF UnpackInv, UnpackReadInv, Unpack!SnapshotIsWhole,
           Unpack!EnabledIsScheduled, Unpack!NoOrphans

LEMMA UnpackStep == UnpackInv /\ [Unpack!Next]_(Unpack!vars) => UnpackInv'
<1> SUFFICES ASSUME UnpackInv, [Unpack!Next]_(Unpack!vars) PROVE UnpackInv'
  OBVIOUS
<1>1. CASE UNCHANGED Unpack!vars
  BY <1>1 DEF Unpack!vars, UnpackInv, UnpackReadInv, Unpack!TypeOK, Unpack!SnapshotIsWhole,
     Unpack!EnabledIsScheduled, Unpack!NoOrphans
<1>2. CASE Unpack!Next
  BY <1>2, UnpackEditSteps, UnpackDeletes, UnpackMoves, UnpackMonitors DEF Unpack!Next
<1> QED BY <1>1, <1>2

\* A start finds nothing that is still going for its definition.
LEMMA UnpackStartsAlone ==
  ASSUME UnpackInv, Unpack!Next, Len(unpackExecutions') > Len(unpackExecutions)
  PROVE  Unpack!Live(unpackExecutions'[Len(unpackExecutions')].of) = {}
<1>1. /\ unpackExecutions \in Seq(Unpack!Execution) /\ Len(unpackExecutions) \in Nat
  BY UnpackTypes
<1>2. ASSUME NEW d, NEW listed, Unpack!Start(d, listed), Unpack!Live(d) = {}
      PROVE  Unpack!Live(unpackExecutions'[Len(unpackExecutions')].of) = {}
  <2>1. unpackExecutions'[Len(unpackExecutions')].of = d
    BY <1>1, <1>2 DEF Unpack!Start
  <2> QED BY <1>2, <2>1
<1>3. ASSUME NEW d, NEW listed, Unpack!Trigger(d, listed)
      PROVE  Unpack!Live(unpackExecutions'[Len(unpackExecutions')].of) = {}
  <2>1. ~(Len(unpackExecutions) > Len(unpackExecutions))
    BY <1>1
  <2> QED BY <1>2, <1>3, <2>1 DEF Unpack!Trigger, Unpack!Overlaps
<1>4. ASSUME NEW d \in Definitions, Unpack!Delete(d) PROVE FALSE
  <2>1. Len(unpackExecutions') = Len(unpackExecutions)
    BY <1>1, <1>4 DEF Unpack!Delete
  <2> QED BY <1>1, <2>1
<1>5. ASSUME NEW i \in 1..Len(unpackExecutions), NEW to,
             unpackExecutions' = [unpackExecutions EXCEPT ![i].status = to] PROVE FALSE
  <2>1. Len(unpackExecutions') = Len(unpackExecutions)
    BY <1>1, <1>5
  <2> QED BY <1>1, <2>1
<1>6. ASSUME UNCHANGED unpackExecutions PROVE FALSE
  BY <1>1, <1>6
<1>7. ASSUME NEW d \in Definitions, Unpack!Run(d)
      PROVE  Unpack!Live(unpackExecutions'[Len(unpackExecutions')].of) = {}
  BY <1>2, <1>7 DEF Unpack!Run
<1>8. ASSUME Unpack!Listed
      PROVE  Unpack!Live(unpackExecutions'[Len(unpackExecutions')].of) = {}
  BY <1>3, <1>6, <1>8 DEF Unpack!Listed
<1>9. ASSUME NEW i \in 1..Len(unpackExecutions),
             Unpack!Reopen(i) \/ \E to \in {"MATCHING", "WORKING"} \cup Unpack!Ended : Unpack!Advance(i, to)
      PROVE  FALSE
  BY <1>5, <1>9 DEF Unpack!Reopen, Unpack!Advance
<1>10. ASSUME NEW d \in Definitions,
              \/ \E kind \in Unpack!Kinds, config \in Configs :
                    Unpack!Create(d, kind, config) \/ Unpack!Update(d, kind, config)
              \/ Unpack!Enable(d) \/ Unpack!Pass(d) \/ Unpack!Load(d) \/ Unpack!NotListed
       PROVE  FALSE
  BY <1>6, <1>10 DEF Unpack!Create, Unpack!Update, Unpack!Enable, Unpack!Pass, Unpack!Load,
     Unpack!NotListed
<1>11. ASSUME NEW d \in Definitions, Unpack!TriggerDirectory(d)
       PROVE  Unpack!Live(unpackExecutions'[Len(unpackExecutions')].of) = {}
  BY <1>3, <1>11 DEF Unpack!TriggerDirectory
<1>12. CASE Unpack!NotListed
  BY <1>6, <1>12 DEF Unpack!NotListed
<1> QED BY <1>4, <1>7, <1>8, <1>9, <1>10, <1>11, <1>12 DEF Unpack!Next

\* The definitions and executions fit whatever is edited while the monitor waits for
\* a list (unpack_definitions.py, unpack_monitor.py).
THEOREM ExecutionsStaySound == Spec => []ExecutionsAreSound
<1> DEFINE Inv == subject = "unpack" => UnpackInv
<1>1. Init => Inv
  BY UnpackInit DEF Init
<1>2. Inv /\ [Next]_vars => Inv'
  <2> SUFFICES ASSUME Inv, [Next]_vars, subject' = "unpack" PROVE UnpackInv'
    OBVIOUS
  <2>1. subject = "unpack" /\ [Unpack!Next]_(Unpack!vars)
    BY DEF Next, vars, Others, unpack, Unpack!vars
  <2> QED BY <2>1, UnpackStep
<1>3. Inv => ExecutionsAreSound
  BY DEF UnpackInv, ExecutionsAreSound
<1> QED BY <1>1, <1>2, <1>3, PTL DEF Spec

\* No execution starts beside another one of its definition, by hand or by the
\* monitor (unpack_monitor.py).
THEOREM ExecutionsStartAlone == Spec => StartsAlone
<1> DEFINE Inv == subject = "unpack" => UnpackInv
<1>1. Init => Inv
  BY UnpackInit DEF Init
<1>2. Inv /\ [Next]_vars => Inv'
  <2> SUFFICES ASSUME Inv, [Next]_vars, subject' = "unpack" PROVE UnpackInv'
    OBVIOUS
  <2>1. subject = "unpack" /\ [Unpack!Next]_(Unpack!vars)
    BY DEF Next, vars, Others, unpack, Unpack!vars
  <2> QED BY <2>1, UnpackStep
<1>3. Inv /\ [Next]_vars => [Len(unpackExecutions') > Len(unpackExecutions) =>
        Unpack!Live(unpackExecutions'[Len(unpackExecutions')].of) = {}]_(Unpack!vars)
  <2> SUFFICES ASSUME Inv, [Next]_vars, ~UNCHANGED Unpack!vars,
                      Len(unpackExecutions') > Len(unpackExecutions)
               PROVE  Unpack!Live(unpackExecutions'[Len(unpackExecutions')].of) = {}
    OBVIOUS
  <2>1. subject = "unpack" /\ Unpack!Next
    BY DEF Next, vars, Others, unpack, Unpack!vars
  <2> QED BY <2>1, UnpackStartsAlone
<1> QED BY <1>1, <1>2, <1>3, PTL DEF Spec, StartsAlone, Unpack!StartsAlone

-----------------------------------------------------------------------------
(* Templates and the jobs that import them *)

\* An open job imports into the last version of its template, no other does, and
\* what the driver asks for is left to be asked for.
LibraryJobInv ==
  /\ \A i \in 1..Len(libraryJobs) :
       /\ libraryJobs[i].version \in 1..Len(libraryVersions[libraryJobs[i].template])
       /\ libraryJobs[i].left \subseteq libraryJobs[i].ids
       /\ libraryJobs[i].ids \subseteq libraryPast[libraryJobs[i].template].asked
       /\ ~libraryJobs[i].done =>
            /\ libraryJobs[i].version = Len(libraryVersions[libraryJobs[i].template])
            /\ Library!Current(libraryJobs[i].template).status = "IMPORTING"
       /\ \A j \in 1..Len(libraryJobs) :
            i # j /\ ~libraryJobs[i].done /\ ~libraryJobs[j].done
              => libraryJobs[i].template # libraryJobs[j].template
  /\ \/ libraryTick = Library!NoTick
     \/ /\ libraryTick.job \in 1..Len(libraryJobs) /\ ~libraryJobs[libraryTick.job].done
        /\ libraryTick.torrent \in libraryJobs[libraryTick.job].left

\* As long as no gap was papered over, the newest version expects at least as many
\* torrents as were ever asked for, and all that it has was asked for.
LibraryCurrentInv == \A t \in Templates :
  libraryVersions[t] # <<>> =>
    /\ Library!Current(t).seeds \subseteq libraryPast[t].asked
    /\ ~libraryPast[t].papered => Library!Current(t).expected >= Cardinality(libraryPast[t].asked)
    /\ Library!Current(t).status = "READY" =>
         Library!Current(t).count >= Library!Current(t).expected

LibraryTypeInv ==
  /\ libraryVersions \in [Templates -> Seq(Library!Version)]
  /\ libraryJobs \in Seq(Library!Job) /\ libraryPast \in [Templates -> Library!Past]
  /\ libraryTick \in [job : 0..MaxJobs, torrent : {0} \cup Torrents]
  /\ libraryFaults \in 0..ImportFaults
  /\ Len(libraryJobs) <= MaxJobs
  /\ \A t \in Templates : Len(libraryVersions[t]) <= Len(libraryJobs)

LibraryInv ==
  /\ LibraryTypeInv /\ LibraryJobInv /\ LibraryCurrentInv
  /\ Library!CountIsSeeds /\ Library!NoneSkipped

\* The module's own instance of the cardinality is the cardinality.
LEMMA LibraryCardinality == ASSUME NEW S PROVE Library!Cardinality(S) = Cardinality(S)
BY DEF Library!Cardinality, Cardinality

\* Torrents are few, and counting those that are new counts the union.
LEMMA LibraryCounts ==
  ASSUME NEW seeds \in SUBSET Torrents, NEW ids \in SUBSET Torrents
  PROVE  /\ IsFiniteSet(seeds) /\ Cardinality(seeds) \in 0..Cardinality(Torrents)
         /\ Cardinality(Torrents) \in Nat /\ Cardinality(ids \ seeds) \in Nat
         /\ Cardinality(seeds) + Cardinality(ids \ seeds) = Cardinality(seeds \cup ids)
         /\ Cardinality(seeds \cup ids) \in 0..Cardinality(Torrents)
<1> DEFINE more == ids \ seeds
<1>1. IsFiniteSet(Torrents) /\ Cardinality(Torrents) \in Nat
  BY LibraryAssumption, FS_CardinalityType
<1>2. ASSUME NEW S \in SUBSET Torrents
      PROVE  /\ IsFiniteSet(S) /\ Cardinality(S) \in Nat
             /\ Cardinality(S) <= Cardinality(Torrents)
  BY <1>1, FS_Subset, FS_CardinalityType
<1>3. /\ IsFiniteSet(seeds) /\ Cardinality(seeds) \in Nat /\ Cardinality(more) \in Nat
      /\ Cardinality(seeds) <= Cardinality(Torrents) /\ IsFiniteSet(more)
  BY <1>2
<1>4. seeds \cup ids = seeds \cup more /\ seeds \cap more = {}
  OBVIOUS
<1>5. Cardinality(seeds \cup more) = Cardinality(seeds) + Cardinality(more) - Cardinality(seeds \cap more)
  BY <1>3, FS_Union
<1>6. Cardinality(seeds \cap more) = 0
  BY <1>4, FS_EmptySet
<1>7. seeds \cup ids \in SUBSET Torrents
  OBVIOUS
<1>8. /\ Cardinality(seeds \cup ids) \in Nat
      /\ Cardinality(seeds \cup ids) <= Cardinality(Torrents)
  BY <1>2, <1>7
<1>9. Cardinality(seeds \cup ids) = Cardinality(seeds) + Cardinality(more)
  <2>1. Cardinality(seeds \cup more) = Cardinality(seeds) + Cardinality(more)
    BY <1>3, <1>5, <1>6
  <2>2. Cardinality(seeds \cup ids) = Cardinality(seeds \cup more)
    BY <1>4, Zenon
  <2> QED BY <2>1, <2>2
<1> QED BY <1>1, <1>3, <1>8, <1>9

LEMMA LibraryTypes ==
  ASSUME LibraryInv
  PROVE  /\ libraryVersions \in [Templates -> Seq(Library!Version)]
         /\ \A t \in Templates :
              /\ libraryVersions[t] \in Seq(Library!Version) /\ Len(libraryVersions[t]) \in Nat
              /\ \A k \in 1..Len(libraryVersions[t]) :
                   /\ libraryVersions[t][k] \in Library!Version
                   /\ libraryVersions[t][k].seeds \in SUBSET Torrents
                   /\ libraryVersions[t][k].count = Cardinality(libraryVersions[t][k].seeds)
                   /\ libraryVersions[t][k].expected \in Nat
         /\ \A t \in Templates : libraryVersions[t] # <<>> =>
              /\ Len(libraryVersions[t]) \in 1..Len(libraryVersions[t])
              /\ Library!Current(t) = libraryVersions[t][Len(libraryVersions[t])]
         /\ libraryJobs \in Seq(Library!Job) /\ Len(libraryJobs) \in Nat
         /\ \A i \in 1..Len(libraryJobs) :
              /\ libraryJobs[i] \in Library!Job /\ libraryJobs[i].template \in Templates
              /\ libraryJobs[i].version \in 1..Len(libraryVersions[libraryJobs[i].template])
         /\ \A t \in Templates : /\ libraryPast[t] \in Library!Past
                                 /\ libraryPast[t].asked \in SUBSET Torrents
                                 /\ Cardinality(libraryPast[t].asked) \in Nat
<1>1. LibraryTypeInv
  BY DEF LibraryInv
<1>2. \A t \in Templates :
        /\ libraryVersions[t] \in Seq(Library!Version) /\ Len(libraryVersions[t]) \in Nat
        /\ \A k \in 1..Len(libraryVersions[t]) : libraryVersions[t][k] \in Library!Version
  BY <1>1 DEF LibraryTypeInv
<1>3. \A t \in Templates : \A k \in 1..Len(libraryVersions[t]) :
        /\ libraryVersions[t][k].seeds \in SUBSET Torrents
        /\ libraryVersions[t][k].expected \in 0..Library!Cardinality(Torrents)
  BY <1>2 DEF Library!Version
<1>4. \A t \in Templates : \A k \in 1..Len(libraryVersions[t]) :
        libraryVersions[t][k].count = Cardinality(libraryVersions[t][k].seeds)
  BY LibraryCardinality DEF LibraryInv, Library!CountIsSeeds
<1>5. \A t \in Templates : libraryVersions[t] # <<>> =>
        /\ Len(libraryVersions[t]) \in 1..Len(libraryVersions[t])
        /\ Library!Current(t) = libraryVersions[t][Len(libraryVersions[t])]
  BY <1>2 DEF Library!Current
<1>6. /\ libraryJobs \in Seq(Library!Job) /\ Len(libraryJobs) \in Nat
      /\ \A i \in 1..Len(libraryJobs) : libraryJobs[i] \in Library!Job
  BY <1>1 DEF LibraryTypeInv
<1>7. \A i \in 1..Len(libraryJobs) :
        /\ libraryJobs[i].template \in Templates
        /\ libraryJobs[i].version \in 1..Len(libraryVersions[libraryJobs[i].template])
  BY <1>6 DEF LibraryInv, LibraryJobInv, Library!Job
<1>8. \A t \in Templates : libraryPast[t] \in Library!Past /\ libraryPast[t].asked \in SUBSET Torrents
  BY <1>1 DEF LibraryTypeInv, Library!Past
<1>9. ASSUME NEW t \in Templates PROVE Cardinality(libraryPast[t].asked) \in Nat
  <2>1. PICK S \in SUBSET Torrents : S = libraryPast[t].asked
    BY <1>8
  <2>2. Cardinality(S) \in 0..Cardinality(Torrents) /\ Cardinality(Torrents) \in Nat
    BY LibraryCounts
  <2>3. Cardinality(S) \in Nat
    BY <2>2
  <2> QED BY <2>1, <2>3
<1>10. libraryVersions \in [Templates -> Seq(Library!Version)]
  BY <1>1 DEF LibraryTypeInv
<1>11. \A t \in Templates : \A k \in 1..Len(libraryVersions[t]) :
         libraryVersions[t][k].expected \in Nat
  BY <1>3
<1> QED BY <1>2, <1>3, <1>4, <1>5, <1>6, <1>7, <1>8, <1>9, <1>10, <1>11

\* A version that starts with what the current one has expects at least what was
\* ever asked for, when the current one has all it expects or nothing new is asked.
LEMMA LibraryExpects ==
  ASSUME LibraryInv, NEW t \in Templates, libraryVersions[t] # <<>>, NEW ids \in SUBSET Torrents
  PROVE  /\ Library!Expected(t, ids) \in 0..Library!Cardinality(Torrents)
         /\ ~(libraryPast[t].papered \/ (/\ Library!Current(t).count < Library!Current(t).expected
                                         /\ ~(ids \subseteq libraryPast[t].asked)))
              => Library!Expected(t, ids) >= Cardinality(libraryPast[t].asked \cup ids)
<1> DEFINE v == Library!Current(t)
           asked == libraryPast[t].asked
           sum == v.count + Cardinality(ids \ v.seeds)
<1>1. /\ v \in Library!Version /\ v.seeds \in SUBSET Torrents /\ v.count = Cardinality(v.seeds)
      /\ v.expected \in Nat
  BY LibraryTypes
<1>2. v.expected \in 0..Library!Cardinality(Torrents)
  BY <1>1 DEF Library!Version
<1>3. /\ sum = Cardinality(v.seeds \cup ids) /\ sum \in 0..Cardinality(Torrents)
      /\ Cardinality(v.seeds) \in Nat /\ Cardinality(Torrents) \in Nat
  <2>1. PICK S \in SUBSET Torrents : S = v.seeds
    BY <1>1
  <2>2. /\ Cardinality(S) + Cardinality(ids \ S) = Cardinality(S \cup ids)
        /\ Cardinality(S \cup ids) \in 0..Cardinality(Torrents)
        /\ Cardinality(S) \in 0..Cardinality(Torrents) /\ Cardinality(Torrents) \in Nat
    BY LibraryCounts
  <2>3. Cardinality(S) \in Nat
    BY <2>2
  <2> HIDE DEF v
  <2> QED BY <1>1, <2>1, <2>2, <2>3
<1>4. Library!Expected(t, ids) = IF v.expected > sum THEN v.expected ELSE sum
  BY LibraryCardinality DEF Library!Expected, Library!Larger
<1>5. Library!Expected(t, ids) \in 0..Library!Cardinality(Torrents)
  BY <1>2, <1>3, <1>4, LibraryCardinality
<1>6. asked \in SUBSET Torrents /\ Cardinality(asked) \in Nat /\ IsFiniteSet(asked)
  <2>1. asked \in SUBSET Torrents /\ Cardinality(asked) \in Nat
    BY LibraryTypes
  <2> QED BY <2>1, LibraryCounts
<1>7. v.seeds \subseteq asked /\ (~libraryPast[t].papered => v.expected >= Cardinality(asked))
  BY DEF LibraryInv, LibraryCurrentInv
<1> HIDE DEF v, asked, sum
<1>8. ASSUME ~libraryPast[t].papered, ids \subseteq asked
      PROVE  Library!Expected(t, ids) >= Cardinality(asked \cup ids)
  <2>1. Cardinality(asked \cup ids) = Cardinality(asked)
    <3>1. asked \cup ids = asked
      BY <1>8
    <3> QED BY <3>1
  <2>2. sum \in Nat
    BY <1>3
  <2> QED BY <1>1, <1>4, <1>6, <1>7, <1>8, <2>1, <2>2
<1>9. ASSUME ~libraryPast[t].papered, ~(v.count < v.expected)
      PROVE  Library!Expected(t, ids) >= Cardinality(asked \cup ids)
  <2>1. Cardinality(v.seeds) >= Cardinality(asked)
    BY <1>1, <1>3, <1>6, <1>7, <1>9
  <2>2. Cardinality(v.seeds) <= Cardinality(asked) /\ (Cardinality(asked) = Cardinality(v.seeds) => asked = v.seeds)
    BY <1>6, <1>7, FS_Subset
  <2>3. asked = v.seeds
    BY <1>3, <1>6, <2>1, <2>2
  <2> QED BY <1>1, <1>3, <1>4, <2>3
<1>10. v = Library!Current(t) /\ asked = libraryPast[t].asked
  BY DEF v, asked
<1> QED BY <1>5, <1>8, <1>9, <1>10

\* A job is added to a template that has none that is open.
LEMMA LibraryNewJob ==
  ASSUME LibraryInv, NEW t \in Templates, NEW ids \in SUBSET Torrents, NEW v \in Library!Version,
         Len(libraryJobs) < MaxJobs, Library!NewJob(t, Len(libraryVersions[t]) + 1, ids),
         libraryVersions' = [libraryVersions EXCEPT ![t] = Append(@, v)],
         UNCHANGED <<libraryTick, libraryFaults>>,
         libraryPast' \in [Templates -> Library!Past],
         \A u \in Templates \ {t} : libraryPast'[u] = libraryPast[u],
         libraryVersions[t] # <<>> => libraryPast[t].asked \subseteq libraryPast'[t].asked,
         ids \subseteq libraryPast'[t].asked,
         v.seeds \subseteq libraryPast'[t].asked, v.status = "IMPORTING",
         v.count = Cardinality(v.seeds),
         ~libraryPast'[t].papered => v.expected >= Cardinality(libraryPast'[t].asked),
         libraryVersions[t] # <<>> => Library!Current(t).status # "IMPORTING"
  PROVE  LibraryInv'
<1> DEFINE n == Len(libraryJobs) m == Len(libraryVersions[t])
           job == [template |-> t, version |-> m + 1, ids |-> ids, left |-> ids,
                   errors |-> {}, done |-> FALSE]
<1>1. /\ libraryVersions \in [Templates -> Seq(Library!Version)]
      /\ libraryJobs \in Seq(Library!Job) /\ n \in Nat /\ m \in Nat /\ MaxJobs \in Nat
      /\ m <= n /\ n < MaxJobs
      /\ \A u \in Templates : libraryVersions[u] \in Seq(Library!Version)
  BY LibraryTypes, LibraryAssumption DEF LibraryInv, LibraryTypeInv
<1>2. job \in Library!Job /\ job.template = t /\ job.version = m + 1 /\ job.ids = ids
      /\ job.left = ids /\ job.errors = {} /\ ~job.done
  <2>1. m + 1 \in 1..MaxJobs
    BY <1>1
  <2> QED BY <2>1 DEF Library!Job
<1> DEFINE jobs == libraryJobs' versions == libraryVersions'
<1>3. jobs = Append(libraryJobs, job)
  BY DEF Library!NewJob
<1> HIDE DEF job, jobs, versions
<1>4. /\ jobs \in Seq(Library!Job) /\ Len(jobs) = n + 1 /\ jobs[n + 1] = job
      /\ \A i \in 1..n : jobs[i] = libraryJobs[i]
  BY <1>1, <1>2, <1>3
<1>5. /\ versions \in [Templates -> Seq(Library!Version)] /\ versions[t] = Append(libraryVersions[t], v)
      /\ \A u \in Templates \ {t} : versions[u] = libraryVersions[u]
  BY <1>1 DEF versions
<1>6. /\ Len(versions[t]) = m + 1 /\ versions[t][m + 1] = v
      /\ \A k \in 1..m : versions[t][k] = libraryVersions[t][k]
  BY <1>1, <1>5
<1>7. \A u \in Templates : \A k \in 1..Len(libraryVersions[u]) :
        k \in 1..Len(versions[u]) /\ versions[u][k] = libraryVersions[u][k]
  <2> SUFFICES ASSUME NEW u \in Templates, NEW k \in 1..Len(libraryVersions[u])
               PROVE  k \in 1..Len(versions[u]) /\ versions[u][k] = libraryVersions[u][k]
    OBVIOUS
  <2>1. CASE u = t
    BY <1>1, <1>6, <2>1
  <2>2. CASE u # t
    BY <1>5, <2>2
  <2> QED BY <2>1, <2>2
<1>8. ASSUME NEW i \in 1..n
      PROVE  /\ libraryJobs[i].template \in Templates
             /\ libraryJobs[i].version \in 1..Len(libraryVersions[libraryJobs[i].template])
             /\ libraryJobs[i].left \subseteq libraryJobs[i].ids
             /\ libraryJobs[i].ids \subseteq libraryPast[libraryJobs[i].template].asked
             /\ ~libraryJobs[i].done =>
                  /\ libraryJobs[i].version = Len(libraryVersions[libraryJobs[i].template])
                  /\ Library!Current(libraryJobs[i].template).status = "IMPORTING"
                  /\ libraryJobs[i].template # t
             /\ libraryJobs[i].ids \ libraryJobs[i].left
                  \subseteq libraryVersions[libraryJobs[i].template][libraryJobs[i].version].seeds
                              \cup libraryJobs[i].errors
  <2>1. /\ libraryJobs[i].template \in Templates
        /\ libraryJobs[i].version \in 1..Len(libraryVersions[libraryJobs[i].template])
    BY LibraryTypes
  <2>2. ASSUME ~libraryJobs[i].done
        PROVE  /\ libraryJobs[i].version = Len(libraryVersions[libraryJobs[i].template])
               /\ Library!Current(libraryJobs[i].template).status = "IMPORTING"
               /\ libraryJobs[i].template # t
    <3>1. /\ libraryJobs[i].version = Len(libraryVersions[libraryJobs[i].template])
          /\ Library!Current(libraryJobs[i].template).status = "IMPORTING"
      BY <2>2 DEF LibraryInv, LibraryJobInv
    <3>2. libraryVersions[libraryJobs[i].template] # <<>>
      BY <2>1
    <3> QED BY <3>1, <3>2
  <2> QED BY <2>1, <2>2 DEF LibraryInv, LibraryJobInv, Library!NoneSkipped
<1>9. \A u \in Templates : libraryVersions[u] # <<>> =>
        libraryPast[u].asked \subseteq libraryPast'[u].asked
  OBVIOUS
<1>10. LibraryTypeInv'
  <2>1. ASSUME NEW u \in Templates PROVE Len(versions[u]) <= n + 1
    <3>1. Len(libraryVersions[u]) \in Nat /\ Len(libraryVersions[u]) <= n
      BY <1>1 DEF LibraryInv, LibraryTypeInv
    <3>2. CASE u = t
      BY <1>1, <1>6, <3>2
    <3>3. CASE u # t
      BY <1>1, <1>5, <3>1, <3>3
    <3> QED BY <3>2, <3>3
  <2>2. n + 1 <= MaxJobs
    BY <1>1
  <2> QED BY <1>4, <1>5, <2>1, <2>2 DEF LibraryInv, LibraryTypeInv, jobs, versions
<1>11. LibraryJobInv'
  <2>1. ASSUME NEW i \in 1..n
        PROVE  /\ jobs[i].version \in 1..Len(versions[jobs[i].template])
               /\ jobs[i].left \subseteq jobs[i].ids
               /\ jobs[i].ids \subseteq libraryPast'[jobs[i].template].asked
               /\ ~jobs[i].done =>
                    /\ jobs[i].version = Len(versions[jobs[i].template])
                    /\ versions[jobs[i].template][jobs[i].version].status = "IMPORTING"
                    /\ jobs[i].template # t
    <3>1. jobs[i] = libraryJobs[i]
      BY <1>4
    <3>2. jobs[i].version \in 1..Len(versions[jobs[i].template])
      BY <1>7, <1>8, <3>1
    <3>3. ASSUME ~jobs[i].done
          PROVE  /\ jobs[i].version = Len(versions[jobs[i].template])
                 /\ versions[jobs[i].template][jobs[i].version].status = "IMPORTING"
                 /\ jobs[i].template # t
      BY <1>5, <1>8, <3>1, <3>3, LibraryTypes DEF Library!Current
    <3>4. jobs[i].ids \subseteq libraryPast'[jobs[i].template].asked
      <4>1. libraryVersions[libraryJobs[i].template] # <<>>
        BY <1>8
      <4> QED BY <1>8, <1>9, <3>1, <4>1
    <3> QED BY <1>8, <3>1, <3>2, <3>3, <3>4
  <2>2. /\ job.version \in 1..Len(versions[t]) /\ job.left \subseteq job.ids
        /\ job.ids \subseteq libraryPast'[t].asked /\ job.version = Len(versions[t])
        /\ versions[t][job.version].status = "IMPORTING"
    BY <1>1, <1>2, <1>6
  <2>3. ASSUME NEW i \in 1..(n + 1)
        PROVE  /\ jobs[i].version \in 1..Len(versions[jobs[i].template])
               /\ jobs[i].left \subseteq jobs[i].ids
               /\ jobs[i].ids \subseteq libraryPast'[jobs[i].template].asked
               /\ ~jobs[i].done =>
                    /\ jobs[i].version = Len(versions[jobs[i].template])
                    /\ versions[jobs[i].template][jobs[i].version].status = "IMPORTING"
    <3>1. CASE i = n + 1
      BY <1>2, <1>4, <2>2, <3>1
    <3>2. CASE i \in 1..n
      BY <2>1, <3>2
    <3> QED BY <1>1, <3>1, <3>2
  <2>4. ASSUME NEW i \in 1..(n + 1), NEW j \in 1..(n + 1), i # j, ~jobs[i].done, ~jobs[j].done
        PROVE  jobs[i].template # jobs[j].template
    <3>1. CASE i \in 1..n /\ j \in 1..n
      <4>1. jobs[i] = libraryJobs[i] /\ jobs[j] = libraryJobs[j]
        BY <1>4, <3>1
      <4> QED BY <2>4, <3>1, <4>1 DEF LibraryInv, LibraryJobInv
    <3>2. CASE i = n + 1 /\ j \in 1..n
      BY <1>2, <1>4, <2>1, <2>4, <3>2
    <3>3. CASE j = n + 1 /\ i \in 1..n
      BY <1>2, <1>4, <2>1, <2>4, <3>3
    <3> QED BY <1>1, <2>4, <3>1, <3>2, <3>3
  <2>5. \/ libraryTick' = Library!NoTick
        \/ /\ libraryTick'.job \in 1..(n + 1) /\ ~jobs[libraryTick'.job].done
           /\ libraryTick'.torrent \in jobs[libraryTick'.job].left
    BY <1>1, <1>4 DEF LibraryInv, LibraryJobInv
  <2> QED BY <1>4, <2>3, <2>4, <2>5 DEF LibraryJobInv, Library!Current, jobs, versions
<1>12. LibraryCurrentInv'
  <2>1. ASSUME NEW u \in Templates, versions[u] # <<>>
        PROVE  /\ versions[u][Len(versions[u])].seeds \subseteq libraryPast'[u].asked
               /\ ~libraryPast'[u].papered =>
                    versions[u][Len(versions[u])].expected >= Cardinality(libraryPast'[u].asked)
               /\ versions[u][Len(versions[u])].status = "READY" =>
                    versions[u][Len(versions[u])].count >= versions[u][Len(versions[u])].expected
    <3>1. CASE u = t
      BY <1>6, <3>1
    <3>2. CASE u # t
      <4>1. versions[u] = libraryVersions[u] /\ libraryPast'[u] = libraryPast[u]
        BY <1>5, <3>2
      <4> QED BY <2>1, <4>1 DEF LibraryInv, LibraryCurrentInv, Library!Current
    <3> QED BY <3>1, <3>2
  <2> QED BY <2>1 DEF LibraryCurrentInv, Library!Current, versions
<1>13. Library!CountIsSeeds'
  <2>1. ASSUME NEW u \in Templates, NEW k \in 1..Len(versions[u])
        PROVE  versions[u][k].count = Library!Cardinality(versions[u][k].seeds)
    <3>1. CASE u = t /\ k = m + 1
      BY <1>6, <3>1, LibraryCardinality
    <3>2. CASE u = t /\ k # m + 1
      <4>1. k \in 1..m
        BY <1>1, <1>6, <3>2
      <4> QED BY <1>6, <3>2, <4>1 DEF LibraryInv, Library!CountIsSeeds
    <3>3. CASE u # t
      BY <1>5, <3>3 DEF LibraryInv, Library!CountIsSeeds
    <3> QED BY <3>1, <3>2, <3>3
  <2> QED BY <2>1 DEF Library!CountIsSeeds, versions
<1>14. Library!NoneSkipped'
  <2>1. ASSUME NEW i \in 1..(n + 1)
        PROVE  jobs[i].ids \ jobs[i].left
                 \subseteq versions[jobs[i].template][jobs[i].version].seeds \cup jobs[i].errors
    <3>1. CASE i = n + 1
      BY <1>2, <1>4, <3>1
    <3>2. CASE i \in 1..n
      <4>1. /\ jobs[i] = libraryJobs[i]
            /\ versions[jobs[i].template][jobs[i].version]
                 = libraryVersions[libraryJobs[i].template][libraryJobs[i].version]
        BY <1>4, <1>7, <1>8, <3>2
      <4> QED BY <1>8, <3>2, <4>1
    <3> QED BY <1>1, <3>1, <3>2
  <2> QED BY <1>4, <2>1 DEF Library!NoneSkipped, jobs, versions
<1> QED BY <1>10, <1>11, <1>12, <1>13, <1>14 DEF LibraryInv

LEMMA LibraryCreates ==
  ASSUME LibraryInv, NEW t \in Templates, NEW ids \in SUBSET Torrents, Library!CreateTemplate(t, ids)
  PROVE  LibraryInv'
<1> DEFINE v == [status |-> "IMPORTING", expected |-> Cardinality(ids), count |-> 0, seeds |-> {}]
<1>1. /\ libraryVersions \in [Templates -> Seq(Library!Version)] /\ libraryVersions[t] = <<>>
      /\ Len(libraryJobs) < MaxJobs /\ libraryPast[t] \in Library!Past
      /\ libraryPast \in [Templates -> Library!Past]
      /\ UNCHANGED <<libraryTick, libraryFaults>>
  BY LibraryTypes DEF Library!CreateTemplate, LibraryInv, LibraryTypeInv
<1>2. /\ v \in Library!Version /\ v.seeds = {} /\ v.status = "IMPORTING" /\ v.count = 0
      /\ v.expected = Cardinality(ids) /\ v.count = Cardinality(v.seeds)
      /\ Cardinality(ids) \in Nat
  <2>1. /\ Cardinality(ids) \in 0..Cardinality(Torrents) /\ 0 \in 0..Cardinality(Torrents)
        /\ Cardinality(ids) \in Nat
    <3>1. Cardinality(ids) \in 0..Cardinality(Torrents) /\ Cardinality(Torrents) \in Nat
      BY LibraryCounts
    <3> QED BY <3>1
  <2>2. /\ Cardinality(ids) \in 0..Library!Cardinality(Torrents)
        /\ 0 \in 0..Library!Cardinality(Torrents) /\ Cardinality({}) = 0
    BY <2>1, LibraryCardinality, FS_EmptySet
  <2> QED BY <2>1, <2>2 DEF Library!Version, Library!Statuses
<1>3. libraryVersions' = [libraryVersions EXCEPT ![t] = <<v>>]
  BY LibraryCardinality DEF Library!CreateTemplate
<1> HIDE DEF v
<1>4. libraryVersions' = [libraryVersions EXCEPT ![t] = Append(@, v)]
  BY <1>1, <1>3
<1>5. /\ libraryPast' \in [Templates -> Library!Past] /\ libraryPast'[t].asked = ids
      /\ \A u \in Templates \ {t} : libraryPast'[u] = libraryPast[u]
  <2>1. libraryPast' = [libraryPast EXCEPT ![t].asked = ids]
    BY DEF Library!CreateTemplate
  <2> DEFINE new == [libraryPast[t] EXCEPT !.asked = ids]
  <2>2. new \in Library!Past /\ new.asked = ids
    BY <1>1 DEF Library!Past
  <2>3. libraryPast' = [libraryPast EXCEPT ![t] = new]
    BY <1>1, <2>1
  <2> HIDE DEF new
  <2> QED BY <1>1, <2>2, <2>3
<1>6. Library!NewJob(t, Len(libraryVersions[t]) + 1, ids)
  BY <1>1 DEF Library!CreateTemplate
<1>7. libraryPast'[t].asked = ids /\ Cardinality(libraryPast'[t].asked) = Cardinality(ids)
  BY <1>5
<1>8. /\ libraryVersions[t] # <<>> => libraryPast[t].asked \subseteq libraryPast'[t].asked
      /\ libraryVersions[t] # <<>> => Library!Current(t).status # "IMPORTING"
  BY <1>1
<1>9. /\ ids \subseteq libraryPast'[t].asked /\ v.seeds \subseteq libraryPast'[t].asked
      /\ ~libraryPast'[t].papered => v.expected >= Cardinality(libraryPast'[t].asked)
  BY <1>2, <1>5, <1>7
<1> QED BY <1>1, <1>2, <1>4, <1>5, <1>6, <1>8, <1>9, LibraryNewJob

LEMMA LibraryAppends ==
  ASSUME LibraryInv, NEW t \in Templates, NEW ids \in SUBSET Torrents, NEW mapped \in SUBSET ids,
         Library!AppendToTemplate(t, ids, mapped)
  PROVE  LibraryInv'
<1> DEFINE old == Library!Current(t)
           v == [status |-> "IMPORTING", expected |-> Library!Expected(t, ids),
                 count |-> old.count, seeds |-> old.seeds]
           gap == old.count < old.expected /\ ~(ids \subseteq libraryPast[t].asked)
           fresh == Library!Fresh(t, ids, mapped)
           new == [asked |-> libraryPast[t].asked \cup ids, papered |-> libraryPast[t].papered \/ gap]
<1>1. /\ libraryVersions[t] # <<>> /\ old.status # "IMPORTING" /\ Len(libraryJobs) < MaxJobs
      /\ libraryVersions' = [libraryVersions EXCEPT ![t] = Append(@, v)]
      /\ Library!NewJob(t, Len(libraryVersions[t]) + 1, fresh)
      /\ UNCHANGED <<libraryTick, libraryFaults>>
  BY DEF Library!AppendToTemplate
<1>2. libraryPast' = [libraryPast EXCEPT ![t] = new]
  <2>1. libraryPast' = [libraryPast EXCEPT ![t] =
          [asked |-> @.asked \cup ids, papered |-> @.papered \/ gap]]
    BY DEF Library!AppendToTemplate
  <2> HIDE DEF gap
  <2> QED BY <2>1
<1>3. /\ libraryPast \in [Templates -> Library!Past] /\ libraryPast[t] \in Library!Past
      /\ libraryPast[t].asked \in SUBSET Torrents /\ libraryPast[t].papered \in BOOLEAN
  BY LibraryTypes DEF LibraryInv, LibraryTypeInv, Library!Past
<1>4. old \in Library!Version /\ old.count = Cardinality(old.seeds) /\ old.seeds \in SUBSET Torrents
  BY <1>1, LibraryTypes
<1>5. /\ Library!Expected(t, ids) \in 0..Library!Cardinality(Torrents)
      /\ ~(libraryPast[t].papered \/ gap)
           => Library!Expected(t, ids) >= Cardinality(libraryPast[t].asked \cup ids)
  BY <1>1, LibraryExpects
<1>6. old.seeds \subseteq libraryPast[t].asked
  BY <1>1 DEF LibraryInv, LibraryCurrentInv
<1>7. fresh \in SUBSET Torrents /\ fresh \subseteq ids
  BY DEF Library!Fresh
<1> HIDE DEF old, fresh, gap
<1>8. /\ v \in Library!Version /\ v.status = "IMPORTING" /\ v.expected = Library!Expected(t, ids)
      /\ v.count = old.count /\ v.seeds = old.seeds
  BY <1>4, <1>5 DEF Library!Version, Library!Statuses
<1>9. /\ new \in Library!Past /\ new.asked = libraryPast[t].asked \cup ids
      /\ new.papered <=> (libraryPast[t].papered \/ gap)
  <2>1. gap \in BOOLEAN
    BY DEF gap
  <2> QED BY <1>3, <2>1 DEF Library!Past
<1> HIDE DEF v, new
<1>10. /\ libraryPast' \in [Templates -> Library!Past] /\ libraryPast'[t] = new
       /\ \A u \in Templates \ {t} : libraryPast'[u] = libraryPast[u]
  BY <1>2, <1>3, <1>9
<1>11. /\ libraryPast[t].asked \subseteq libraryPast'[t].asked /\ fresh \subseteq libraryPast'[t].asked
       /\ v.seeds \subseteq libraryPast'[t].asked /\ v.count = Cardinality(v.seeds)
  BY <1>4, <1>6, <1>7, <1>8, <1>9, <1>10
<1>12. ~libraryPast'[t].papered => v.expected >= Cardinality(libraryPast'[t].asked)
  BY <1>5, <1>8, <1>9, <1>10
<1>13. libraryVersions[t] # <<>> => Library!Current(t).status # "IMPORTING"
  BY <1>1 DEF old
<1> QED BY <1>1, <1>7, <1>8, <1>10, <1>11, <1>12, <1>13, LibraryNewJob

\* The job and the version as they were, but for the torrent that is under way.
LibraryRecords(job, v) ==
  LET was == libraryJobs[libraryTick.job]
      old == libraryVersions[was.template][was.version]
  IN  /\ job.template = was.template /\ job.version = was.version /\ job.ids = was.ids
      /\ job.left = was.left /\ was.errors \subseteq job.errors
      /\ v.status = old.status /\ v.expected = old.expected
      /\ old.seeds \subseteq v.seeds /\ v.seeds \subseteq old.seeds \cup {libraryTick.torrent}
      /\ v.count = Cardinality(v.seeds)

\* One torrent is recorded: its version has it or its job has an error for it, and
\* the last one of a job ends the import of the version.
LEMMA LibraryRecorded ==
  ASSUME LibraryInv, libraryTick # Library!NoTick,
         NEW job \in Library!Job, NEW v \in Library!Version,
         LibraryRecords(job, v),
         libraryTick.torrent \in v.seeds \cup job.errors,
         Library!Record(job, v), libraryFaults' \in 0..ImportFaults
  PROVE  LibraryInv'
<1> DEFINE j == libraryTick.job x == libraryTick.torrent
           was == libraryJobs[j] t == was.template k == was.version
           last == job.left = {x}
           next == [job EXCEPT !.left = @ \ {x}, !.done = last]
           w == IF last THEN Library!Finished(v, next) ELSE v
           n == Len(libraryJobs)
<1>0. /\ job.template = t /\ job.version = k /\ job.ids = was.ids
      /\ job.left = was.left /\ was.errors \subseteq job.errors
      /\ v.status = libraryVersions[t][k].status /\ v.expected = libraryVersions[t][k].expected
      /\ libraryVersions[t][k].seeds \subseteq v.seeds
      /\ v.seeds \subseteq libraryVersions[t][k].seeds \cup {x} /\ v.count = Cardinality(v.seeds)
  BY DEF LibraryRecords
<1>1. /\ j \in 1..n /\ ~was.done /\ x \in was.left
  BY DEF LibraryInv, LibraryJobInv
<1>2. /\ libraryVersions \in [Templates -> Seq(Library!Version)]
      /\ t \in Templates /\ libraryVersions[t] \in Seq(Library!Version)
      /\ libraryJobs \in Seq(Library!Job) /\ n \in Nat
      /\ k \in 1..Len(libraryVersions[t]) /\ Len(libraryVersions[t]) \in Nat
      /\ libraryVersions[t][k] \in Library!Version
      /\ \A i \in 1..n : libraryJobs[i].template \in Templates
  BY <1>1, LibraryTypes
<1>3. /\ k = Len(libraryVersions[t]) /\ libraryVersions[t][k].status = "IMPORTING"
      /\ was.left \subseteq was.ids /\ was.ids \subseteq libraryPast[t].asked
      /\ was.ids \ was.left \subseteq libraryVersions[t][k].seeds \cup was.errors
  BY <1>1 DEF LibraryInv, LibraryJobInv, Library!Current, Library!NoneSkipped
<1>4. /\ next \in Library!Job /\ next.template = t /\ next.version = k /\ next.ids = was.ids
      /\ next.left = was.left \ {x} /\ next.errors = job.errors /\ next.done = last
  BY <1>0 DEF Library!Job
<1>5. /\ w \in Library!Version /\ w.seeds = v.seeds /\ w.count = v.count /\ w.expected = v.expected
      /\ ~last => w.status = "IMPORTING"
      /\ w.status = "READY" => w.count >= w.expected
  <2>1. CASE ~last
    BY <1>0, <1>3, <2>1
  <2>2. CASE last
    <3> DEFINE to == IF next.errors = {} /\ v.count >= v.expected /\ v.seeds # {} THEN "READY" ELSE "INCOMPLETE"
    <3>1. w = [v EXCEPT !.status = to] /\ to \in Library!Statuses
      BY <2>2 DEF Library!Finished, Library!Statuses
    <3>2. to = "READY" => v.count >= v.expected
      OBVIOUS
    <3> HIDE DEF to
    <3>3. /\ [v EXCEPT !.status = to] \in Library!Version
          /\ [v EXCEPT !.status = to].seeds = v.seeds
          /\ [v EXCEPT !.status = to].count = v.count
          /\ [v EXCEPT !.status = to].expected = v.expected
          /\ [v EXCEPT !.status = to].status = to
      BY <3>1 DEF Library!Version
    <3> HIDE DEF w, last
    <3> QED BY <2>2, <3>1, <3>2, <3>3
  <2> QED BY <2>1, <2>2
<1>6. /\ libraryJobs' = [libraryJobs EXCEPT ![j] = next]
      /\ libraryVersions' = [libraryVersions EXCEPT ![t][k] = w]
      /\ libraryTick' = Library!NoTick /\ UNCHANGED libraryPast
  BY <1>0 DEF Library!Record
<1> DEFINE jobs == libraryJobs' versions == libraryVersions'
<1> HIDE DEF next, w, last
<1>7. /\ jobs \in Seq(Library!Job) /\ Len(jobs) = n /\ jobs[j] = next
      /\ \A i \in 1..n : i # j => jobs[i] = libraryJobs[i]
  <2> HIDE DEF was, j
  <2>1. libraryJobs \in Seq(Library!Job) /\ j \in 1..Len(libraryJobs) /\ next \in Library!Job
    BY <1>1, <1>2, <1>4
  <2> HIDE DEF n
  <2> QED BY <1>6, <2>1, ExceptSeq DEF n
<1>8. /\ versions \in [Templates -> Seq(Library!Version)]
      /\ versions[t] = [libraryVersions[t] EXCEPT ![k] = w]
      /\ \A u \in Templates \ {t} : versions[u] = libraryVersions[u]
  <2>1. [libraryVersions[t] EXCEPT ![k] = w] \in Seq(Library!Version)
    <3> HIDE DEF t, k
    <3> QED BY <1>2, <1>5, ExceptSeq
  <2> QED BY <1>2, <1>6, <2>1
<1> HIDE DEF jobs, versions
<1>9. /\ Len(versions[t]) = Len(libraryVersions[t]) /\ versions[t][k] = w
      /\ \A l \in 1..Len(libraryVersions[t]) : l # k => versions[t][l] = libraryVersions[t][l]
  <2> HIDE DEF t, k
  <2> DEFINE s == libraryVersions[t]
  <2>1. s \in Seq(Library!Version) /\ k \in 1..Len(s)
    BY <1>2
  <2>2. versions[t] = [s EXCEPT ![k] = w]
    BY <1>8
  <2> HIDE DEF s
  <2>3. /\ Len([s EXCEPT ![k] = w]) = Len(s)
        /\ \A l \in 1..Len(s) : [s EXCEPT ![k] = w][l] = IF l = k THEN w ELSE s[l]
    BY <1>5, <2>1, ExceptSeq
  <2>4. /\ Len(versions[t]) = Len(s) /\ versions[t][k] = w
        /\ \A l \in 1..Len(s) : l # k => versions[t][l] = s[l]
    BY <2>1, <2>2, <2>3
  <2> QED BY <2>4 DEF s
<1>10. \A u \in Templates : Len(versions[u]) = Len(libraryVersions[u])
  BY <1>8, <1>9
<1>11. \A u \in Templates : \A l \in 1..Len(libraryVersions[u]) :
         /\ libraryVersions[u][l].seeds \subseteq versions[u][l].seeds
         /\ u # t \/ l # k => versions[u][l] = libraryVersions[u][l]
  BY <1>0, <1>5, <1>8, <1>9
<1> USE DEF jobs, versions
<1>12. LibraryTypeInv'
  <2>1. \A u \in Templates : Len(versions[u]) <= n
    BY <1>10 DEF LibraryInv, LibraryTypeInv
  <2>2. n <= MaxJobs /\ libraryPast' \in [Templates -> Library!Past]
    BY <1>6 DEF LibraryInv, LibraryTypeInv
  <2>3. libraryTick' \in [job : 0..MaxJobs, torrent : {0} \cup Torrents]
    BY <1>6, LibraryAssumption DEF Library!NoTick
  <2> QED BY <1>7, <1>8, <2>1, <2>2, <2>3 DEF LibraryTypeInv
<1> HIDE DEF jobs, versions, t, k, was, j, x
<1>13. ASSUME NEW i \in 1..n
       PROVE  /\ jobs[i].template = libraryJobs[i].template
              /\ jobs[i].version = libraryJobs[i].version /\ jobs[i].ids = libraryJobs[i].ids
              /\ jobs[i].left \subseteq libraryJobs[i].left
              /\ ~jobs[i].done => ~libraryJobs[i].done /\ (i = j => ~last)
  <2>1. CASE i = j
    BY <1>1, <1>4, <1>7, <2>1 DEF was, t, k
  <2>2. CASE i # j
    BY <1>7, <2>2
  <2> QED BY <2>1, <2>2
<1>14. LibraryJobInv'
  <2>1. ASSUME NEW i \in 1..n
        PROVE  /\ jobs[i].version \in 1..Len(versions[jobs[i].template])
               /\ jobs[i].left \subseteq jobs[i].ids
               /\ jobs[i].ids \subseteq libraryPast'[jobs[i].template].asked
    <3>1. /\ libraryJobs[i].template \in Templates
          /\ libraryJobs[i].version \in 1..Len(libraryVersions[libraryJobs[i].template])
      BY LibraryTypes
    <3>2. /\ libraryJobs[i].left \subseteq libraryJobs[i].ids
          /\ libraryJobs[i].ids \subseteq libraryPast[libraryJobs[i].template].asked
      BY DEF LibraryInv, LibraryJobInv
    <3>3. jobs[i].version \in 1..Len(versions[jobs[i].template])
      BY <1>10, <1>13, <3>1
    <3> QED BY <1>6, <1>13, <3>2, <3>3
  <2>2. ASSUME NEW i \in 1..n, ~jobs[i].done
        PROVE  /\ jobs[i].version = Len(versions[jobs[i].template])
               /\ versions[jobs[i].template][jobs[i].version].status = "IMPORTING"
    <3>1. /\ libraryJobs[i].version = Len(libraryVersions[libraryJobs[i].template])
          /\ libraryVersions[libraryJobs[i].template][libraryJobs[i].version].status = "IMPORTING"
          /\ libraryJobs[i].version \in 1..Len(libraryVersions[libraryJobs[i].template])
      BY <1>13, <2>2 DEF LibraryInv, LibraryJobInv, Library!Current
    <3>2. CASE i = j
      <4>1. w.status = "IMPORTING"
        BY <1>5, <1>13, <2>2, <3>2
      <4> QED BY <1>9, <1>10, <1>13, <3>1, <3>2, <4>1 DEF was, t, k
    <3>3. CASE i # j
      <4>1. libraryJobs[i].template # t
        BY <1>1, <1>13, <2>2, <3>3 DEF LibraryInv, LibraryJobInv, t, was
      <4> QED BY <1>2, <1>10, <1>11, <1>13, <3>1, <4>1
    <3> QED BY <3>2, <3>3
  <2>3. ASSUME NEW i \in 1..n, NEW l \in 1..n, i # l, ~jobs[i].done, ~jobs[l].done
        PROVE  jobs[i].template # jobs[l].template
    BY <1>13, <2>3 DEF LibraryInv, LibraryJobInv
  <2>4. ASSUME NEW i \in 1..n, ~jobs[i].done
        PROVE  /\ jobs[i].version = Len(versions[jobs[i].template])
               /\ versions[jobs[i].template][Len(versions[jobs[i].template])].status = "IMPORTING"
    BY <2>2, <2>4
  <2>5. libraryTick' = Library!NoTick /\ Len(jobs) = n
    BY <1>6, <1>7
  <2> QED BY <2>1, <2>3, <2>4, <2>5 DEF LibraryJobInv, Library!Current, jobs, versions
<1>15. LibraryCurrentInv'
  <2>1. ASSUME NEW u \in Templates, versions[u] # <<>>
        PROVE  /\ versions[u][Len(versions[u])].seeds \subseteq libraryPast[u].asked
               /\ ~libraryPast[u].papered =>
                    versions[u][Len(versions[u])].expected >= Cardinality(libraryPast[u].asked)
               /\ versions[u][Len(versions[u])].status = "READY" =>
                    versions[u][Len(versions[u])].count >= versions[u][Len(versions[u])].expected
    <3>1. CASE u = t
      <4>1. versions[t][Len(versions[t])] = w
        BY <1>3, <1>9
      <4>2. libraryVersions[t] # <<>>
        BY <1>2
      <4>3. /\ libraryVersions[t][k].seeds \subseteq libraryPast[t].asked
            /\ ~libraryPast[t].papered =>
                 libraryVersions[t][k].expected >= Cardinality(libraryPast[t].asked)
        BY <1>2, <1>3, <4>2 DEF LibraryInv, LibraryCurrentInv, Library!Current
      <4>4. /\ w.expected = libraryVersions[t][k].expected
            /\ w.seeds \subseteq libraryVersions[t][k].seeds \cup {x}
        BY <1>0, <1>5
      <4>5. x \in libraryPast[t].asked
        BY <1>1, <1>3
      <4> QED BY <1>5, <3>1, <4>1, <4>3, <4>4, <4>5
    <3>2. CASE u # t
      <4>1. versions[u] = libraryVersions[u]
        BY <1>8, <3>2 DEF versions
      <4> QED BY <2>1, <4>1 DEF LibraryInv, LibraryCurrentInv, Library!Current
    <3> QED BY <3>1, <3>2
  <2> QED BY <1>6, <2>1 DEF LibraryCurrentInv, Library!Current, versions
<1>16. Library!CountIsSeeds'
  <2>1. ASSUME NEW u \in Templates, NEW l \in 1..Len(versions[u])
        PROVE  versions[u][l].count = Library!Cardinality(versions[u][l].seeds)
    <3>1. l \in 1..Len(libraryVersions[u])
      BY <1>10
    <3>2. CASE u = t /\ l = k
      <4>1. w.count = Cardinality(w.seeds)
        BY <1>0, <1>5
      <4> QED BY <1>9, <3>2, <4>1, LibraryCardinality
    <3>3. CASE u # t \/ l # k
      <4>1. versions[u][l] = libraryVersions[u][l]
        BY <1>11, <3>1, <3>3
      <4> QED BY <3>1, <4>1 DEF LibraryInv, Library!CountIsSeeds
    <3> QED BY <3>2, <3>3
  <2> QED BY <2>1 DEF Library!CountIsSeeds, versions
<1>17. Library!NoneSkipped'
  <2>1. ASSUME NEW i \in 1..n
        PROVE  jobs[i].ids \ jobs[i].left
                 \subseteq versions[jobs[i].template][jobs[i].version].seeds \cup jobs[i].errors
    <3>1. CASE i = j
      <4>1. /\ jobs[i] = next /\ versions[jobs[i].template][jobs[i].version] = w
        BY <1>4, <1>7, <1>9, <3>1 DEF jobs
      <4>2. was.errors \subseteq job.errors /\ libraryVersions[t][k].seeds \subseteq v.seeds
        BY <1>0
      <4>3. x \in v.seeds \cup job.errors
        BY DEF x
      <4> QED BY <1>3, <1>4, <1>5, <4>1, <4>2, <4>3
    <3>2. CASE i # j
      <4>1. jobs[i] = libraryJobs[i]
        BY <1>7, <3>2 DEF jobs
      <4>2. /\ libraryJobs[i].template \in Templates
            /\ libraryJobs[i].version \in 1..Len(libraryVersions[libraryJobs[i].template])
        BY LibraryTypes
      <4>3. libraryVersions[libraryJobs[i].template][libraryJobs[i].version].seeds
              \subseteq versions[libraryJobs[i].template][libraryJobs[i].version].seeds
        BY <1>11, <4>2
      <4>4. libraryJobs[i].ids \ libraryJobs[i].left
              \subseteq libraryVersions[libraryJobs[i].template][libraryJobs[i].version].seeds
                          \cup libraryJobs[i].errors
        BY DEF LibraryInv, Library!NoneSkipped
      <4> QED BY <4>1, <4>3, <4>4
    <3> QED BY <3>1, <3>2
  <2> QED BY <1>7, <2>1 DEF Library!NoneSkipped, jobs, versions
<1> QED BY <1>12, <1>14, <1>15, <1>16, <1>17 DEF LibraryInv

LEMMA LibraryDescribes == ASSUME LibraryInv, Library!Described PROVE LibraryInv'
<1> DEFINE job == libraryJobs[libraryTick.job]
           old == libraryVersions[job.template][job.version]
           seeds == old.seeds \cup {libraryTick.torrent}
           v == [old EXCEPT !.seeds = seeds, !.count = Cardinality(seeds)]
<1>1. /\ libraryTick # Library!NoTick /\ libraryFaults' = libraryFaults
      /\ libraryFaults \in 0..ImportFaults /\ libraryTick.torrent \in {0} \cup Torrents
  BY DEF Library!Described, LibraryInv, LibraryTypeInv
<1>2. /\ libraryTick.job \in 1..Len(libraryJobs) /\ libraryTick.torrent \in job.left
  BY <1>1 DEF LibraryInv, LibraryJobInv
<1>3. /\ job \in Library!Job /\ old \in Library!Version /\ old.seeds \in SUBSET Torrents
  BY <1>2, LibraryTypes
<1>4. seeds \in SUBSET Torrents
  BY <1>2, <1>3 DEF Library!Job
<1>5. Cardinality(seeds) \in 0..Library!Cardinality(Torrents)
  BY <1>4, LibraryCounts, LibraryCardinality
<1>6. Library!Record(job, v)
  BY LibraryCardinality DEF Library!Described
<1> HIDE DEF seeds, old, job
<1>7. /\ v \in Library!Version /\ v.seeds = seeds /\ v.count = Cardinality(seeds)
      /\ v.status = old.status /\ v.expected = old.expected
  BY <1>3, <1>4, <1>5 DEF Library!Version
<1> HIDE DEF v
<1>8. /\ old.seeds \subseteq seeds /\ seeds \subseteq old.seeds \cup {libraryTick.torrent}
      /\ libraryTick.torrent \in seeds
  BY DEF seeds
<1>9. LibraryRecords(job, v)
  BY <1>7, <1>8 DEF job, old, LibraryRecords
<1> QED BY <1>1, <1>3, <1>6, <1>7, <1>8, <1>9, LibraryRecorded

LEMMA LibraryFails == ASSUME LibraryInv, Library!Failed PROVE LibraryInv'
<1> DEFINE was == libraryJobs[libraryTick.job]
           job == [was EXCEPT !.errors = @ \cup {libraryTick.torrent}]
           v == libraryVersions[was.template][was.version]
<1>1. /\ libraryTick # Library!NoTick /\ Library!Record(job, v)
      /\ libraryFaults < ImportFaults /\ libraryFaults' = libraryFaults + 1
  BY DEF Library!Failed
<1>2. libraryFaults' \in 0..ImportFaults
  BY <1>1, LibraryAssumption DEF LibraryInv, LibraryTypeInv
<1>3. /\ libraryTick.job \in 1..Len(libraryJobs) /\ libraryTick.torrent \in was.left
  BY <1>1 DEF LibraryInv, LibraryJobInv
<1>4. /\ was \in Library!Job /\ v \in Library!Version /\ v.count = Cardinality(v.seeds)
  BY <1>3, LibraryTypes
<1> HIDE DEF was, v
<1>5. /\ job \in Library!Job /\ job.template = was.template /\ job.version = was.version
      /\ job.ids = was.ids /\ job.left = was.left
      /\ job.errors = was.errors \cup {libraryTick.torrent}
  BY <1>3, <1>4 DEF Library!Job
<1> HIDE DEF job
<1>6. was.errors \subseteq job.errors /\ libraryTick.torrent \in v.seeds \cup job.errors
  BY <1>5
<1>7. LibraryRecords(job, v)
  BY <1>4, <1>5, <1>6 DEF was, v, LibraryRecords
<1> QED BY <1>1, <1>2, <1>4, <1>5, <1>6, <1>7, LibraryRecorded

\* The driver takes a torrent, or lets go of it without any record.
LEMMA LibraryTurns ==
  ASSUME LibraryInv, UNCHANGED <<libraryVersions, libraryJobs, libraryPast>>,
         libraryFaults' \in 0..ImportFaults,
         \/ UNCHANGED libraryTick \/ libraryTick' = Library!NoTick
         \/ \E i \in Library!Open : \E torrent \in libraryJobs[i].left :
              libraryTick' = [job |-> i, torrent |-> torrent]
  PROVE  LibraryInv'
<1>1. \/ libraryTick' = Library!NoTick
      \/ /\ libraryTick'.job \in 1..Len(libraryJobs) /\ ~libraryJobs[libraryTick'.job].done
         /\ libraryTick'.torrent \in libraryJobs[libraryTick'.job].left
  BY DEF LibraryInv, LibraryJobInv, Library!Open
<1>2. libraryTick' \in [job : 0..MaxJobs, torrent : {0} \cup Torrents]
  <2>1. CASE \/ UNCHANGED libraryTick \/ libraryTick' = Library!NoTick
    BY <2>1, LibraryAssumption DEF LibraryInv, LibraryTypeInv, Library!NoTick
  <2>2. ASSUME NEW i \in Library!Open, NEW torrent \in libraryJobs[i].left,
               libraryTick' = [job |-> i, torrent |-> torrent]
        PROVE  libraryTick' \in [job : 0..MaxJobs, torrent : {0} \cup Torrents]
    <3>1. i \in 1..Len(libraryJobs) /\ Len(libraryJobs) \in Nat /\ libraryJobs[i] \in Library!Job
      BY LibraryTypes DEF Library!Open
    <3>2. torrent \in Torrents
      BY <2>2, <3>1 DEF Library!Job
    <3>3. i \in 0..MaxJobs
      BY <3>1, LibraryAssumption DEF LibraryInv, LibraryTypeInv
    <3> QED BY <2>2, <3>2, <3>3
  <2> QED BY <2>1, <2>2
<1>3. LibraryTypeInv'
  BY <1>2 DEF LibraryInv, LibraryTypeInv
<1>4. LibraryJobInv'
  BY <1>1 DEF LibraryInv, LibraryJobInv, Library!Current
<1>5. LibraryCurrentInv' /\ Library!CountIsSeeds' /\ Library!NoneSkipped'
  BY DEF LibraryInv, LibraryCurrentInv, Library!CountIsSeeds, Library!NoneSkipped, Library!Current
<1> QED BY <1>3, <1>4, <1>5 DEF LibraryInv

LEMMA LibraryInit == ASSUME Library!Init PROVE LibraryInv
<1>1. /\ libraryVersions = [t \in Templates |-> <<>>] /\ libraryJobs = <<>>
      /\ libraryTick = Library!NoTick /\ libraryFaults = 0
      /\ libraryPast = [t \in Templates |-> [asked |-> {}, papered |-> FALSE]]
  BY DEF Library!Init
<1>2. <<>> \in Seq(Library!Version) /\ <<>> \in Seq(Library!Job) /\ Len(<<>>) = 0
  OBVIOUS
<1>3. [asked |-> {}, papered |-> FALSE] \in Library!Past
  BY DEF Library!Past
<1>4. LibraryTypeInv
  BY <1>1, <1>2, <1>3, LibraryAssumption DEF LibraryTypeInv, Library!NoTick
<1> QED BY <1>1, <1>2, <1>4 DEF LibraryInv, LibraryJobInv, LibraryCurrentInv,
        Library!CountIsSeeds, Library!NoneSkipped

LEMMA LibraryStep == LibraryInv /\ [Library!Next]_(Library!vars) => LibraryInv'
<1> SUFFICES ASSUME LibraryInv, [Library!Next]_(Library!vars) PROVE LibraryInv'
  OBVIOUS
<1>1. libraryFaults \in 0..ImportFaults /\ ImportFaults \in Nat
  BY LibraryAssumption DEF LibraryInv, LibraryTypeInv
<1>2. CASE UNCHANGED Library!vars
  BY <1>1, <1>2, LibraryTurns DEF Library!vars
<1>3. CASE Library!Take
  BY <1>1, <1>3, LibraryTurns DEF Library!Take
<1>4. CASE Library!Limited \/ Library!Crash
  <2>1. /\ UNCHANGED <<libraryVersions, libraryJobs, libraryPast>>
        /\ libraryTick' = Library!NoTick /\ libraryFaults' \in 0..ImportFaults
    BY <1>1, <1>4 DEF Library!Limited, Library!Crash
  <2> QED BY <2>1, LibraryTurns
<1> QED BY <1>2, <1>3, <1>4, LibraryCreates, LibraryAppends, LibraryDescribes, LibraryFails
        DEF Library!Next

\* What is not being imported does not change: a record goes to the version of an
\* open job, and a new import makes a new version.
LEMMA LibraryFrozen ==
  ASSUME LibraryInv, Library!Next, NEW t \in Templates, NEW i \in 1..Len(libraryVersions[t]),
         libraryVersions[t][i].status # "IMPORTING"
  PROVE  libraryVersions'[t][i] = libraryVersions[t][i]
<1>1. /\ libraryVersions \in [Templates -> Seq(Library!Version)]
      /\ libraryVersions[t] \in Seq(Library!Version) /\ Len(libraryVersions[t]) \in Nat
  BY LibraryTypes
<1>2. ASSUME NEW u \in Templates, NEW ids, Library!CreateTemplate(u, ids)
      PROVE  libraryVersions'[t][i] = libraryVersions[t][i]
  <2>1. /\ libraryVersions[u] = <<>>
        /\ \A q \in Templates \ {u} : libraryVersions'[q] = libraryVersions[q]
    BY <1>1, <1>2 DEF Library!CreateTemplate
  <2>2. t # u
    BY <2>1
  <2> QED BY <2>1, <2>2
<1>3. ASSUME NEW u \in Templates, NEW ids, NEW mapped, Library!AppendToTemplate(u, ids, mapped)
      PROVE  libraryVersions'[t][i] = libraryVersions[t][i]
  <2>1. PICK v : libraryVersions' = [libraryVersions EXCEPT ![u] = Append(@, v)]
    BY <1>3 DEF Library!AppendToTemplate
  <2>2. CASE t = u
    BY <1>1, <2>1, <2>2
  <2>3. CASE t # u
    BY <1>1, <2>1, <2>3
  <2> QED BY <2>2, <2>3
<1>4. ASSUME NEW job, NEW v, libraryTick # Library!NoTick, Library!Record(job, v),
             job.template = libraryJobs[libraryTick.job].template,
             job.version = libraryJobs[libraryTick.job].version
      PROVE  libraryVersions'[t][i] = libraryVersions[t][i]
  <2> DEFINE u == libraryJobs[libraryTick.job].template
             k == libraryJobs[libraryTick.job].version
  <2>1. u \in Templates /\ k \in 1..Len(libraryVersions[u])
    BY <1>4, LibraryTypes DEF LibraryInv, LibraryJobInv
  <2>2. libraryVersions[u][k].status = "IMPORTING"
    BY <1>4 DEF LibraryInv, LibraryJobInv, Library!Current
  <2>3. PICK w : libraryVersions' = [libraryVersions EXCEPT ![u][k] = w]
    BY <1>4 DEF Library!Record
  <2> HIDE DEF u, k
  <2>4. t # u \/ i # k
    BY <2>2
  <2> QED BY <1>1, <2>1, <2>3, <2>4
<1>5. CASE Library!Described
  <2> DEFINE job == libraryJobs[libraryTick.job]
  <2>1. libraryTick # Library!NoTick /\ \E v : Library!Record(job, v)
    BY <1>5 DEF Library!Described
  <2> HIDE DEF job
  <2>2. PICK v : Library!Record(job, v)
    BY <2>1
  <2> USE DEF job
  <2> QED BY <1>4, <2>1, <2>2
<1>6. CASE Library!Failed
  <2> DEFINE was == libraryJobs[libraryTick.job]
             job == [was EXCEPT !.errors = @ \cup {libraryTick.torrent}]
  <2>1. /\ libraryTick # Library!NoTick
        /\ Library!Record(job, libraryVersions[was.template][was.version])
    BY <1>6 DEF Library!Failed
  <2>2. was \in Library!Job
    BY <2>1, LibraryTypes DEF LibraryInv, LibraryJobInv
  <2>3. job.template = was.template /\ job.version = was.version
    BY <2>2 DEF Library!Job
  <2> QED BY <1>4, <2>1, <2>3
<1>7. CASE Library!Take \/ Library!Limited \/ Library!Crash
  BY <1>7 DEF Library!Take, Library!Limited, Library!Crash
<1> QED BY <1>2, <1>3, <1>5, <1>6, <1>7 DEF Library!Next

\* A template has what was asked for (unpack_templates.py): no stop and no wait makes
\* an import pass over a torrent, a version counts the seeds it has, and the newest
\* one is ready only with all that was ever asked for, unless a gap was papered over.
THEOREM LibraryStaysComplete == Spec => []LibraryIsComplete
<1> DEFINE Inv == subject = "library" => LibraryInv
<1>1. Init => Inv
  BY LibraryInit DEF Init
<1>2. Inv /\ [Next]_vars => Inv'
  <2> SUFFICES ASSUME Inv, [Next]_vars, subject' = "library" PROVE LibraryInv'
    OBVIOUS
  <2>1. subject = "library" /\ [Library!Next]_(Library!vars)
    BY DEF Next, vars, Others, library, Library!vars
  <2> QED BY <2>1, LibraryStep
<1>3. Inv => LibraryIsComplete
  <2> SUFFICES ASSUME LibraryInv
               PROVE  /\ Library!TypeOK /\ Library!CountIsSeeds
                      /\ Library!NoneSkipped /\ Library!ReadyIsComplete
    BY DEF LibraryIsComplete
  <2>1. Library!TypeOK
    <3>1. \A t \in Templates : \A i \in 1..Len(libraryVersions[t]) :
            libraryVersions[t][i] \in Library!Version
      BY LibraryTypes
    <3>2. \A i \in 1..Len(libraryJobs) : libraryJobs[i] \in Library!Job
      BY LibraryTypes
    <3> QED BY <3>1, <3>2 DEF LibraryInv, LibraryTypeInv, Library!TypeOK
  <2>2. ASSUME NEW t \in Templates, libraryVersions[t] # <<>>,
               Library!Current(t).status = "READY", ~libraryPast[t].papered
        PROVE  libraryPast[t].asked \subseteq Library!Current(t).seeds
    <3> DEFINE v == Library!Current(t) asked == libraryPast[t].asked
    <3>1. /\ v.count = Cardinality(v.seeds) /\ v.expected \in Nat /\ v.seeds \in SUBSET Torrents
          /\ asked \in SUBSET Torrents /\ Cardinality(asked) \in Nat
      BY <2>2, LibraryTypes
    <3>2. v.seeds \subseteq asked /\ v.expected >= Cardinality(asked) /\ v.count >= v.expected
      BY <2>2 DEF LibraryInv, LibraryCurrentInv
    <3> HIDE DEF v, asked
    <3>3. IsFiniteSet(asked) /\ Cardinality(v.seeds) \in Nat
      <4>1. PICK S \in SUBSET Torrents : S = v.seeds
        BY <3>1
      <4>2. Cardinality(S) \in 0..Cardinality(Torrents) /\ Cardinality(Torrents) \in Nat
        BY LibraryCounts
      <4>3. Cardinality(S) \in Nat
        BY <4>2
      <4>4. IsFiniteSet(asked)
        BY <3>1, LibraryCounts
      <4> QED BY <4>1, <4>3, <4>4
    <3>4. Cardinality(v.seeds) <= Cardinality(asked) /\ (Cardinality(asked) = Cardinality(v.seeds) => asked = v.seeds)
      BY <3>2, <3>3, FS_Subset
    <3>5. asked = v.seeds
      BY <3>1, <3>2, <3>3, <3>4
    <3> QED BY <3>5 DEF v, asked
  <2>3. Library!ReadyIsComplete
    BY <2>2 DEF Library!ReadyIsComplete
  <2> QED BY <2>1, <2>3 DEF LibraryInv
<1> QED BY <1>1, <1>2, <1>3, PTL DEF Spec

\* A version of a template that was imported does not change any more: a definition
\* bound to it finds the seeds it was made for (unpack_templates.py).
THEOREM VersionsStayFrozen == Spec => VersionIsFrozen
<1> DEFINE Inv == subject = "library" => LibraryInv
<1>1. Init => Inv
  BY LibraryInit DEF Init
<1>2. Inv /\ [Next]_vars => Inv'
  <2> SUFFICES ASSUME Inv, [Next]_vars, subject' = "library" PROVE LibraryInv'
    OBVIOUS
  <2>1. subject = "library" /\ [Library!Next]_(Library!vars)
    BY DEF Next, vars, Others, library, Library!vars
  <2> QED BY <2>1, LibraryStep
<1>3. Inv /\ [Next]_vars => [\A t \in Templates : \A i \in 1..Len(libraryVersions[t]) :
        libraryVersions[t][i].status # "IMPORTING"
          => libraryVersions'[t][i] = libraryVersions[t][i]]_(Library!vars)
  <2> SUFFICES ASSUME Inv, [Next]_vars, ~UNCHANGED Library!vars,
                      NEW t \in Templates, NEW i \in 1..Len(libraryVersions[t]),
                      libraryVersions[t][i].status # "IMPORTING"
               PROVE  libraryVersions'[t][i] = libraryVersions[t][i]
    OBVIOUS
  <2>1. subject = "library" /\ Library!Next
    BY DEF Next, vars, Others, library, Library!vars
  <2> QED BY <2>1, LibraryFrozen
<1> QED BY <1>1, <1>2, <1>3, PTL DEF Spec, VersionIsFrozen, Library!VersionIsFrozen

-----------------------------------------------------------------------------
(* The staging of the missing files *)

StagingAts == {"idle", "directory", "mkdir", "made", "look", "decide", "send", "check",
               "staged", "poll", "verify", "finish"}
StagingWorker == [at : StagingAts, op : Staging!Operations, seen : Staging!Seen,
                  reply : {"ok", "error", "timeout"}]
StagingItem == [status : Staging!Statuses, state : {"PREPARING", "DOWNLOADING"},
                why : {"none", "conflict", "other"}]
StagingClient == [torrent : Staging!Seen, wanted : BOOLEAN, files : BOOLEAN]

StagingTypeInv ==
  /\ stagingItem \in StagingItem /\ stagingJournal \in [Staging!Operations -> Staging!Rows]
  /\ stagingDisk \in {"absent", "ours", "strange"} /\ stagingClient \in StagingClient
  /\ stagingWorker \in StagingWorker /\ stagingWire \subseteq Staging!Requests
  /\ stagingPast \in [sent : [Staging!Requests -> 0..1], made : BOOLEAN, rest : BOOLEAN]
  /\ stagingSound \in BOOLEAN
  /\ stagingFaults \in 0..StagingFaults /\ stagingMeddled \in 0..StagingMeddling
  /\ stagingRetries \in 0..StagingRetries

\* The request went out and is no longer under way: it has had its effect, or never will.
StagingThrough(op) == stagingPast.sent[op] = 1 /\ op \notin stagingWire
StagingMeddled == stagingMeddled > 0
StagingSelected == stagingClient.wanted \/ stagingClient.torrent \notin Staging!Ours
StagingAtRest == stagingClient.torrent # "running" \/ StagingMeddled
StagingStarted == StagingThrough("start") \/ StagingMeddled

\* What the worker is at fits the rows: a request is sent once, after its row.
StagingWorkInv ==
  /\ stagingWorker.at \in {"look", "decide", "send", "check"} => stagingWorker.op \in Staging!Requests
  /\ stagingWorker.at \in {"send", "check"} => stagingJournal[stagingWorker.op] = "INTENT_RECORDED"
  /\ stagingWorker.at = "send" => stagingPast.sent[stagingWorker.op] = 0
  /\ stagingWorker.at \in {"directory", "mkdir", "made"} => stagingWorker.op = "directory"
  /\ stagingWorker.at = "staged" => stagingWorker.op = "start"
  /\ stagingWorker.at \in {"poll", "verify"} => stagingWorker.op = "stop"
  /\ stagingWorker.at = "finish" => stagingWorker.op = "remove"
  /\ stagingWorker.at = "idle" => stagingWorker.op = "directory"
  /\ stagingWorker.at # "idle" => stagingItem.status \in {"AUXILIARY_FETCHING", "DROPPED"}
  /\ \A op \in Staging!Requests :
       /\ stagingJournal[op] = "NONE" => stagingPast.sent[op] = 0
       /\ op \in stagingWire => stagingPast.sent[op] = 1

\* The torrent is there only once its addition is through, so that it never comes
\* back; what was selected then stays so, and only after that is it started.
StagingAddInv ==
  /\ stagingClient.torrent \in Staging!Ours => StagingThrough("add")
  /\ stagingWorker.at = "decide" /\ stagingWorker.seen \in Staging!Ours => StagingThrough("add")
  /\ stagingWorker.at = "made" \/ stagingWorker.op = "add" => stagingPast.made
  /\ stagingPast.sent["add"] > 0 \/ stagingJournal["directory"] = "APPLIED" => stagingPast.made
  /\ stagingWorker.op = "select" /\ stagingWorker.at \in {"decide", "send", "check"}
       => StagingThrough("add")
  /\ stagingWorker.op = "select" /\ stagingWorker.at = "check" /\ stagingWorker.reply = "ok"
       => StagingSelected
  /\ stagingJournal["select"] = "APPLIED" => StagingThrough("add") /\ StagingSelected
  /\ stagingWorker.op = "start" \/ stagingPast.sent["start"] > 0
       => stagingJournal["select"] = "APPLIED"

\* What runs was started by the one request, or by the user; what was stopped stays so.
StagingDownInv ==
  /\ stagingItem.state = "DOWNLOADING" \/ stagingWorker.op \in {"stop", "remove"}
       => StagingThrough("add") /\ StagingStarted
  /\ stagingWorker.at = "staged" \/ stagingClient.torrent = "running" => StagingStarted
  /\ stagingWorker.at = "decide" /\ stagingWorker.seen = "running" => StagingStarted
  /\ stagingWorker.at = "decide" /\ stagingWorker.op = "stop" /\ stagingWorker.seen = "paused"
       => StagingAtRest
  /\ stagingWorker.at = "decide" /\ stagingWorker.op = "remove" /\ stagingWorker.seen = "absent"
       => stagingClient.torrent \notin Staging!Ours
  /\ stagingWorker.at = "verify" => StagingAtRest
  /\ stagingWorker.op = "remove" => stagingSound /\ (stagingPast.rest \/ StagingMeddled)
  /\ stagingWorker.at = "finish" => stagingClient.torrent \notin Staging!Ours
  /\ stagingItem.status = "CONTENT_VERIFIED" =>
       /\ StagingThrough("add") /\ stagingClient.torrent \notin Staging!Ours
       /\ stagingSound /\ (stagingPast.rest \/ StagingMeddled)

\* A removal follows a stop, and only what is given up contradicts that stop later.
StagingRemoveInv ==
  /\ stagingWorker.op = "stop" /\ stagingWorker.at # "poll" => stagingClient.files
  /\ stagingWorker.op = "remove" \/ stagingWorker.at = "verify" =>
       stagingClient.files /\ stagingJournal["stop"] = "APPLIED"
  /\ stagingJournal["remove"] # "NONE" =>
       /\ stagingClient.files /\ stagingJournal["stop"] \in {"APPLIED", "RECONCILE_REQUIRED"}
       /\ stagingItem.status = "AUXILIARY_FETCHING" => stagingJournal["stop"] = "APPLIED"

StagingInv ==
  StagingTypeInv /\ StagingWorkInv /\ StagingAddInv /\ StagingDownInv /\ StagingRemoveInv

LEMMA StagingTypes ==
  ASSUME StagingInv
  PROVE  /\ stagingItem \in StagingItem /\ stagingItem.status \in Staging!Statuses
         /\ stagingItem.state \in {"PREPARING", "DOWNLOADING"}
         /\ stagingClient \in StagingClient /\ stagingClient.torrent \in Staging!Seen
         /\ stagingClient.wanted \in BOOLEAN /\ stagingClient.files \in BOOLEAN
         /\ stagingWorker \in StagingWorker /\ stagingWorker.at \in StagingAts
         /\ stagingWorker.op \in Staging!Operations /\ stagingWorker.seen \in Staging!Seen
         /\ stagingJournal \in [Staging!Operations -> Staging!Rows]
         /\ stagingPast \in [sent : [Staging!Requests -> 0..1], made : BOOLEAN, rest : BOOLEAN]
         /\ stagingPast.sent \in [Staging!Requests -> 0..1]
         /\ stagingPast.made \in BOOLEAN /\ stagingPast.rest \in BOOLEAN
         /\ stagingWire \subseteq Staging!Requests /\ stagingMeddled \in Nat
<1>1. StagingTypeInv
  BY DEF StagingInv
<1>2. /\ stagingItem.status \in Staging!Statuses
      /\ stagingItem.state \in {"PREPARING", "DOWNLOADING"}
  BY <1>1 DEF StagingTypeInv, StagingItem
<1>3. /\ stagingClient.torrent \in Staging!Seen
      /\ stagingClient.wanted \in BOOLEAN /\ stagingClient.files \in BOOLEAN
  BY <1>1 DEF StagingTypeInv, StagingClient
<1>4. /\ stagingWorker.at \in StagingAts
      /\ stagingWorker.op \in Staging!Operations /\ stagingWorker.seen \in Staging!Seen
  BY <1>1 DEF StagingTypeInv, StagingWorker
<1>5. /\ stagingPast.sent \in [Staging!Requests -> 0..1]
      /\ stagingPast.made \in BOOLEAN /\ stagingPast.rest \in BOOLEAN
  BY <1>1 DEF StagingTypeInv
<1>6. stagingMeddled \in Nat
  BY <1>1, StagingAssumption DEF StagingTypeInv
<1> QED BY <1>1, <1>2, <1>3, <1>4, <1>5, <1>6 DEF StagingTypeInv

\* The parts that the actions are made of.
LEMMA StagingGo ==
  ASSUME StagingInv, NEW at \in StagingAts, NEW op \in Staging!Operations, Staging!Go(at, op)
  PROVE  /\ stagingWorker' \in StagingWorker /\ stagingWorker'.at = at /\ stagingWorker'.op = op
         /\ stagingWorker'.seen = stagingWorker.seen
<1>1. stagingWorker \in StagingWorker
  BY StagingTypes
<1>2. stagingWorker' = [stagingWorker EXCEPT !.at = at, !.op = op]
  BY DEF Staging!Go
<1> QED BY <1>1, <1>2 DEF StagingWorker

LEMMA StagingRow ==
  ASSUME StagingInv, NEW op \in Staging!Operations, NEW status \in Staging!Rows,
         Staging!Row(op, status)
  PROVE  /\ stagingJournal' \in [Staging!Operations -> Staging!Rows]
         /\ stagingJournal'[op] = status
         /\ \A o \in Staging!Operations : o # op => stagingJournal'[o] = stagingJournal[o]
BY StagingTypes DEF Staging!Row

LEMMA StagingUnclear ==
  ASSUME StagingInv, NEW op \in Staging!Operations, Staging!Unclear(op)
  PROVE  /\ stagingJournal' \in [Staging!Operations -> Staging!Rows]
         /\ stagingJournal'[op] \in {"NOT_OBSERVED", "RECONCILE_REQUIRED"}
         /\ stagingJournal[op] # "NOT_OBSERVED" => stagingJournal'[op] = "RECONCILE_REQUIRED"
         /\ \A o \in Staging!Operations : o # op => stagingJournal'[o] = stagingJournal[o]
<1>1. PICK status \in {"NOT_OBSERVED", "RECONCILE_REQUIRED"} :
        /\ Staging!Row(op, status)
        /\ stagingJournal[op] # "NOT_OBSERVED" => status = "RECONCILE_REQUIRED"
  BY DEF Staging!Unclear
<1>2. status \in Staging!Rows
  BY DEF Staging!Rows
<1> QED BY <1>1, <1>2, StagingRow

LEMMA StagingIdle ==
  /\ Staging!Idle \in StagingWorker /\ Staging!Idle.at = "idle" /\ Staging!Idle.op = "directory"
BY DEF Staging!Idle, StagingWorker, StagingAts, Staging!Operations, Staging!Seen

LEMMA StagingStatus ==
  ASSUME StagingInv, NEW status \in Staging!Statuses,
         \/ stagingItem' = [stagingItem EXCEPT !.status = status]
         \/ \E why \in {"none", "conflict", "other"} :
               stagingItem' = [stagingItem EXCEPT !.status = status, !.why = why]
  PROVE  /\ stagingItem' \in StagingItem /\ stagingItem'.status = status
         /\ stagingItem'.state = stagingItem.state
BY StagingTypes DEF StagingItem

LEMMA StagingWorks ==
  ASSUME StagingInv, NEW op \in Staging!Requests, stagingClient' = Staging!Works(op, stagingClient)
  PROVE  /\ stagingClient' \in StagingClient /\ stagingClient'.files = stagingClient.files
         /\ op = "add" =>
              IF stagingClient.torrent = "absent"
              THEN stagingClient'.torrent = "paused" ELSE stagingClient' = stagingClient
         /\ op = "select" =>
              /\ stagingClient'.torrent = stagingClient.torrent
              /\ stagingClient.torrent \in Staging!Ours => stagingClient'.wanted
              /\ stagingClient.wanted => stagingClient'.wanted
         /\ op \in {"start", "stop", "remove"} =>
              /\ stagingClient'.wanted = stagingClient.wanted
              /\ stagingClient.torrent \notin Staging!Ours => stagingClient' = stagingClient
              /\ stagingClient.torrent \in Staging!Ours =>
                   stagingClient'.torrent =
                     IF op = "start" THEN "running" ELSE IF op = "stop" THEN "paused" ELSE "absent"
<1>1. stagingClient \in StagingClient
  BY StagingTypes
<1>2. CASE op = "add"
  BY <1>1, <1>2 DEF Staging!Works, StagingClient, Staging!Seen, Staging!Ours
<1>3. CASE op = "select"
  BY <1>1, <1>3 DEF Staging!Works, StagingClient, Staging!Seen, Staging!Ours
<1>4. CASE op \in {"start", "stop", "remove"}
  BY <1>1, <1>4 DEF Staging!Works, StagingClient, Staging!Seen, Staging!Ours
<1> QED BY <1>2, <1>3, <1>4 DEF Staging!Requests

\* A pass ends: the row it was at may be marked, never as applied.
LEMMA StagingEnds ==
  ASSUME StagingInv, stagingWorker' = Staging!Idle,
         UNCHANGED <<stagingDisk, stagingClient, stagingWire, stagingPast, stagingSound,
                     stagingMeddled, stagingRetries>>,
         stagingFaults' \in 0..StagingFaults,
         stagingItem' \in StagingItem,
         stagingItem'.state # stagingItem.state => stagingWorker.at = "staged",
         stagingItem'.status = "AUXILIARY_FETCHING" => stagingItem.status = "AUXILIARY_FETCHING",
         stagingItem'.status = "CONTENT_VERIFIED" =>
           stagingItem.status = "CONTENT_VERIFIED" \/ stagingWorker.at = "finish",
         stagingJournal' \in [Staging!Operations -> Staging!Rows],
         \A op \in Staging!Operations : stagingJournal'[op] # stagingJournal[op] =>
           /\ stagingJournal'[op] \in {"NOT_OBSERVED", "RECONCILE_REQUIRED"}
           /\ op # "select" \/ stagingJournal[op] # "APPLIED"
           /\ op # "remove" \/ stagingJournal[op] # "NONE"
           /\ op # "stop" \/ stagingJournal["remove"] = "NONE"
                \/ (/\ stagingJournal'[op] = "RECONCILE_REQUIRED"
                    /\ stagingItem'.status # "AUXILIARY_FETCHING")
  PROVE  StagingInv'
<1>1. /\ stagingWorker' \in StagingWorker /\ stagingWorker'.at = "idle"
      /\ stagingWorker'.op = "directory"
  BY StagingIdle
<1>2. /\ "select" \in Staging!Operations /\ "remove" \in Staging!Operations
      /\ "stop" \in Staging!Operations /\ "directory" \in Staging!Operations
      /\ Staging!Requests \subseteq Staging!Operations
  BY DEF Staging!Operations, Staging!Requests
<1>3. StagingTypeInv'
  BY <1>1 DEF StagingInv, StagingTypeInv
<1>4. StagingWorkInv'
  BY <1>1, <1>2 DEF StagingInv, StagingWorkInv
<1>5. StagingAddInv'
  BY <1>1, <1>2 DEF StagingInv, StagingAddInv, StagingThrough, StagingSelected
<1>6. StagingDownInv'
  <2>1. stagingWorker.at = "finish" => stagingWorker.op = "remove"
    BY DEF StagingInv, StagingWorkInv
  <2>2. /\ stagingItem'.status = "CONTENT_VERIFIED" =>
             /\ StagingThrough("add") /\ stagingClient.torrent \notin Staging!Ours
             /\ stagingSound /\ (stagingPast.rest \/ StagingMeddled)
        /\ stagingItem'.state = "DOWNLOADING" => StagingThrough("add") /\ StagingStarted
    <3>1. stagingItem'.state = "DOWNLOADING"
            => stagingItem.state = "DOWNLOADING" \/ stagingWorker.at = "staged"
      OBVIOUS
    <3>2. stagingWorker.at = "staged" => StagingThrough("add")
      BY DEF StagingInv, StagingWorkInv, StagingAddInv
    <3> QED BY <2>1, <3>1, <3>2 DEF StagingInv, StagingDownInv
  <2>3. stagingClient.torrent = "running" => StagingStarted
    BY DEF StagingInv, StagingDownInv
  <2> QED BY <1>1, <2>2, <2>3 DEF StagingDownInv, StagingThrough, StagingStarted, StagingMeddled
<1>7. StagingRemoveInv'
  BY <1>1, <1>2 DEF StagingInv, StagingRemoveInv
<1> QED BY <1>3, <1>4, <1>5, <1>6, <1>7 DEF StagingInv

\* The pass ends with an error, or waits for the next one, and leaves the rows.
LEMMA StagingGivesUp ==
  ASSUME StagingInv, NEW why \in {"none", "conflict", "other"}, Staging!Fail(why) \/ Staging!Wait
  PROVE  /\ stagingWorker' = Staging!Idle /\ stagingItem' \in StagingItem
         /\ stagingItem'.state = stagingItem.state
         /\ stagingItem'.status = "AUXILIARY_FETCHING"
              => stagingItem.status = "AUXILIARY_FETCHING" /\ Staging!Wait
         /\ stagingItem'.status = "CONTENT_VERIFIED" => stagingItem.status = "CONTENT_VERIFIED"
<1>1. stagingItem \in StagingItem
  BY StagingTypes
<1>2. CASE Staging!Wait
  BY <1>1, <1>2 DEF Staging!Wait
<1>3. CASE Staging!Fail(why) /\ stagingItem.status = "AUXILIARY_FETCHING"
  <2>1. "MATCH_ERROR" \in Staging!Statuses
    BY DEF Staging!Statuses
  <2>2. /\ stagingWorker' = Staging!Idle
        /\ stagingItem' = [stagingItem EXCEPT !.status = "MATCH_ERROR", !.why = why]
    BY <1>3 DEF Staging!Fail, Staging!Fetching
  <2> QED BY <2>1, <2>2, StagingStatus
<1>4. CASE Staging!Fail(why) /\ stagingItem.status # "AUXILIARY_FETCHING"
  BY <1>1, <1>4 DEF Staging!Fail, Staging!Fetching
<1> QED BY <1>2, <1>3, <1>4


\* Such an end keeps the invariant, without a change of the rows or with one marked:
\* that of the directory, of a request just sent, or of one found to be contradicted.
LEMMA StagingQuits ==
  ASSUME StagingInv, NEW why \in {"none", "conflict", "other"}, Staging!Fail(why) \/ Staging!Wait,
         UNCHANGED <<stagingJournal, stagingDisk, stagingClient, stagingWire, stagingPast,
                     stagingSound, stagingMeddled, stagingRetries>>,
         stagingFaults' \in 0..StagingFaults
  PROVE  StagingInv'
<1>1. stagingJournal' \in [Staging!Operations -> Staging!Rows]
  BY StagingTypes
<1> QED BY <1>1, StagingGivesUp, StagingEnds

LEMMA StagingMarks ==
  ASSUME StagingInv, NEW why \in {"none", "conflict", "other"}, Staging!Fail(why) \/ Staging!Wait,
         UNCHANGED <<stagingDisk, stagingClient, stagingWire, stagingPast, stagingSound,
                     stagingMeddled, stagingRetries>>,
         stagingFaults' \in 0..StagingFaults, NEW op \in Staging!Operations,
         Staging!Unclear(op) \/ (op = "stop" /\ Staging!Row(op, "NOT_OBSERVED")),
         \/ op = "directory" \/ stagingJournal[op] = "INTENT_RECORDED"
         \/ /\ stagingJournal[op] # "NONE" /\ (op = "select" => stagingJournal[op] # "APPLIED")
            /\ Staging!Fail(why) /\ stagingItem.status = "AUXILIARY_FETCHING"
            /\ Staging!Unclear(op)
  PROVE  StagingInv'
<1>1. /\ stagingJournal' \in [Staging!Operations -> Staging!Rows]
      /\ stagingJournal'[op] \in {"NOT_OBSERVED", "RECONCILE_REQUIRED"}
      /\ Staging!Unclear(op) /\ stagingJournal[op] # "NOT_OBSERVED"
           => stagingJournal'[op] = "RECONCILE_REQUIRED"
      /\ \A o \in Staging!Operations : o # op => stagingJournal'[o] = stagingJournal[o]
  <2>1. CASE Staging!Unclear(op)
    BY <2>1, StagingUnclear
  <2>2. CASE ~Staging!Unclear(op)
    <3>1. "NOT_OBSERVED" \in Staging!Rows
      BY DEF Staging!Rows
    <3> QED BY <2>2, <3>1, StagingRow
  <2> QED BY <2>1, <2>2
<1>2. /\ stagingWorker' = Staging!Idle /\ stagingItem' \in StagingItem
      /\ stagingItem'.state = stagingItem.state
      /\ stagingItem'.status = "AUXILIARY_FETCHING" => stagingItem.status = "AUXILIARY_FETCHING"
      /\ stagingItem'.status = "CONTENT_VERIFIED" => stagingItem.status = "CONTENT_VERIFIED"
  BY StagingGivesUp
<1>3. /\ stagingJournal["remove"] # "NONE" => stagingJournal["stop"] \in {"APPLIED", "RECONCILE_REQUIRED"}
      /\ stagingJournal["remove"] # "NONE" /\ stagingItem.status = "AUXILIARY_FETCHING"
           => stagingJournal["stop"] = "APPLIED"
  BY DEF StagingInv, StagingRemoveInv
<1>4. op = "stop" /\ stagingJournal["remove"] # "NONE" =>
        /\ stagingJournal'[op] = "RECONCILE_REQUIRED"
        /\ stagingItem'.status # "AUXILIARY_FETCHING"
  <2> SUFFICES ASSUME op = "stop", stagingJournal["remove"] # "NONE"
               PROVE  /\ stagingJournal'[op] = "RECONCILE_REQUIRED"
                      /\ stagingItem'.status # "AUXILIARY_FETCHING"
    OBVIOUS
  <2>1. /\ Staging!Fail(why) /\ stagingItem.status = "AUXILIARY_FETCHING" /\ Staging!Unclear(op)
    BY <1>3
  <2>2. stagingItem' = [stagingItem EXCEPT !.status = "MATCH_ERROR", !.why = why]
    BY <2>1 DEF Staging!Fail, Staging!Fetching
  <2>3. stagingItem'.status = "MATCH_ERROR"
    BY <2>2, StagingTypes DEF StagingItem
  <2> QED BY <1>1, <1>3, <2>1, <2>3
<1>5. \A o \in Staging!Operations : stagingJournal'[o] # stagingJournal[o] =>
           /\ stagingJournal'[o] \in {"NOT_OBSERVED", "RECONCILE_REQUIRED"}
           /\ o # "select" \/ stagingJournal[o] # "APPLIED"
           /\ o # "remove" \/ stagingJournal[o] # "NONE"
           /\ o # "stop" \/ stagingJournal["remove"] = "NONE"
                \/ (/\ stagingJournal'[o] = "RECONCILE_REQUIRED"
                    /\ stagingItem'.status # "AUXILIARY_FETCHING")
  <2>1. \A o \in Staging!Operations : stagingJournal'[o] # stagingJournal[o] => o = op
    BY <1>1
  <2> QED BY <1>1, <1>4, <2>1
<1> HIDE DEF StagingInv
<1> QED BY <1>1, <1>2, <1>5, StagingEnds

\* The pass goes on inside itself: nothing but the worker changes.
LEMMA StagingBegins == ASSUME StagingInv, Staging!Begin PROVE StagingInv'
<1>1. /\ stagingWorker.at = "idle" /\ stagingItem.status = "AUXILIARY_FETCHING"
      /\ UNCHANGED <<stagingItem, stagingJournal, stagingDisk, stagingClient, stagingWire,
                     stagingPast, stagingSound, stagingFaults, stagingMeddled, stagingRetries>>
  BY DEF Staging!Begin, Staging!Busy, Staging!Fetching
<1>2. PICK at \in StagingAts, op \in Staging!Operations :
        /\ Staging!Go(at, op)
        /\ \/ at = "poll" /\ op = "stop" /\ stagingItem.state = "DOWNLOADING"
           \/ at = "directory" /\ op = "directory"
  <2>1. /\ "poll" \in StagingAts /\ "directory" \in StagingAts
        /\ "stop" \in Staging!Operations /\ "directory" \in Staging!Operations
    BY DEF StagingAts, Staging!Operations, Staging!Requests
  <2> QED BY <2>1 DEF Staging!Begin
<1>3. /\ stagingWorker' \in StagingWorker /\ stagingWorker'.at = at /\ stagingWorker'.op = op
  BY <1>2, StagingGo
<1>4. StagingTypeInv'
  BY <1>1, <1>3 DEF StagingInv, StagingTypeInv
<1>5. StagingWorkInv'
  BY <1>1, <1>2, <1>3 DEF StagingInv, StagingWorkInv
<1>6. StagingAddInv'
  BY <1>1, <1>2, <1>3 DEF StagingInv, StagingAddInv, StagingThrough, StagingSelected
<1>7. StagingDownInv'
  BY <1>1, <1>2, <1>3 DEF StagingInv, StagingDownInv, StagingThrough, StagingStarted, StagingMeddled
<1>8. StagingRemoveInv'
  BY <1>1, <1>2, <1>3 DEF StagingInv, StagingRemoveInv
<1> QED BY <1>4, <1>5, <1>6, <1>7, <1>8 DEF StagingInv

LEMMA StagingDirectories ==
  ASSUME StagingInv, Staging!EnsureDirectory \/ Staging!MakeDirectory \/ Staging!DirectoryMade
  PROVE  StagingInv'
<1>1. /\ "mkdir" \in StagingAts /\ "made" \in StagingAts /\ "look" \in StagingAts
      /\ "add" \in Staging!Operations /\ "directory" \in Staging!Operations
      /\ "INTENT_RECORDED" \in Staging!Rows /\ "APPLIED" \in Staging!Rows
      /\ Staging!Requests \subseteq Staging!Operations /\ "directory" \notin Staging!Requests
      /\ {"add", "select", "start", "stop", "remove"} = Staging!Requests
  BY DEF StagingAts, Staging!Operations, Staging!Requests, Staging!Rows
<1>2. ASSUME NEW at \in StagingAts, NEW op \in Staging!Operations, Staging!Go(at, op),
             stagingWorker.at \in {"directory", "mkdir", "made"},
             UNCHANGED <<stagingItem, stagingClient, stagingWire, stagingSound, stagingFaults,
                         stagingMeddled, stagingRetries>>,
             stagingDisk' \in {"absent", "ours", "strange"},
             stagingPast' = stagingPast \/ stagingPast' = [stagingPast EXCEPT !.made = TRUE],
             stagingJournal' = stagingJournal \/ Staging!Row("directory", "INTENT_RECORDED")
               \/ Staging!Row("directory", "APPLIED"),
             \/ at \in {"mkdir", "made"} /\ op = "directory"
             \/ at = "look" /\ op = "add" /\ stagingPast'.made,
             at = "made" \/ stagingJournal'["directory"] = "APPLIED" => stagingPast'.made
      PROVE  StagingInv'
  <2>1. /\ stagingWorker' \in StagingWorker /\ stagingWorker'.at = at /\ stagingWorker'.op = op
    BY <1>2, StagingGo
  <2>2. /\ stagingJournal' \in [Staging!Operations -> Staging!Rows]
        /\ \A o \in Staging!Requests : stagingJournal'[o] = stagingJournal[o]
    BY <1>1, <1>2, StagingRow, StagingTypes
  <2>3. /\ stagingPast' \in [sent : [Staging!Requests -> 0..1], made : BOOLEAN, rest : BOOLEAN]
        /\ stagingPast'.sent = stagingPast.sent /\ stagingPast'.rest = stagingPast.rest
        /\ stagingPast.made => stagingPast'.made
    BY <1>2, StagingTypes
  <2>4. StagingTypeInv'
    BY <1>2, <2>1, <2>2, <2>3 DEF StagingInv, StagingTypeInv
  <2>5. StagingWorkInv'
    BY <1>1, <1>2, <2>1, <2>2, <2>3 DEF StagingInv, StagingWorkInv
  <2>6. StagingAddInv'
    BY <1>1, <1>2, <2>1, <2>2, <2>3 DEF StagingInv, StagingAddInv, StagingThrough, StagingSelected
  <2>7. StagingDownInv'
    BY <1>1, <1>2, <2>1, <2>2, <2>3
    DEF StagingInv, StagingDownInv, StagingThrough, StagingStarted, StagingMeddled
  <2>8. StagingRemoveInv'
    BY <1>1, <1>2, <2>1, <2>2, <2>3 DEF StagingInv, StagingRemoveInv
  <2> QED BY <2>4, <2>5, <2>6, <2>7, <2>8 DEF StagingInv
<1>3. stagingFaults \in 0..StagingFaults /\ stagingDisk \in {"absent", "ours", "strange"}
  BY DEF StagingInv, StagingTypeInv
<1>4. /\ stagingJournal["directory"] = "APPLIED" => stagingPast.made
      /\ stagingWorker.at = "made" => stagingPast.made
  BY DEF StagingInv, StagingAddInv
<1>5. Staging!Continue("directory") => Staging!Go("look", "add")
  BY DEF Staging!Continue, Staging!Then
<1>6. CASE Staging!EnsureDirectory
  <2>1. /\ stagingWorker.at = "directory"
        /\ UNCHANGED <<stagingDisk, stagingClient, stagingWire, stagingPast, stagingSound,
                       stagingFaults, stagingMeddled, stagingRetries>>
    BY <1>6 DEF Staging!EnsureDirectory, Staging!Busy
  <2>2. CASE /\ Staging!Continue("directory") /\ stagingJournal["directory"] = "APPLIED"
             /\ UNCHANGED <<stagingItem, stagingJournal>>
    <3>1. stagingJournal'["directory"] = "APPLIED" /\ stagingPast'.made
      BY <1>4, <2>1, <2>2
    <3> QED BY <1>1, <1>2, <1>3, <1>5, <2>1, <2>2, <3>1
  <2>3. CASE /\ Staging!Row("directory", "INTENT_RECORDED") /\ Staging!Go("mkdir", "directory")
             /\ UNCHANGED stagingItem
    <3>1. stagingJournal'["directory"] = "INTENT_RECORDED"
      BY <1>1, <2>3, StagingRow
    <3> QED BY <1>1, <1>2, <1>3, <2>1, <2>3, <3>1
  <2>4. CASE /\ Staging!Fail("conflict")
             /\ Staging!Unclear("directory") \/ UNCHANGED stagingJournal
    BY <1>1, <1>3, <2>1, <2>4, StagingMarks, StagingQuits
  <2> QED BY <1>6, <2>2, <2>3, <2>4 DEF Staging!EnsureDirectory
<1>7. CASE Staging!MakeDirectory
  <2>1. /\ stagingWorker.at = "mkdir"
        /\ UNCHANGED <<stagingItem, stagingJournal, stagingClient, stagingWire, stagingSound,
                       stagingFaults, stagingMeddled, stagingRetries>>
    BY <1>7 DEF Staging!MakeDirectory, Staging!Busy
  <2>2. CASE /\ stagingDisk' = "ours" /\ Staging!Go("made", "directory")
             /\ stagingPast' = [stagingPast EXCEPT !.made = TRUE]
    <3>1. stagingPast'.made
      BY <2>2, StagingTypes
    <3> QED BY <1>1, <1>2, <2>1, <2>2, <3>1
  <2>3. CASE stagingWorker' = Staging!Idle /\ UNCHANGED <<stagingDisk, stagingPast>>
    <3>1. Staging!Wait
      BY <2>1, <2>3 DEF Staging!Wait
    <3> QED BY <1>3, <2>1, <2>3, <3>1, StagingQuits
  <2> QED BY <1>7, <2>2, <2>3 DEF Staging!MakeDirectory
<1>8. CASE Staging!DirectoryMade
  <2>1. /\ stagingWorker.at = "made" /\ Staging!Row("directory", "APPLIED")
        /\ Staging!Go("look", "add")
        /\ UNCHANGED <<stagingItem, stagingDisk, stagingClient, stagingWire, stagingPast,
                       stagingSound, stagingFaults, stagingMeddled, stagingRetries>>
    BY <1>5, <1>8 DEF Staging!DirectoryMade, Staging!Busy
  <2>2. stagingPast'.made
    BY <1>4, <2>1
  <2> QED BY <1>1, <1>2, <1>3, <2>1, <2>2
<1> QED BY <1>6, <1>7, <1>8

LEMMA StagingLooks == ASSUME StagingInv, Staging!Look PROVE StagingInv'
<1>1. /\ stagingWorker.at = "look" /\ stagingFaults \in 0..StagingFaults
      /\ UNCHANGED <<stagingJournal, stagingDisk, stagingClient, stagingWire, stagingPast,
                     stagingSound, stagingFaults, stagingMeddled, stagingRetries>>
  BY DEF Staging!Look, Staging!Busy, StagingInv, StagingTypeInv
<1>2. CASE Staging!Fail("other")
  BY <1>1, <1>2, StagingQuits
<1>3. CASE ~Staging!Fail("other")
  <2> DEFINE op == stagingWorker.op torrent == stagingClient.torrent
  <2>1. /\ stagingWorker' = [stagingWorker EXCEPT !.at = "decide", !.seen = torrent]
        /\ UNCHANGED stagingItem /\ torrent # "foreign"
        /\ op \in {"select", "start", "stop"} => torrent # "absent"
    BY <1>3 DEF Staging!Look
  <2>2. /\ stagingWorker' \in StagingWorker /\ stagingWorker'.at = "decide"
        /\ stagingWorker'.op = op /\ stagingWorker'.seen = torrent
    BY <2>1, StagingTypes DEF StagingWorker, StagingAts
  <2>3. op \in {"select", "start", "stop"} => torrent \in Staging!Ours
    BY <2>1, StagingTypes DEF Staging!Seen, Staging!Ours
  <2>4. StagingTypeInv'
    BY <1>1, <2>1, <2>2 DEF StagingInv, StagingTypeInv
  <2>5. StagingWorkInv'
    BY <1>1, <2>1, <2>2 DEF StagingInv, StagingWorkInv
  <2>6. StagingAddInv'
    BY <1>1, <2>1, <2>2, <2>3 DEF StagingInv, StagingAddInv, StagingThrough, StagingSelected
  <2>7. StagingDownInv'
    BY <1>1, <2>1, <2>2 DEF StagingInv, StagingDownInv, StagingThrough, StagingStarted,
       StagingMeddled, StagingAtRest, Staging!Ours
  <2>8. StagingRemoveInv'
    BY <1>1, <2>1, <2>2 DEF StagingInv, StagingRemoveInv
  <2> QED BY <2>4, <2>5, <2>6, <2>7, <2>8 DEF StagingInv
<1> QED BY <1>2, <1>3

\* A request has shown its effect, and the pass goes on to the next.
LEMMA StagingContinues ==
  ASSUME StagingInv, NEW op \in Staging!Requests, op = stagingWorker.op,
         stagingWorker.at \in {"decide", "check"},
         Staging!Row(op, "APPLIED"), Staging!Continue(op),
         UNCHANGED <<stagingItem, stagingDisk, stagingClient, stagingWire, stagingPast,
                     stagingSound, stagingFaults, stagingMeddled, stagingRetries>>,
         op = "add" => StagingThrough("add"),
         op = "select" => StagingThrough("add") /\ StagingSelected,
         op = "start" => StagingStarted, op = "stop" => StagingAtRest,
         op = "remove" => stagingClient.torrent \notin Staging!Ours
  PROVE  StagingInv'
<1>1. /\ "look" \in StagingAts /\ "staged" \in StagingAts /\ "verify" \in StagingAts
      /\ "finish" \in StagingAts /\ "APPLIED" \in Staging!Rows
      /\ Staging!Requests \subseteq Staging!Operations
      /\ Staging!Requests = {"add", "select", "start", "stop", "remove"}
      /\ "directory" \in Staging!Operations
  BY DEF StagingAts, Staging!Operations, Staging!Requests, Staging!Rows
<1>2. /\ stagingJournal' \in [Staging!Operations -> Staging!Rows] /\ stagingJournal'[op] = "APPLIED"
      /\ \A o \in Staging!Operations : o # op => stagingJournal'[o] = stagingJournal[o]
  BY <1>1, StagingRow
<1>3. PICK at \in StagingAts, next \in Staging!Operations :
        /\ Staging!Go(at, next)
        /\ \/ op = "add" /\ at = "look" /\ next = "select"
           \/ op = "select" /\ at = "look" /\ next = "start"
           \/ op = "start" /\ at = "staged" /\ next = "start"
           \/ op = "stop" /\ at = "verify" /\ next = "stop"
           \/ op = "remove" /\ at = "finish" /\ next = "remove"
  <2>1. CASE op = "add"
    BY <1>1, <2>1 DEF Staging!Continue, Staging!Then
  <2>2. CASE op = "select"
    BY <1>1, <2>2 DEF Staging!Continue, Staging!Then
  <2>3. CASE op = "start"
    BY <1>1, <2>3 DEF Staging!Continue, Staging!Then
  <2>4. CASE op = "stop"
    BY <1>1, <2>4 DEF Staging!Continue, Staging!Then
  <2>5. CASE op = "remove"
    BY <1>1, <2>5 DEF Staging!Continue, Staging!Then
  <2> QED BY <1>1, <2>1, <2>2, <2>3, <2>4, <2>5
<1>4. stagingWorker' \in StagingWorker /\ stagingWorker'.at = at /\ stagingWorker'.op = next
  BY <1>3, StagingGo
<1>5. StagingTypeInv'
  BY <1>2, <1>4 DEF StagingInv, StagingTypeInv
<1>6. StagingWorkInv'
  BY <1>1, <1>2, <1>3, <1>4 DEF StagingInv, StagingWorkInv
<1>7. StagingAddInv'
  BY <1>1, <1>2, <1>3, <1>4 DEF StagingInv, StagingAddInv, StagingThrough, StagingSelected
<1>8. StagingDownInv'
  <2>1. op \in {"stop", "remove"} => StagingThrough("add") /\ StagingStarted
    BY DEF StagingInv, StagingDownInv
  <2>2. op = "remove" => stagingSound /\ (stagingPast.rest \/ StagingMeddled)
    BY DEF StagingInv, StagingDownInv
  <2> QED BY <1>3, <1>4, <2>1, <2>2 DEF StagingInv, StagingDownInv, StagingThrough,
          StagingStarted, StagingMeddled, StagingAtRest
<1>9. StagingRemoveInv'
  BY <1>1, <1>2, <1>3, <1>4 DEF StagingInv, StagingRemoveInv
<1> QED BY <1>5, <1>6, <1>7, <1>8, <1>9 DEF StagingInv

LEMMA StagingDecides == ASSUME StagingInv, Staging!Decide PROVE StagingInv'
<1> DEFINE op == stagingWorker.op
<1>1. /\ stagingWorker.at = "decide" /\ stagingFaults \in 0..StagingFaults
      /\ UNCHANGED <<stagingDisk, stagingClient, stagingWire, stagingPast,
                     stagingSound, stagingFaults, stagingMeddled, stagingRetries>>
  BY DEF Staging!Decide, Staging!Busy, StagingInv, StagingTypeInv
<1>2. /\ op \in Staging!Requests /\ Staging!Requests \subseteq Staging!Operations
      /\ op \in Staging!Operations /\ "send" \in StagingAts
      /\ "INTENT_RECORDED" \in Staging!Rows
      /\ Staging!Requests = {"add", "select", "start", "stop", "remove"}
  BY <1>1 DEF StagingInv, StagingWorkInv, Staging!Requests, Staging!Operations, StagingAts,
     Staging!Rows
<1>3. CASE stagingItem.status # "AUXILIARY_FETCHING"
  <2>1. Staging!Fail("other") /\ UNCHANGED stagingJournal
    BY <1>3 DEF Staging!Decide, Staging!Fetching
  <2> QED BY <1>1, <2>1, StagingQuits
<1>4. CASE /\ Staging!Shows(op, stagingWorker.seen) \/ (op = "select" /\ stagingJournal[op] = "APPLIED")
           /\ Staging!Row(op, "APPLIED") /\ Staging!Continue(op) /\ UNCHANGED stagingItem
  <2>1. op = "add" => StagingThrough("add")
    BY <1>1, <1>4 DEF Staging!Shows, StagingInv, StagingAddInv
  <2>2. op = "select" => StagingThrough("add") /\ StagingSelected
    BY <1>1, <1>4 DEF Staging!Shows, StagingInv, StagingAddInv
  <2>3. op = "start" => StagingStarted
    BY <1>1, <1>4 DEF Staging!Shows, StagingInv, StagingDownInv
  <2>4. op = "stop" => StagingAtRest
    BY <1>1, <1>4 DEF Staging!Shows, StagingInv, StagingDownInv
  <2>5. op = "remove" => stagingClient.torrent \notin Staging!Ours
    BY <1>1, <1>4 DEF Staging!Shows, StagingInv, StagingDownInv
  <2> QED BY <1>1, <1>2, <1>4, <2>1, <2>2, <2>3, <2>4, <2>5, StagingContinues
<1>5. CASE /\ Staging!MaySend(op) /\ Staging!Row(op, "INTENT_RECORDED") /\ Staging!Go("send", op)
           /\ UNCHANGED stagingItem
  <2>1. /\ stagingJournal' \in [Staging!Operations -> Staging!Rows]
        /\ stagingJournal[op] = "NONE" /\ stagingJournal'[op] = "INTENT_RECORDED"
        /\ \A o \in Staging!Operations : o # op => stagingJournal'[o] = stagingJournal[o]
    BY <1>2, <1>5, StagingRow DEF Staging!MaySend
  <2>2. stagingWorker' \in StagingWorker /\ stagingWorker'.at = "send" /\ stagingWorker'.op = op
    BY <1>2, <1>5, StagingGo
  <2>3. stagingPast.sent[op] = 0 /\ "directory" \in Staging!Operations
    BY <1>2, <2>1 DEF StagingInv, StagingWorkInv, Staging!Operations
  <2> HIDE DEF op
  <2>4. stagingWorker.op = op
    BY DEF op
  <2>5. StagingTypeInv'
    BY <1>1, <1>5, <2>1, <2>2 DEF StagingInv, StagingTypeInv
  <2>6. StagingWorkInv'
    BY <1>1, <1>2, <1>5, <2>1, <2>2, <2>3, <2>4 DEF StagingInv, StagingWorkInv
  <2>7. StagingAddInv'
    BY <1>1, <1>2, <1>5, <2>1, <2>2, <2>3, <2>4
    DEF StagingInv, StagingAddInv, StagingThrough, StagingSelected
  <2>8. StagingDownInv'
    BY <1>1, <1>5, <2>1, <2>2, <2>4
    DEF StagingInv, StagingDownInv, StagingThrough, StagingStarted, StagingMeddled, StagingAtRest
  <2>9. StagingRemoveInv'
    BY <1>1, <1>2, <1>5, <2>1, <2>2, <2>4 DEF StagingInv, StagingRemoveInv
  <2> QED BY <2>5, <2>6, <2>7, <2>8, <2>9 DEF StagingInv
<1>6. CASE /\ stagingItem.status = "AUXILIARY_FETCHING" /\ ~Staging!MaySend(op)
           /\ op = "select" => stagingJournal[op] # "APPLIED"
           /\ Staging!Unclear(op)
           /\ \E why \in {"conflict", "other"} : Staging!Fail(why)
  <2>1. PICK why \in {"none", "conflict", "other"} : Staging!Fail(why)
    BY <1>6
  <2>2. stagingJournal[op] # "NONE"
    BY <1>6 DEF Staging!MaySend
  <2> QED BY <1>1, <1>2, <1>6, <2>1, <2>2, StagingMarks
<1> QED BY <1>3, <1>4, <1>5, <1>6 DEF Staging!Decide, Staging!Fetching

\* A request goes out: it takes its effect, or not, or is still under way.
LEMMA StagingSends ==
  ASSUME StagingInv, Staging!Send \/ Staging!SendFails("error") \/ Staging!SendFails("timeout")
  PROVE  StagingInv'
<1> DEFINE op == stagingWorker.op
<1>1. /\ stagingWorker.at = "send"
      /\ UNCHANGED <<stagingItem, stagingJournal, stagingDisk, stagingSound, stagingMeddled,
                     stagingRetries>>
      /\ stagingPast' = [stagingPast EXCEPT !.sent[op] = @ + 1]
  BY DEF Staging!Send, Staging!SendFails, Staging!Busy, Staging!Sent
<1>2. /\ op \in Staging!Requests /\ stagingPast.sent[op] = 0
      /\ stagingJournal[op] = "INTENT_RECORDED" /\ op \notin stagingWire
      /\ Staging!Requests = {"add", "select", "start", "stop", "remove"}
      /\ stagingItem.status \in {"AUXILIARY_FETCHING", "DROPPED"}
  <2>1. /\ op \in Staging!Requests /\ stagingPast.sent[op] = 0
        /\ stagingJournal[op] = "INTENT_RECORDED"
        /\ stagingItem.status \in {"AUXILIARY_FETCHING", "DROPPED"}
        /\ \A o \in Staging!Requests : o \in stagingWire => stagingPast.sent[o] = 1
    BY <1>1 DEF StagingInv, StagingWorkInv
  <2> QED BY <2>1 DEF Staging!Requests
<1>3. PICK reply \in {"ok", "error", "timeout"} :
        stagingWorker' = [stagingWorker EXCEPT !.at = "check", !.reply = reply]
  BY DEF Staging!Send, Staging!SendFails
<1>4. stagingFaults' \in 0..StagingFaults
  BY StagingAssumption DEF Staging!Send, Staging!SendFails, Staging!Fault, StagingInv, StagingTypeInv
<1>5. \/ stagingClient' = Staging!Works(op, stagingClient) /\ stagingWire' = stagingWire
      \/ /\ stagingClient' = stagingClient /\ reply # "ok"
         /\ stagingWire' = stagingWire \/ stagingWire' = stagingWire \cup {op}
  <2>1. CASE Staging!Send
    BY <2>1 DEF Staging!Send
  <2>2. CASE ~Staging!Send
    <3>1. stagingWorker'.reply # "ok" \/ reply = "ok"
      BY <2>2, StagingTypes DEF Staging!SendFails, StagingWorker
    <3>2. stagingWorker'.reply = reply
      BY <1>3, StagingTypes DEF StagingWorker
    <3>3. stagingWorker'.reply # "ok"
      BY <2>2, StagingTypes DEF Staging!SendFails, StagingWorker
    <3> QED BY <2>2, <3>2, <3>3 DEF Staging!SendFails
  <2> QED BY <2>1, <2>2
<1>6. /\ stagingWorker' \in StagingWorker /\ stagingWorker'.at = "check" /\ stagingWorker'.op = op
      /\ stagingWorker'.reply = reply
  BY <1>3, StagingTypes DEF StagingWorker, StagingAts
<1>7. /\ stagingPast' \in [sent : [Staging!Requests -> 0..1], made : BOOLEAN, rest : BOOLEAN]
      /\ stagingPast'.sent[op] = 1 /\ stagingPast'.made = stagingPast.made
      /\ stagingPast'.rest = stagingPast.rest
      /\ \A o \in Staging!Requests : o # op => stagingPast'.sent[o] = stagingPast.sent[o]
  <2> DEFINE sent == [stagingPast.sent EXCEPT ![op] = 1]
  <2>1. stagingPast' = [stagingPast EXCEPT !.sent = sent]
    BY <1>1, <1>2, StagingTypes
  <2>2. /\ sent \in [Staging!Requests -> 0..1] /\ sent[op] = 1
        /\ \A o \in Staging!Requests : o # op => sent[o] = stagingPast.sent[o]
    BY <1>2, StagingTypes
  <2> HIDE DEF sent, op
  <2> QED BY <2>1, <2>2, StagingTypes
<1> DEFINE c == stagingClient d == stagingClient'
<1>8. /\ d \in StagingClient /\ d.files = c.files
      /\ d.torrent \in Staging!Ours => c.torrent \in Staging!Ours \/ op = "add"
      /\ d.torrent = "running" => c.torrent = "running" \/ op = "start"
      /\ c.wanted /\ op # "add" => d.wanted
      /\ op = "select" /\ reply = "ok" /\ d.torrent \in Staging!Ours => d.wanted
      /\ op \in {"add", "start"} /\ op \in stagingWire' => d = c
  <2>1. CASE stagingClient' = Staging!Works(op, stagingClient) /\ stagingWire' = stagingWire
    <3> HIDE DEF op
    <3>1. /\ d \in StagingClient /\ d.files = c.files
          /\ op = "add" =>
              IF c.torrent = "absent" THEN d.torrent = "paused" ELSE d = c
          /\ op = "select" =>
              /\ d.torrent = c.torrent
              /\ c.torrent \in Staging!Ours => d.wanted
              /\ c.wanted => d.wanted
          /\ op \in {"start", "stop", "remove"} =>
              /\ d.wanted = c.wanted
              /\ c.torrent \notin Staging!Ours => d = c
              /\ c.torrent \in Staging!Ours =>
                   d.torrent = IF op = "start" THEN "running" ELSE IF op = "stop" THEN "paused" ELSE "absent"
      BY <1>2, <2>1, StagingWorks
    <3> QED BY <1>2, <2>1, <3>1 DEF Staging!Ours
  <2>2. CASE stagingClient' = stagingClient /\ reply # "ok"
    BY <2>2, StagingTypes
  <2> QED BY <1>5, <2>1, <2>2
<1>9. /\ stagingWire' \subseteq Staging!Requests
      /\ \A o \in Staging!Requests : o # op => (o \in stagingWire' <=> o \in stagingWire)
  BY <1>2, <1>5, StagingTypes
<1> HIDE DEF op, c, d
<1>10. /\ op = stagingWorker.op /\ c = stagingClient /\ d = stagingClient'
  BY DEF op, c, d
<1>11. /\ \A o \in {"add", "start"} : StagingThrough(o) => o # op /\ StagingThrough(o)'
       /\ op = "add" => ~StagingThrough("add") /\ (d.torrent = c.torrent \/ StagingThrough("add")')
       /\ op = "start" => ~StagingThrough("start") /\ (d = c \/ StagingThrough("start")')
       /\ StagingMeddled' <=> StagingMeddled
  BY <1>1, <1>2, <1>7, <1>8, <1>9 DEF StagingThrough, StagingMeddled
<1>12. StagingTypeInv'
  BY <1>1, <1>4, <1>6, <1>7, <1>8, <1>9, <1>10 DEF StagingInv, StagingTypeInv
<1>13. StagingWorkInv'
  BY <1>1, <1>2, <1>6, <1>7, <1>9 DEF StagingInv, StagingWorkInv
<1>14. StagingAddInv'
  <2>1. d.torrent \in Staging!Ours => StagingThrough("add")'
    BY <1>8, <1>10, <1>11 DEF StagingInv, StagingAddInv
  <2>2. op = "add" => stagingPast'.made
    BY <1>7, <1>10 DEF StagingInv, StagingAddInv
  <2>3. stagingPast'.sent["add"] > 0 \/ stagingJournal'["directory"] = "APPLIED" => stagingPast'.made
    <3>1. stagingPast'.sent["add"] > 0 => op = "add" \/ stagingPast.sent["add"] > 0
      BY <1>2, <1>7
    <3> QED BY <1>1, <1>7, <2>2, <3>1 DEF StagingInv, StagingAddInv
  <2>4. op = "select" => StagingThrough("add")'
    BY <1>1, <1>10, <1>11 DEF StagingInv, StagingAddInv
  <2>5. stagingJournal'["select"] = "APPLIED" => StagingThrough("add")' /\ StagingSelected'
    <3>1. stagingJournal["select"] = "APPLIED" => StagingThrough("add") /\ StagingSelected /\ op # "add"
      BY <1>11 DEF StagingInv, StagingAddInv
    <3> QED BY <1>1, <1>8, <1>10, <1>11, <3>1 DEF StagingSelected
  <2>6. op = "select" /\ reply = "ok" => StagingSelected'
    BY <1>8, <1>10 DEF StagingSelected
  <2>7. op = "start" \/ stagingPast'.sent["start"] > 0 => stagingJournal'["select"] = "APPLIED"
    <3>1. stagingPast'.sent["start"] > 0 => op = "start" \/ stagingPast.sent["start"] > 0
      BY <1>2, <1>7
    <3> QED BY <1>1, <1>10, <3>1 DEF StagingInv, StagingAddInv
  <2> QED BY <1>6, <1>10, <2>1, <2>2, <2>3, <2>4, <2>5, <2>6, <2>7 DEF StagingAddInv
<1>15. StagingDownInv'
  <2>1. StagingStarted => StagingStarted'
    BY <1>11 DEF StagingStarted
  <2>2. d.torrent = "running" => StagingStarted'
    <3>1. c.torrent = "running" => StagingStarted
      BY <1>10 DEF StagingInv, StagingDownInv
    <3>2. CASE c.torrent = "running"
      BY <2>1, <3>1, <3>2
    <3>3. CASE c.torrent # "running" /\ d.torrent = "running"
      BY <1>8, <1>11, <3>3 DEF StagingStarted
    <3> QED BY <3>2, <3>3
  <2>3. stagingItem'.state = "DOWNLOADING" \/ op \in {"stop", "remove"}
          => StagingThrough("add")' /\ StagingStarted'
    BY <1>1, <1>10, <1>11, <2>1 DEF StagingInv, StagingDownInv
  <2>4. op = "remove" => stagingSound' /\ (stagingPast'.rest \/ StagingMeddled')
    BY <1>1, <1>7, <1>10, <1>11 DEF StagingInv, StagingDownInv
  <2> QED BY <1>1, <1>2, <1>6, <1>10, <2>2, <2>3, <2>4 DEF StagingDownInv
<1>16. StagingRemoveInv'
  BY <1>1, <1>6, <1>8, <1>10 DEF StagingInv, StagingRemoveInv
<1> QED BY <1>12, <1>13, <1>14, <1>15, <1>16 DEF StagingInv

LEMMA StagingChecks == ASSUME StagingInv, Staging!Check PROVE StagingInv'
<1> DEFINE op == stagingWorker.op seen == stagingClient.torrent
<1>1. /\ stagingWorker.at = "check" /\ stagingFaults \in 0..StagingFaults
      /\ UNCHANGED <<stagingDisk, stagingClient, stagingWire, stagingPast,
                     stagingSound, stagingFaults, stagingMeddled, stagingRetries>>
  BY DEF Staging!Check, Staging!Busy, StagingInv, StagingTypeInv
<1>2. /\ op \in Staging!Requests /\ op \in Staging!Operations
      /\ stagingJournal[op] = "INTENT_RECORDED"
  BY <1>1 DEF StagingInv, StagingWorkInv, Staging!Requests, Staging!Operations
<1>3. CASE /\ ~Staging!NeverLooks(op, stagingWorker.reply)
           /\ op = "select" \/ Staging!Shows(op, seen)
           /\ Staging!Row(op, "APPLIED") /\ Staging!Continue(op) /\ UNCHANGED stagingItem
  <2>1. op = "add" => StagingThrough("add")
    BY <1>1, <1>3 DEF Staging!Shows, StagingInv, StagingAddInv
  <2>2. op = "select" => StagingThrough("add") /\ StagingSelected
    BY <1>1, <1>3 DEF Staging!NeverLooks, StagingInv, StagingAddInv
  <2>3. op = "start" => StagingStarted
    BY <1>1, <1>3 DEF Staging!Shows, StagingInv, StagingDownInv
  <2>4. op = "stop" => StagingAtRest
    BY <1>1, <1>3 DEF Staging!Shows, StagingAtRest
  <2>5. op = "remove" => stagingClient.torrent \notin Staging!Ours
    BY <1>1, <1>3 DEF Staging!Shows, Staging!Ours
  <2> QED BY <1>1, <1>2, <1>3, <2>1, <2>2, <2>3, <2>4, <2>5, StagingContinues
<1>4. CASE Staging!Fail("other") /\ UNCHANGED stagingJournal
  BY <1>1, <1>4, StagingQuits
<1>5. CASE /\ Staging!Unclear(op) \/ (op = "stop" /\ Staging!Row(op, "NOT_OBSERVED"))
           /\ Staging!Wait \/ \E why \in {"conflict", "other"} : Staging!Fail(why)
  <2>1. PICK why \in {"none", "conflict", "other"} : Staging!Fail(why) \/ Staging!Wait
    BY <1>5
  <2> QED BY <1>1, <1>2, <1>5, <2>1, StagingMarks
<1> QED BY <1>3, <1>4, <1>5 DEF Staging!Check

LEMMA StagingUnreached == ASSUME StagingInv, Staging!Unreachable PROVE StagingInv'
<1>1. /\ UNCHANGED <<stagingDisk, stagingClient, stagingWire, stagingPast,
                     stagingSound, stagingMeddled, stagingRetries>>
      /\ stagingFaults' \in 0..StagingFaults
      /\ Staging!Wait \/ Staging!Fail("other")
  BY StagingAssumption DEF Staging!Unreachable, Staging!Fault, StagingInv, StagingTypeInv
<1>2. CASE UNCHANGED stagingJournal
  BY <1>1, <1>2, StagingQuits
<1>3. CASE stagingWorker.at = "check" /\ Staging!Unclear(stagingWorker.op)
  <2>1. stagingWorker.op \in Staging!Operations /\ stagingJournal[stagingWorker.op] = "INTENT_RECORDED"
    BY <1>3, StagingTypes DEF StagingInv, StagingWorkInv
  <2> QED BY <1>1, <1>3, <2>1, StagingMarks
<1> QED BY <1>2, <1>3 DEF Staging!Unreachable, Staging!Busy

LEMMA StagingCloses ==
  ASSUME StagingInv, Staging!Staged \/ Staging!Finish \/ Staging!Crash
  PROVE  StagingInv'
<1>1. /\ stagingWorker' = Staging!Idle /\ stagingFaults' \in 0..StagingFaults
      /\ UNCHANGED <<stagingJournal, stagingDisk, stagingClient, stagingWire, stagingPast,
                     stagingSound, stagingMeddled, stagingRetries>>
  BY StagingAssumption DEF Staging!Staged, Staging!Finish, Staging!Crash, Staging!Fault,
     StagingInv, StagingTypeInv
<1>2. /\ stagingItem' \in StagingItem
      /\ stagingItem'.state # stagingItem.state => stagingWorker.at = "staged"
      /\ stagingItem'.status = "AUXILIARY_FETCHING" => stagingItem.status = "AUXILIARY_FETCHING"
      /\ stagingItem'.status = "CONTENT_VERIFIED" =>
           stagingItem.status = "CONTENT_VERIFIED" \/ stagingWorker.at = "finish"
  <2>1. stagingItem \in StagingItem
    BY StagingTypes
  <2>2. CASE UNCHANGED stagingItem
    BY <2>1, <2>2
  <2>3. CASE stagingWorker.at = "staged" /\ stagingItem' = [stagingItem EXCEPT !.state = "DOWNLOADING"]
    BY <2>1, <2>3 DEF StagingItem
  <2>4. CASE stagingWorker.at = "finish" /\ stagingItem' = [stagingItem EXCEPT !.status = "CONTENT_VERIFIED"]
    <3>1. "CONTENT_VERIFIED" \in Staging!Statuses
      BY DEF Staging!Statuses
    <3> QED BY <2>4, <3>1, StagingStatus
  <2> QED BY <2>2, <2>3, <2>4 DEF Staging!Staged, Staging!Finish, Staging!Crash, Staging!Busy
<1>3. stagingJournal' \in [Staging!Operations -> Staging!Rows]
  BY <1>1, StagingTypes
<1> QED BY <1>1, <1>2, <1>3, StagingEnds

LEMMA StagingPolls == ASSUME StagingInv, Staging!Poll PROVE StagingInv'
<1>1. /\ stagingWorker.at = "poll" /\ stagingFaults \in 0..StagingFaults
      /\ UNCHANGED <<stagingJournal, stagingDisk, stagingClient, stagingWire, stagingPast,
                     stagingSound, stagingFaults, stagingMeddled, stagingRetries>>
  BY DEF Staging!Poll, Staging!Busy, StagingInv, StagingTypeInv
<1>2. stagingWorker.op = "stop" /\ stagingItem.status \in {"AUXILIARY_FETCHING", "DROPPED"}
  BY <1>1 DEF StagingInv, StagingWorkInv
<1>3. ASSUME NEW at \in {"look", "verify"}, Staging!Go(at, "stop"), UNCHANGED stagingItem,
             stagingClient.files,
             at = "verify" => stagingClient.torrent = "absent" /\ stagingJournal["stop"] = "APPLIED"
      PROVE  StagingInv'
  <2>1. at \in StagingAts /\ "stop" \in Staging!Operations /\ "stop" \in Staging!Requests
    BY DEF StagingAts, Staging!Operations, Staging!Requests
  <2>2. stagingWorker' \in StagingWorker /\ stagingWorker'.at = at /\ stagingWorker'.op = "stop"
    BY <1>3, <2>1, StagingGo
  <2>3. StagingTypeInv'
    BY <1>1, <1>3, <2>2 DEF StagingInv, StagingTypeInv
  <2>4. StagingWorkInv'
    BY <1>1, <1>2, <1>3, <2>1, <2>2 DEF StagingInv, StagingWorkInv
  <2>5. StagingAddInv'
    BY <1>1, <1>2, <1>3, <2>2 DEF StagingInv, StagingAddInv, StagingThrough, StagingSelected
  <2>6. StagingDownInv'
    BY <1>1, <1>2, <1>3, <2>2 DEF StagingInv, StagingDownInv, StagingThrough, StagingStarted,
       StagingMeddled, StagingAtRest
  <2>7. StagingRemoveInv'
    BY <1>1, <1>2, <1>3, <2>2 DEF StagingInv, StagingRemoveInv
  <2> QED BY <2>3, <2>4, <2>5, <2>6, <2>7 DEF StagingInv
<1>4. CASE stagingWorker' = Staging!Idle /\ UNCHANGED stagingItem
  BY <1>1, <1>4, StagingQuits DEF Staging!Wait
<1>5. CASE \E why \in {"conflict", "other"} : Staging!Fail(why)
  <2>1. PICK why \in {"none", "conflict", "other"} : Staging!Fail(why)
    BY <1>5
  <2> QED BY <1>1, <2>1, StagingQuits
<1> QED BY <1>3, <1>4, <1>5 DEF Staging!Poll, Staging!RemovedByUs

LEMMA StagingVerifies == ASSUME StagingInv, Staging!Verify PROVE StagingInv'
<1>1. /\ stagingWorker.at = "verify"
      /\ UNCHANGED <<stagingJournal, stagingDisk, stagingClient, stagingWire,
                     stagingSound, stagingFaults, stagingMeddled, stagingRetries>>
      /\ stagingPast' = [stagingPast EXCEPT !.rest = stagingClient.torrent # "running"]
  BY DEF Staging!Verify, Staging!Busy
<1>2. /\ stagingWorker.op = "stop" /\ stagingItem.status \in {"AUXILIARY_FETCHING", "DROPPED"}
      /\ stagingClient.files /\ stagingJournal["stop"] = "APPLIED"
      /\ StagingThrough("add") /\ StagingStarted /\ StagingAtRest
  BY <1>1 DEF StagingInv, StagingWorkInv, StagingRemoveInv, StagingDownInv
<1>3. /\ stagingPast' \in [sent : [Staging!Requests -> 0..1], made : BOOLEAN, rest : BOOLEAN]
      /\ stagingPast'.sent = stagingPast.sent /\ stagingPast'.made = stagingPast.made
      /\ stagingPast'.rest <=> stagingClient.torrent # "running"
  BY <1>1, StagingTypes
<1>4. PICK at \in {"look", "idle"}, op \in {"remove", "directory"} :
        /\ stagingWorker' \in StagingWorker /\ stagingWorker'.at = at /\ stagingWorker'.op = op
        /\ at = "look" <=> op = "remove"
        /\ op = "remove" => stagingSound /\ UNCHANGED stagingItem
  <2>1. CASE Staging!Go("look", "remove") /\ stagingSound /\ UNCHANGED stagingItem
    <3>1. "look" \in StagingAts /\ "remove" \in Staging!Operations
      BY DEF StagingAts, Staging!Operations, Staging!Requests
    <3>2. stagingWorker' \in StagingWorker /\ stagingWorker'.at = "look" /\ stagingWorker'.op = "remove"
      BY <2>1, <3>1, StagingGo
    <3> QED BY <2>1, <3>2
  <2>2. CASE stagingWorker' = Staging!Idle
    BY <2>2, StagingIdle
  <2> QED BY <2>1, <2>2 DEF Staging!Verify
<1>5. /\ stagingItem' \in StagingItem /\ stagingItem'.state = stagingItem.state
      /\ op = "remove" => stagingItem'.status = stagingItem.status
      /\ stagingItem'.status \in {stagingItem.status, "CONTENT_MISMATCH"}
  <2>1. "CONTENT_MISMATCH" \in Staging!Statuses /\ stagingItem \in StagingItem
    BY StagingTypes DEF Staging!Statuses
  <2>2. \/ UNCHANGED stagingItem
        \/ stagingItem' = [stagingItem EXCEPT !.status = "CONTENT_MISMATCH"] /\ op # "remove"
    <3>1. CASE op = "remove"
      BY <1>4, <3>1
    <3>2. CASE op # "remove"
      BY <3>2 DEF Staging!Verify
    <3> QED BY <3>1, <3>2
  <2> QED BY <2>1, <2>2, StagingStatus
<1>6. "remove" \in Staging!Requests /\ "directory" \notin Staging!Requests
  BY DEF Staging!Requests
<1>7. StagingTypeInv'
  BY <1>1, <1>3, <1>4, <1>5 DEF StagingInv, StagingTypeInv
<1>8. StagingWorkInv'
  BY <1>1, <1>2, <1>3, <1>4, <1>5, <1>6 DEF StagingInv, StagingWorkInv
<1>9. StagingAddInv'
  BY <1>1, <1>2, <1>3, <1>4 DEF StagingInv, StagingAddInv, StagingThrough, StagingSelected
<1>10. StagingDownInv'
  BY <1>1, <1>2, <1>3, <1>4, <1>5 DEF StagingInv, StagingDownInv, StagingThrough, StagingStarted,
     StagingMeddled, StagingAtRest
<1>11. StagingRemoveInv'
  BY <1>1, <1>2, <1>3, <1>4, <1>5 DEF StagingInv, StagingRemoveInv
<1> QED BY <1>7, <1>8, <1>9, <1>10, <1>11 DEF StagingInv

\* A late request arrives: only then is it through.
LEMMA StagingArrives == ASSUME StagingInv, NEW op \in Staging!Requests, Staging!Arrive(op) PROVE StagingInv'
<1> DEFINE c == stagingClient d == stagingClient'
<1>1. /\ op \in stagingWire /\ stagingWire' = stagingWire \ {op}
      /\ d = Staging!Works(op, c)
      /\ UNCHANGED <<stagingItem, stagingJournal, stagingDisk, stagingWorker, stagingPast,
                     stagingSound, stagingFaults, stagingMeddled, stagingRetries>>
  BY DEF Staging!Arrive
<1>2. /\ stagingPast.sent[op] = 1
      /\ Staging!Requests = {"add", "select", "start", "stop", "remove"}
      /\ stagingWire' \subseteq Staging!Requests
  BY <1>1, StagingTypes DEF StagingInv, StagingWorkInv, Staging!Requests
<1>3. /\ d \in StagingClient /\ d.files = c.files
      /\ d.torrent \in Staging!Ours => c.torrent \in Staging!Ours \/ op = "add"
      /\ d.torrent = "running" => c.torrent = "running" \/ op = "start"
      /\ c.wanted /\ op # "add" => d.wanted
  <2> HIDE DEF c, d
  <2>1. c = stagingClient /\ d = stagingClient'
    BY DEF c, d
  <2>2. /\ d \in StagingClient /\ d.files = c.files
        /\ op = "add" => IF c.torrent = "absent" THEN d.torrent = "paused" ELSE d = c
        /\ op = "select" => d.torrent = c.torrent /\ (c.wanted => d.wanted)
        /\ op \in {"start", "stop", "remove"} =>
             /\ d.wanted = c.wanted
             /\ c.torrent \notin Staging!Ours => d = c
             /\ c.torrent \in Staging!Ours =>
                  d.torrent = IF op = "start" THEN "running" ELSE IF op = "stop" THEN "paused" ELSE "absent"
    BY <1>1, <2>1, StagingWorks
  <2> QED BY <1>2, <2>2 DEF Staging!Ours
<1>4. /\ ~StagingThrough(op) /\ StagingThrough(op)'
      /\ \A o \in {"add", "start"} : StagingThrough(o) => o # op /\ StagingThrough(o)'
      /\ StagingMeddled' <=> StagingMeddled
  BY <1>1, <1>2 DEF StagingThrough, StagingMeddled
<1>5. StagingTypeInv'
  BY <1>1, <1>2, <1>3 DEF StagingInv, StagingTypeInv
<1>6. StagingWorkInv'
  BY <1>1 DEF StagingInv, StagingWorkInv
<1> HIDE DEF c, d
<1>7. c = stagingClient /\ d = stagingClient'
  BY DEF c, d
<1>8. StagingStarted => StagingStarted'
  BY <1>4 DEF StagingStarted
<1>9. StagingThrough("add") => (d.torrent \in Staging!Ours => c.torrent \in Staging!Ours)
  BY <1>3, <1>4
<1>10. StagingThrough("add") /\ StagingSelected => StagingSelected'
  BY <1>3, <1>4, <1>7, <1>9 DEF StagingSelected
<1>11. StagingStarted /\ StagingAtRest => StagingAtRest'
  BY <1>3, <1>4, <1>7 DEF StagingStarted, StagingAtRest
<1>12. StagingAddInv'
  <2>1. d.torrent \in Staging!Ours => StagingThrough("add")'
    BY <1>3, <1>4, <1>7 DEF StagingInv, StagingAddInv
  <2> QED BY <1>1, <1>4, <1>7, <1>10, <2>1 DEF StagingInv, StagingAddInv
<1>13. StagingDownInv'
  <2>1. d.torrent = "running" => StagingStarted'
    <3>1. c.torrent = "running" => StagingStarted
      BY <1>7 DEF StagingInv, StagingDownInv
    <3>2. op = "start" => StagingStarted'
      BY <1>4 DEF StagingStarted
    <3> QED BY <1>3, <1>8, <3>1, <3>2
  <2>2. /\ stagingItem' = stagingItem /\ stagingWorker' = stagingWorker
        /\ stagingPast' = stagingPast /\ stagingSound' = stagingSound
    BY <1>1
  <2>3. StagingThrough("add") => /\ StagingThrough("add")'
                                 /\ d.torrent \in Staging!Ours => c.torrent \in Staging!Ours
    BY <1>4, <1>9
  <2>4. stagingItem.state = "DOWNLOADING" \/ stagingWorker.op \in {"stop", "remove"}
          => /\ StagingThrough("add")' /\ StagingStarted'
             /\ StagingAtRest => StagingAtRest'
             /\ d.torrent \in Staging!Ours => c.torrent \in Staging!Ours
    BY <1>8, <1>11, <2>3 DEF StagingInv, StagingDownInv
  <2>5. /\ stagingWorker.at = "staged" => StagingStarted'
        /\ stagingWorker.at = "decide" /\ stagingWorker.seen = "running" => StagingStarted'
    BY <1>8 DEF StagingInv, StagingDownInv
  <2>6. stagingWorker.at = "decide" /\ stagingWorker.op = "stop" /\ stagingWorker.seen = "paused"
          => StagingAtRest'
    BY <2>4 DEF StagingInv, StagingDownInv
  <2>7. stagingWorker.at = "verify" => StagingAtRest'
    <3>1. stagingWorker.at = "verify" => stagingWorker.op = "stop"
      BY DEF StagingInv, StagingWorkInv
    <3> QED BY <2>4, <3>1 DEF StagingInv, StagingDownInv
  <2>8. stagingWorker.at = "decide" /\ stagingWorker.op = "remove" /\ stagingWorker.seen = "absent"
          => d.torrent \notin Staging!Ours
    BY <1>7, <2>4 DEF StagingInv, StagingDownInv
  <2>9. stagingWorker.at = "finish" => d.torrent \notin Staging!Ours
    <3>1. stagingWorker.at = "finish" => stagingWorker.op = "remove"
      BY DEF StagingInv, StagingWorkInv
    <3> QED BY <1>7, <2>4, <3>1 DEF StagingInv, StagingDownInv
  <2>10. stagingWorker.op = "remove" => stagingSound /\ (stagingPast.rest \/ StagingMeddled')
    BY <1>4 DEF StagingInv, StagingDownInv
  <2>11. stagingItem.status = "CONTENT_VERIFIED" =>
           /\ StagingThrough("add")' /\ d.torrent \notin Staging!Ours
           /\ stagingSound /\ (stagingPast.rest \/ StagingMeddled')
    BY <1>4, <1>7, <2>3 DEF StagingInv, StagingDownInv
  <2> QED BY <1>7, <2>1, <2>2, <2>4, <2>5, <2>6, <2>7, <2>8, <2>9, <2>10, <2>11
          DEF StagingDownInv
<1>14. StagingRemoveInv'
  BY <1>1, <1>3, <1>7 DEF StagingInv, StagingRemoveInv
<1> QED BY <1>5, <1>6, <1>12, <1>13, <1>14 DEF StagingInv

\* The client downloads, the item is taken away or tried again, the user acts.
LEMMA StagingOutside ==
  ASSUME StagingInv, Staging!Download \/ Staging!DropItem \/ Staging!UserActs \/ Staging!Retry
  PROVE  StagingInv'
<1> DEFINE c == stagingClient d == stagingClient'
<1>1. /\ UNCHANGED <<stagingJournal, stagingWorker, stagingWire, stagingPast, stagingSound,
                     stagingFaults>>
      /\ stagingMeddled' \in 0..StagingMeddling /\ stagingRetries' \in 0..StagingRetries
      /\ stagingDisk' \in {"absent", "ours", "strange"}
      /\ StagingMeddled => StagingMeddled'
  BY StagingTypes, StagingAssumption DEF Staging!Download, Staging!DropItem, Staging!UserActs,
     Staging!Retry, StagingInv, StagingTypeInv, StagingMeddled
<1>2. /\ stagingItem' \in StagingItem /\ stagingItem'.state = stagingItem.state
      /\ stagingItem'.status = "CONTENT_VERIFIED" => stagingItem.status = "CONTENT_VERIFIED"
      /\ stagingItem'.status = stagingItem.status
         \/ stagingItem'.status = "DROPPED"
         \/ (/\ stagingItem.status = "MATCH_ERROR" /\ stagingJournal["remove"] = "NONE")
  <2>1. /\ "DROPPED" \in Staging!Statuses /\ "AUXILIARY_FETCHING" \in Staging!Statuses
        /\ stagingItem \in StagingItem
    BY StagingTypes DEF Staging!Statuses
  <2>2. CASE UNCHANGED stagingItem
    BY <2>1, <2>2
  <2>3. CASE Staging!DropItem
    <3>1. stagingItem' = [stagingItem EXCEPT !.status = "DROPPED"]
      BY <2>3 DEF Staging!DropItem
    <3> QED BY <2>1, <3>1, StagingStatus
  <2>4. CASE Staging!Retry
    <3>1. /\ stagingItem' = [stagingItem EXCEPT !.status = "AUXILIARY_FETCHING", !.why = "none"]
          /\ stagingItem.status = "MATCH_ERROR" /\ stagingJournal["remove"] = "NONE"
      BY <2>4 DEF Staging!Retry
    <3> QED BY <2>1, <3>1, StagingStatus
  <2> QED BY <2>2, <2>3, <2>4 DEF Staging!Download, Staging!UserActs
<1>3. /\ d \in StagingClient /\ (c.files => d.files) /\ d.wanted = c.wanted
      /\ d.torrent \in Staging!Ours => c.torrent \in Staging!Ours
      /\ d.torrent # c.torrent => StagingMeddled'
  <2>1. CASE UNCHANGED stagingClient
    BY <2>1, StagingTypes
  <2>2. CASE stagingClient' = [stagingClient EXCEPT !.files = TRUE]
    BY <2>2, StagingTypes DEF StagingClient
  <2>3. CASE Staging!UserActs /\ stagingClient' = [stagingClient EXCEPT !.torrent = "foreign"]
    <3>1. StagingMeddled'
      BY <2>3, StagingTypes DEF Staging!UserActs, StagingMeddled
    <3> QED BY <2>3, <3>1, StagingTypes DEF StagingClient, Staging!Seen, Staging!Ours
  <2>4. CASE /\ Staging!UserActs /\ stagingClient.torrent \in Staging!Ours
             /\ \E op \in {"start", "stop", "remove"} : stagingClient' = Staging!Works(op, stagingClient)
    <3>1. StagingMeddled'
      BY <2>4, StagingTypes DEF Staging!UserActs, StagingMeddled
    <3>2. PICK op \in {"start", "stop", "remove"} : stagingClient' = Staging!Works(op, stagingClient)
      BY <2>4
    <3>3. op \in Staging!Requests
      BY DEF Staging!Requests
    <3>4. d \in StagingClient /\ d.files = c.files /\ d.wanted = c.wanted
      BY <3>2, <3>3, StagingWorks
    <3> QED BY <2>4, <3>1, <3>4
  <2>5. Staging!UserActs =>
          \/ UNCHANGED stagingClient
          \/ stagingClient' = [stagingClient EXCEPT !.torrent = "foreign"]
          \/ /\ stagingClient.torrent \in Staging!Ours
             /\ \E op \in {"start", "stop", "remove"} : stagingClient' = Staging!Works(op, stagingClient)
    BY DEF Staging!UserActs, Staging!Ours
  <2> QED BY <2>1, <2>2, <2>3, <2>4, <2>5 DEF Staging!Download, Staging!DropItem, Staging!Retry
<1> HIDE DEF c, d
<1>4. c = stagingClient /\ d = stagingClient'
  BY DEF c, d
<1>5. /\ \A o : StagingThrough(o)' <=> StagingThrough(o)
      /\ StagingStarted => StagingStarted'
  BY <1>1 DEF StagingThrough, StagingStarted
<1>6. /\ StagingSelected => StagingSelected'
      /\ StagingAtRest => StagingAtRest'
  BY <1>1, <1>3, <1>4 DEF StagingSelected, StagingAtRest
<1>7. StagingTypeInv'
  BY <1>1, <1>2, <1>3, <1>4 DEF StagingInv, StagingTypeInv
<1>8. StagingWorkInv'
  <2>1. stagingWorker.at # "idle" => stagingItem'.status \in {"AUXILIARY_FETCHING", "DROPPED"}
    BY <1>2 DEF StagingInv, StagingWorkInv
  <2> QED BY <1>1, <2>1 DEF StagingInv, StagingWorkInv
<1>9. StagingAddInv'
  BY <1>1, <1>3, <1>4, <1>5, <1>6 DEF StagingInv, StagingAddInv
<1>10. StagingDownInv'
  <2>1. d.torrent = "running" => StagingStarted'
    <3>1. c.torrent = "running" => StagingStarted
      BY <1>4 DEF StagingInv, StagingDownInv
    <3> QED BY <1>3, <1>5, <3>1 DEF StagingStarted
  <2> QED BY <1>1, <1>2, <1>3, <1>4, <1>5, <1>6, <2>1 DEF StagingInv, StagingDownInv
<1>11. StagingRemoveInv'
  BY <1>1, <1>2, <1>3, <1>4 DEF StagingInv, StagingRemoveInv
<1> QED BY <1>7, <1>8, <1>9, <1>10, <1>11 DEF StagingInv

LEMMA StagingInit == ASSUME Staging!Init PROVE StagingInv
<1>1. /\ stagingItem = [status |-> "AUXILIARY_FETCHING", state |-> "PREPARING", why |-> "none"]
      /\ stagingJournal = [op \in Staging!Operations |-> "NONE"]
      /\ stagingDisk \in {"absent", "strange"}
      /\ stagingClient \in [torrent : {"absent", "foreign"}, wanted : {FALSE}, files : {FALSE}]
      /\ stagingWorker = Staging!Idle /\ stagingWire = {} /\ stagingSound \in BOOLEAN
      /\ stagingPast = [sent |-> [op \in Staging!Requests |-> 0], made |-> FALSE, rest |-> FALSE]
      /\ stagingFaults = 0 /\ stagingMeddled = 0 /\ stagingRetries = 0
  BY DEF Staging!Init
<1>2. /\ Staging!Requests \subseteq Staging!Operations
      /\ Staging!Requests = {"add", "select", "start", "stop", "remove"}
      /\ {"directory", "select", "remove"} \subseteq Staging!Operations
  BY DEF Staging!Operations, Staging!Requests
<1>3. stagingClient.torrent \notin Staging!Ours /\ stagingClient.torrent # "running"
  BY <1>1 DEF Staging!Ours
<1>4. StagingTypeInv
  <2>1. stagingItem \in StagingItem
    BY <1>1 DEF StagingItem, Staging!Statuses
  <2>2. stagingClient \in StagingClient /\ stagingDisk \in {"absent", "ours", "strange"}
    BY <1>1 DEF StagingClient, Staging!Seen
  <2>3. stagingJournal \in [Staging!Operations -> Staging!Rows]
    BY <1>1 DEF Staging!Rows
  <2>4. stagingPast \in [sent : [Staging!Requests -> 0..1], made : BOOLEAN, rest : BOOLEAN]
    <3>1. [op \in Staging!Requests |-> 0] \in [Staging!Requests -> 0..1]
      OBVIOUS
    <3> QED BY <1>1, <3>1
  <2>5. /\ stagingFaults \in 0..StagingFaults /\ stagingMeddled \in 0..StagingMeddling
        /\ stagingRetries \in 0..StagingRetries
    BY <1>1, StagingAssumption
  <2>6. stagingWorker \in StagingWorker /\ stagingWire \subseteq Staging!Requests
    BY <1>1, StagingIdle
  <2> QED BY <1>1, <2>1, <2>2, <2>3, <2>4, <2>5, <2>6 DEF StagingTypeInv
<1>5. StagingWorkInv
  BY <1>1, <1>2, StagingIdle DEF StagingWorkInv
<1>6. StagingAddInv
  BY <1>1, <1>2, <1>3, StagingIdle DEF StagingAddInv
<1>7. StagingDownInv
  BY <1>1, <1>3, StagingIdle DEF StagingDownInv
<1>8. StagingRemoveInv
  BY <1>1, <1>2, StagingIdle DEF StagingRemoveInv
<1> QED BY <1>4, <1>5, <1>6, <1>7, <1>8 DEF StagingInv

LEMMA StagingStep == StagingInv /\ [Staging!Next]_(Staging!vars) => StagingInv'
<1> SUFFICES ASSUME StagingInv, [Staging!Next]_(Staging!vars) PROVE StagingInv'
  OBVIOUS
<1>1. CASE UNCHANGED Staging!vars
  BY <1>1 DEF Staging!vars, StagingInv, StagingTypeInv, StagingWorkInv, StagingAddInv,
     StagingDownInv, StagingRemoveInv, StagingThrough, StagingSelected, StagingAtRest,
     StagingStarted, StagingMeddled
<1>2. CASE Staging!Next
  BY <1>2, StagingBegins, StagingDirectories, StagingLooks, StagingDecides, StagingSends,
     StagingChecks, StagingUnreached, StagingCloses, StagingPolls, StagingVerifies,
     StagingArrives, StagingOutside DEF Staging!Next
<1> QED BY <1>1, <1>2

\* The staging torrent is under control whatever reply is lost and whenever the process
\* stops (unpack_auxiliary.py): no request goes out twice, only the missing files are
\* downloaded, into a directory made for the item, and what is verified is at rest.
THEOREM StagingStaysOwn == Spec => []StagingIsOwn
<1> DEFINE Inv == subject = "staging" => StagingInv
<1>1. Init => Inv
  BY StagingInit DEF Init
<1>2. Inv /\ [Next]_vars => Inv'
  <2> SUFFICES ASSUME Inv, [Next]_vars, subject' = "staging" PROVE StagingInv'
    OBVIOUS
  <2>1. subject = "staging" /\ [Staging!Next]_(Staging!vars)
    BY DEF Next, vars, Others, staging, Staging!vars
  <2> QED BY <2>1, StagingStep
<1>3. Inv => StagingIsOwn
  <2> SUFFICES ASSUME StagingInv
               PROVE  /\ Staging!TypeOK /\ Staging!SentOnce /\ Staging!StartsSelected
                      /\ Staging!InOwnDirectory /\ Staging!VerifiedAtRest
    BY DEF StagingIsOwn
  <2>1. /\ stagingPast.sent \in [Staging!Requests -> 0..1]
        /\ stagingWorker.seen \in Staging!Seen /\ stagingWorker.op \in Staging!Operations
    BY StagingTypes
  <2>2. Staging!TypeOK
    BY <2>1 DEF StagingInv, StagingTypeInv, Staging!TypeOK, StagingItem, StagingClient
  <2>3. Staging!SentOnce
    BY <2>1 DEF Staging!SentOnce
  <2>4. Staging!StartsSelected /\ Staging!InOwnDirectory
    BY DEF StagingInv, StagingAddInv, StagingSelected, Staging!StartsSelected, Staging!InOwnDirectory
  <2>5. Staging!VerifiedAtRest
    BY DEF StagingInv, StagingDownInv, StagingMeddled, Staging!VerifiedAtRest
  <2> QED BY <2>2, <2>3, <2>4, <2>5
<1> QED BY <1>1, <1>2, <1>3, PTL DEF Spec

\* A removal that was sent explains to the next pass that the torrent is gone: the item
\* does not fail for want of it (unpack_auxiliary.py).
THEOREM RemovalStaysRecognised == Spec => RemovalRecognised
<1> DEFINE Inv == subject = "staging" => StagingInv
           Recognised == /\ stagingPast.sent["remove"] > 0 /\ stagingClient.torrent = "absent"
                         /\ stagingWorker.at = "poll" /\ stagingFaults' = stagingFaults
                         => stagingItem'.status # "MATCH_ERROR"
<1>1. Init => Inv
  BY StagingInit DEF Init
<1>2. Inv /\ [Next]_vars => Inv'
  <2> SUFFICES ASSUME Inv, [Next]_vars, subject' = "staging" PROVE StagingInv'
    OBVIOUS
  <2>1. subject = "staging" /\ [Staging!Next]_(Staging!vars)
    BY DEF Next, vars, Others, staging, Staging!vars
  <2> QED BY <2>1, StagingStep
<1>3. Inv /\ [Next]_vars => [Recognised]_(Staging!vars)
  <2> SUFFICES ASSUME Inv, [Next]_vars, ~UNCHANGED Staging!vars,
                      stagingPast.sent["remove"] > 0, stagingClient.torrent = "absent",
                      stagingWorker.at = "poll", stagingFaults' = stagingFaults
               PROVE  stagingItem'.status # "MATCH_ERROR"
    OBVIOUS
  <2>1. StagingInv /\ Staging!Next
    BY DEF Next, vars, Others, staging, Staging!vars
  <2>2. /\ stagingItem.status \in {"AUXILIARY_FETCHING", "DROPPED"}
        /\ stagingJournal["remove"] # "NONE" /\ "remove" \in Staging!Requests
    BY <2>1, StagingTypes DEF StagingInv, StagingWorkInv, Staging!Requests
  <2>3. /\ stagingClient.files
        /\ stagingItem.status = "AUXILIARY_FETCHING" => stagingJournal["stop"] = "APPLIED"
    BY <2>1, <2>2 DEF StagingInv, StagingRemoveInv
  <2>4. stagingFaults \in Nat
    BY <2>1, StagingAssumption DEF StagingInv, StagingTypeInv
  <2>5. CASE Staging!Poll
    <3>1. CASE stagingItem.status = "AUXILIARY_FETCHING"
      BY <2>2, <2>3, <2>5, <3>1 DEF Staging!Poll, Staging!RemovedByUs, Staging!Ours
    <3>2. CASE stagingItem.status = "DROPPED"
      BY <2>5, <3>2 DEF Staging!Poll, Staging!Fail, Staging!Fetching, Staging!Ours
    <3> QED BY <2>2, <3>1, <3>2
  <2>6. CASE Staging!Unreachable \/ Staging!Crash
    BY <2>4, <2>6 DEF Staging!Unreachable, Staging!Crash, Staging!Fault
  <2>7. CASE Staging!DropItem
    <3>1. stagingItem' = [stagingItem EXCEPT !.status = "DROPPED"] /\ stagingItem \in StagingItem
      BY <2>1, <2>7, StagingTypes DEF Staging!DropItem
    <3> QED BY <3>1 DEF StagingItem
  <2>8. CASE \/ Staging!Download \/ Staging!UserActs \/ \E op \in Staging!Requests : Staging!Arrive(op)
    BY <2>2, <2>8 DEF Staging!Download, Staging!UserActs, Staging!Arrive
  <2>9. CASE Staging!Retry
    BY <2>2, <2>9 DEF Staging!Retry
  <2>10. ~(\/ Staging!Begin \/ Staging!EnsureDirectory \/ Staging!MakeDirectory
           \/ Staging!DirectoryMade \/ Staging!Look \/ Staging!Decide \/ Staging!Send
           \/ Staging!SendFails("error") \/ Staging!SendFails("timeout") \/ Staging!Check
           \/ Staging!Staged \/ Staging!Verify \/ Staging!Finish)
    BY DEF Staging!Begin, Staging!EnsureDirectory, Staging!MakeDirectory, Staging!DirectoryMade,
       Staging!Look, Staging!Decide, Staging!Send, Staging!SendFails, Staging!Check,
       Staging!Staged, Staging!Verify, Staging!Finish, Staging!Busy
  <2> QED BY <2>1, <2>5, <2>6, <2>7, <2>8, <2>9, <2>10 DEF Staging!Next
<1> QED BY <1>1, <1>2, <1>3, PTL DEF Spec, RemovalRecognised, Staging!RemovalRecognised
=============================================================================
