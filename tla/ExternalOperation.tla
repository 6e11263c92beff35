------------------------- MODULE ExternalOperation -------------------------
(***************************************************************************)
(* What the unpack pipeline promises about every write it makes to another *)
(* system (a downloader RPC, a filesystem change): the write is announced  *)
(* by a journal row before it is made, it is made at most once under that  *)
(* row, the row says APPLIED or asks for a human reconciliation, and a     *)
(* reconciliation request is never withdrawn by the program.               *)
(*                                                                         *)
(* The rows are those of UnpackExternalOperationJournal, keyed by the      *)
(* idempotency key; UnpackSeeding implements this specification.           *)
(***************************************************************************)
EXTENDS Naturals

CONSTANT Keys          \* idempotency keys

VARIABLES
  record,              \* status of the row of each key, "NONE" before it exists
  dispatched           \* how often the external write of a key was made

vars == <<record, dispatched>>

RecordStatus == {"NONE", "INTENT_RECORDED", "APPLIED", "RECONCILE_REQUIRED"}

TypeOK == /\ record \in [Keys -> RecordStatus]
          /\ dispatched \in [Keys -> 0..1]

Init == /\ record = [k \in Keys |-> "NONE"]
        /\ dispatched = [k \in Keys |-> 0]

\* The intent is committed before anything leaves the process.
RecordIntent(k) ==
  /\ record[k] = "NONE"
  /\ record' = [record EXCEPT ![k] = "INTENT_RECORDED"]
  /\ UNCHANGED dispatched

\* The only step that reaches the other system, and the row exists by then.
Dispatch(k) ==
  /\ record[k] # "NONE"
  /\ dispatched[k] = 0
  /\ dispatched' = [dispatched EXCEPT ![k] = 1]
  /\ UNCHANGED record

\* The effect was read back from the other system.
Confirm(k) ==
  /\ record[k] = "INTENT_RECORDED"
  /\ record' = [record EXCEPT ![k] = "APPLIED"]
  /\ UNCHANGED dispatched

\* The outcome is unknown, or what was confirmed is contradicted.
Escalate(k) ==
  /\ record[k] \in {"INTENT_RECORDED", "APPLIED"}
  /\ record' = [record EXCEPT ![k] = "RECONCILE_REQUIRED"]
  /\ UNCHANGED dispatched

Next == \E k \in Keys :
           RecordIntent(k) \/ Dispatch(k) \/ Confirm(k) \/ Escalate(k)

Spec == Init /\ [][Next]_vars
=============================================================================
