----------------------------- MODULE MCUnpackSearch -----------------------------
(***************************************************************************)
(* One item, one site that has it for every query, one wrong answer.       *)
(***************************************************************************)
EXTENDS Naturals

VARIABLES truth, item, row, refusals, memory, active, search, clock,
          asked, void, seen, hush, wanted, searched, faults, edits

CONSTANTS Items, Sites, Queries, MaxPages, SiteConcurrency, RiskLimit,
          MaxRetries, Cooldown, MaxClock, MaxFaults, MaxEdits

Everything == {[q \in 1..Queries |-> "usable"]}

Search == INSTANCE UnpackSearch WITH Truths <- Everything

Spec == Search!Spec

\* What the comment says (unpack_matching.py:1463): an empty first page is no
\* evidence, one page of a site is asked for again.  So one wrong empty answer
\* of a site that has the item is never the end of the search for it.
EmptyIsAskedAgain == Search!EmptyIsAskedAgain
=============================================================================
