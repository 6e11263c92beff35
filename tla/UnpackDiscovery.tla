---------------------------- MODULE UnpackDiscovery ----------------------------
(***************************************************************************)
(* The discovery of one execution: page after page its frozen source       *)
(* becomes items, each page in a transaction that ends with the cursor of  *)
(* the next.  The source is a directory, a list of chosen files, or a list *)
(* of torrents with the place of their content.                            *)
(*                                                                         *)
(* A directory is walked with a heap of paths, so that files come in the   *)
(* order of their whole paths and a page can stop anywhere.  Others write  *)
(* to the disk between any two steps of a walk.  A path is a sequence of   *)
(* characters, because the order of characters is what the cursor is       *)
(* about: a slash sorts after a dot, and an accented letter has two forms. *)
(***************************************************************************)
EXTENDS Naturals, FiniteSets, Sequences, SequencesExt

CONSTANTS
    Places,        \* the paths at which there is a file at first
    Media,         \* those of them the file filter lets through
    Torrents,      \* the torrents of a downloader source: [path, mapped]
    Chosen,        \* the chosen files, in the order they were saved
    Limit,         \* the size of a page
    MaxWrites,     \* bound: writes of others to the disk
    MaxFaults      \* bound: stops, unmounted volumes, failing reads

VARIABLES
    kind,          \* "all", "selected" or "downloader"
    at,            \* the version of the file at each place; 0 is no file
    mounted,       \* the volume is there
    status,        \* of the execution
    cursor,        \* [index, inner]: discovery_cursor
    complete,      \* discovery_complete
    items,         \* the items of the execution
    walk,          \* the transaction of a page
    touched,       \* history: the places that were written to
    faults

vars == <<kind, at, mounted, status, cursor, complete, items, walk, touched, faults>>

-----------------------------------------------------------------------------
(* Characters and paths *)

Dot == 1
Slash == 2
LetterA == 3
LetterE == 4
LetterZ == 5
AcuteE == 6        \* the letter with its accent in one character
Acute == 7         \* the accent alone, after its letter

Root == <<>>
NoPath == <<>>

Before(s, t) ==
    \/ IsStrictPrefix(s, t)
    \/ \E i \in DOMAIN s \cap DOMAIN t :
           s[i] < t[i] /\ \A j \in 1..(i - 1) : s[j] = t[j]
After(s, t) == t = NoPath \/ Before(t, s)
First(S) == CHOOSE s \in S : \A t \in S : s = t \/ Before(s, t)

\* _normalized_relative_string: a letter and its accent become one character.
Joined(p, i) == i < Len(p) /\ p[i] = LetterE /\ p[i + 1] = Acute
Normal(p) ==
    LET kept == SetToSortSeq({i \in DOMAIN p : i = 1 \/ ~Joined(p, i - 1)}, <)
    IN  [k \in DOMAIN kept |-> IF Joined(p, kept[k]) THEN AcuteE ELSE p[kept[k]]]

Present == {p \in Places : at[p] > 0}
Subtree(d) == IF d = Root THEN Root ELSE Append(d, Slash)
Within(d, p) == IsStrictPrefix(Subtree(d), p)
IsDirectory(d) == d = Root \/ \E p \in Present : Within(d, p)

\* The entry of directory d on the way to p: _directory_names
Entry(d, p) ==
    LET n == Len(Subtree(d))
        ends == {i \in (n + 1)..Len(p) : i = Len(p) \/ p[i + 1] = Slash}
    IN  SubSeq(p, 1, CHOOSE i \in ends : \A j \in ends : i <= j)
Entries(d) == {Entry(d, p) : p \in {q \in Present : Within(d, q)}}
Steps == UNION {{SubSeq(p, 1, n) : n \in 1..Len(p)} : p \in Places}

-----------------------------------------------------------------------------
(* Items and the transaction of a page *)

Sources == IF kind = "all" THEN <<[path |-> Root, mapped |-> TRUE]>> ELSE Torrents

\* source_object_key and what the item says of its source.
Item == [source : Nat, path : {NoPath} \cup {Normal(p) : p \in Places},
         version : Nat, failed : BOOLEAN]
Found(i, p, v) == [source |-> i, path |-> p, version |-> v, failed |-> FALSE]
Failed(i) == [source |-> i, path |-> NoPath, version |-> 0, failed |-> TRUE]

\* `page': the files of the directory scan, by the name the disk has for them,
\* with their versions; `clean': nobody wrote since the scan began.
Idle == [pc |-> "idle", index |-> 1, inner |-> NoPath, budget |-> 0, pending |-> {},
         page |-> <<>>, found |-> {}, clean |-> TRUE]

Others == UNCHANGED <<kind, at, mounted, touched>>
InPage == UNCHANGED <<status, cursor, complete, items>> /\ Others

\* discover_next_page
Begin ==
    /\ walk.pc = "idle" /\ status = "DISCOVERING" /\ ~complete
    /\ walk' = [Idle EXCEPT !.pc = IF kind = "selected" THEN "select" ELSE "open",
                            !.index = cursor.index, !.inner = cursor.inner,
                            !.budget = Limit]
    /\ UNCHANGED faults /\ InPage

Source == Sources[walk.index]
Opening == walk.pc = "open" /\ walk.index <= Len(Sources) /\ walk.budget > 0

\* The source at hand is done with, at the price of `cost' of the budget.
PastSource(new, cost) ==
    walk' = [walk EXCEPT !.pc = "open", !.index = @ + 1, !.inner = NoPath, !.page = <<>>,
                         !.pending = {}, !.budget = @ - cost, !.found = @ \cup new]

\* Mutant: a source that cannot be read is left behind.
LeftBehind ==
    IF kind = "all" THEN walk' = Idle ELSE PastSource({}, 1)

\* A directory that cannot be read ends the tick; a torrent becomes an error.
Unavailable ==
    IF kind = "all" THEN walk' = Idle ELSE PastSource({Failed(walk.index)}, 1)

OpenUnmapped ==
    /\ Opening /\ ~Source.mapped
    /\ PastSource({Failed(walk.index)}, 1)
    /\ UNCHANGED faults /\ InPage

OpenDirectory ==
    /\ Opening /\ Source.mapped /\ mounted /\ IsDirectory(Source.path)
    /\ walk' = [walk EXCEPT !.pc = "visit", !.pending = Entries(Source.path),
                            !.page = <<>>, !.clean = TRUE]
    /\ UNCHANGED faults /\ InPage

OpenFile ==
    /\ Opening /\ Source.mapped /\ mounted /\ Source.path \in Present
    /\ PastSource(IF Source.path \in Media
                  THEN {Found(walk.index, Source.path, at[Source.path])} ELSE {}, 1)
    /\ UNCHANGED faults /\ InPage

OpenNothing ==
    /\ Opening /\ Source.mapped
    /\ ~mounted \/ (~IsDirectory(Source.path) /\ Source.path \notin Present)
    /\ Unavailable
    /\ UNCHANGED faults /\ InPage

-----------------------------------------------------------------------------
(* scan_source_inventory_page *)

\* Mutant: the subtree the cursor stands in is passed over.
PassedOver(d) == walk.inner = NoPath \/ After(d, walk.inner) \/ After(Subtree(d), walk.inner)

\* A directory may hold files after the cursor.
MayContainAfter(d) ==
    \/ walk.inner = NoPath \/ After(d, walk.inner) \/ After(Subtree(d), walk.inner)
    \/ IsPrefix(Subtree(d), walk.inner)

Full == Len(walk.page) = walk.budget + 1

\* The next path of the heap, which may have become something else or nothing.
Visit ==
    /\ walk.pc = "visit" /\ walk.pending # {} /\ ~Full
    /\ LET x == First(walk.pending)
           file == x \in Present /\ After(x, walk.inner)
           below == IF IsDirectory(x) /\ MayContainAfter(x) THEN Entries(x) ELSE {}
       IN  walk' = [walk EXCEPT
               !.pending = (@ \ {x}) \cup below,
               !.page = IF file THEN Append(@, [path |-> x, version |-> at[x]]) ELSE @]
    /\ UNCHANGED faults /\ InPage

Ended == walk.pc = "visit" /\ (walk.pending = {} \/ Full)
Taken == SubSeq(walk.page, 1, IF Full THEN walk.budget ELSE Len(walk.page))
Matching == {Found(walk.index, Normal(f.path), f.version) :
                 f \in {g \in Range(Taken) : g.path \in Media}}

\* Mutant: the next page begins after the file that was only looked at.
EndPageAfterPeek ==
    /\ Ended
    /\ IF Full
       THEN walk' = [walk EXCEPT !.pc = "commit", !.pending = {}, !.found = @ \cup Matching,
                                 !.page = <<>>, !.inner = Normal(Last(walk.page).path)]
       ELSE PastSource(Matching, Len(Taken))
    /\ UNCHANGED faults /\ InPage

\* A page with more to come ends the transaction, with the cursor at its last
\* file; otherwise the next source has the rest of the budget.
EndPage ==
    /\ Ended
    /\ IF Full
       THEN walk' = [walk EXCEPT !.pc = "commit", !.pending = {}, !.found = @ \cup Matching,
                                 !.page = <<>>, !.inner = Normal(Last(Taken).path)]
       ELSE PastSource(Matching, Len(Taken))
    /\ UNCHANGED faults /\ InPage

ReadFails ==
    /\ walk.pc = "visit" /\ faults < MaxFaults
    /\ faults' = faults + 1
    /\ Unavailable
    /\ InPage

-----------------------------------------------------------------------------
(* Chosen files, the end of a page *)

\* The path was saved in its normal form; the file must be the one that was chosen.
Unchanged(p) == mounted /\ p \in Present /\ at[p] = 1

Select ==
    /\ walk.pc = "select" /\ walk.index <= Len(Chosen) /\ walk.budget > 0
    /\ LET p == Normal(Chosen[walk.index])
       IN  PastSource({[Found(walk.index, p, 1) EXCEPT !.failed = ~Unchanged(p)]}, 1)
    /\ UNCHANGED faults /\ InPage

Total == IF kind = "selected" THEN Len(Chosen) ELSE Len(Sources)
Spent == walk.pc \in {"open", "select"} /\ (walk.index > Total \/ walk.budget = 0)

\* _finalize_execution_state
Finalized(found) ==
    IF \E i \in found : ~i.failed THEN "MATCHING"
    ELSE IF found = {} THEN "COMPLETED" ELSE "COMPLETED_WITH_ERRORS"

Commit ==
    /\ walk.pc = "commit" \/ Spent
    /\ items' = items \cup walk.found
    /\ cursor' = [index |-> walk.index, inner |-> walk.inner]
    /\ complete' = (walk.index > Total)
    /\ status' = IF complete' THEN Finalized(items') ELSE status
    /\ walk' = Idle
    /\ UNCHANGED faults /\ Others

\* The process stops: the transaction is gone.
Stop ==
    /\ walk.pc # "idle" /\ faults < MaxFaults
    /\ faults' = faults + 1
    /\ walk' = Idle
    /\ InPage

-----------------------------------------------------------------------------
(* The disk; an open directory keeps its volume mounted *)

Write(p, v) ==
    /\ Cardinality(touched) < MaxWrites /\ at[p] # v
    /\ at' = [at EXCEPT ![p] = v]
    /\ touched' = touched \cup {p}
    /\ walk' = [walk EXCEPT !.clean = walk.pc # "visit"]
    /\ UNCHANGED <<kind, mounted, status, cursor, complete, items, faults>>

Mount ==
    /\ walk.pc # "visit"
    /\ mounted => faults < MaxFaults
    /\ mounted' = ~mounted
    /\ faults' = IF mounted THEN faults + 1 ELSE faults
    /\ UNCHANGED <<kind, at, touched, status, cursor, complete, items, walk>>

Init ==
    /\ kind \in {"all", "selected", "downloader"}
    /\ at = [p \in Places |-> 1]
    /\ mounted = TRUE
    /\ status = "DISCOVERING"
    /\ cursor = [index |-> 1, inner |-> NoPath]
    /\ complete = FALSE
    /\ items = {}
    /\ walk = Idle
    /\ touched = {}
    /\ faults = 0

Next ==
    \/ Begin \/ OpenUnmapped \/ OpenDirectory \/ OpenFile \/ OpenNothing
    \/ Visit \/ EndPage \/ ReadFails \/ Select \/ Commit \/ Stop \/ Mount
    \/ \E p \in Places, v \in {0, 2} : Write(p, v)

Spec == Init /\ [][Next]_vars

-----------------------------------------------------------------------------
TypeOK ==
    /\ kind \in {"all", "selected", "downloader"}
    /\ at \in [Places -> 0..2]
    /\ mounted \in BOOLEAN /\ complete \in BOOLEAN
    /\ status \in {"DISCOVERING", "MATCHING", "COMPLETED", "COMPLETED_WITH_ERRORS"}
    /\ cursor.index \in 1..(Total + 1)
    /\ items \subseteq Item
    /\ walk.pc \in {"idle", "open", "visit", "select", "commit"}
    /\ walk.pending \subseteq Steps /\ walk.budget \in 0..Limit
    /\ touched \subseteq Places /\ faults \in 0..MaxFaults

\* Once the discovery of a source is complete, every file of it that matches
\* the filter and that nobody touched has its item, unless an item says that
\* the source could not be read (discover_next_page over all its pages).
NothingSkipped ==
    complete =>
        IF kind = "selected"
        THEN \A i \in DOMAIN Chosen : \E item \in items : item.source = i
        ELSE \A i \in DOMAIN Sources : Failed(i) \in items \/
                 \A p \in Media \ touched :
                     p = Sources[i].path \/ Within(Sources[i].path, p) =>
                         Found(i, Normal(p), 1) \in items

\* A page is what sorting all files by their whole paths would give: the first
\* ones after the cursor, although directories are read only as they are met
\* and those before the cursor not at all (scan_source_inventory_page).
PageIsNext ==
    Ended /\ walk.clean =>
        LET rest == {p \in Present : Within(Source.path, p) /\ After(p, walk.inner)}
            paths == [i \in DOMAIN walk.page |-> walk.page[i].path]
        IN  /\ \A i, j \in DOMAIN paths : i < j => Before(paths[i], paths[j])
            /\ Range(paths) \subseteq rest
            /\ \A p \in rest \ Range(paths) :
                   Full /\ \A q \in Range(paths) : Before(q, p)
=============================================================================
