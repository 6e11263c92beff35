---------------------------- MODULE ContentCheck ----------------------------
(***************************************************************************)
(* The proof that the files beside a movie are those of a torrent: the     *)
(* files are mapped, the pieces of version 1 are read as one stream over   *)
(* all files, the hash trees of version 2 file by file, and the snapshots  *)
(* are compared again before the outcome is built.  Meanwhile somebody may *)
(* write to the files.  Hashes are taken for the bytes they stand for; a   *)
(* byte of file f at offset o is <<f, o>>, one of padding <<0, 0>>.        *)
(***************************************************************************)
EXTENDS Naturals, Sequences, FiniteSets, SequencesExt

CONSTANTS
    Layouts,        \* torrents: sequences of [len, padding, auxiliary, copies]
    Kinds,          \* a subset of {"V1", "V2", "HYBRID"}
    PieceLength,    \* at least 1
    MaxWrites       \* bound: how often somebody writes to a file

VARIABLES
    files,          \* the torrent; copies: how many files on disk carry the name
    kind,
    disk,           \* per file its versions: which inode, what content
    pc,             \* begin, fetch, hash, stream, trees, compare, done
    mapping,        \* per file its state and the version the snapshot is of
    phase,          \* the status the item has while the hashes are computed
    snaps,          \* the versions the verifier has taken its snapshots of
    earlier,        \* in a hybrid torrent, those of its first pass
    at,             \* where the verifier reads
    pieces,         \* what it found out about the pieces of the stream
    trees,          \* and about the files
    outcome,
    writes

vars == <<files, kind, disk, pc, mapping, phase, snaps, earlier, at, pieces, trees, outcome,
          writes>>

Positions == 1..Len(files)
Least(a, b) == IF a < b THEN a ELSE b
Lengths(n) == FoldLeft(LAMBDA sum, file : sum + file.len, 0, SubSeq(files, 1, n))
Total == Lengths(Len(files))
LengthOf(p) == IF p * PieceLength < Total THEN Least(PieceLength, Total - p * PieceLength) ELSE 0
PieceCount(length) == (length + PieceLength - 1) \div PieceLength

\* A version that is "short" lacks its last byte.
Contents == {"good", "head", "tail", "short"}
Size(f, version) == files[f].len - (IF version.content = "short" THEN 1 ELSE 0)
Now(f) == Last(disk[f])
Written(f, content, o) ==
    IF \/ content = "head" /\ o = 0
       \/ content = "tail" /\ o = files[f].len - 1
    THEN <<f, files[f].len>> ELSE <<f, o>>
\* What an open descriptor reads: the last version of its inode.
Behind(f, inode) ==
    disk[f][CHOOSE v \in DOMAIN disk[f] :
              /\ disk[f][v].inode = inode
              /\ \A w \in DOMAIN disk[f] : disk[f][w].inode = inode => w <= v]

\* What the torrent was made from, at place x of the stream.
FileAt(x) == CHOOSE f \in Positions : Lengths(f - 1) <= x /\ x < Lengths(f)
Original(x) ==
    LET f == FileAt(x) IN IF files[f].padding THEN <<0, 0>> ELSE <<f, x - Lengths(f - 1)>>
PieceBytes(p) == p * PieceLength .. Least((p + 1) * PieceLength, Total) - 1
PieceHash(p) == [k \in 1..Cardinality(PieceBytes(p)) |-> Original(p * PieceLength + k - 1)]

-----------------------------------------------------------------------------
NoPlace == [piece |-> 0, span |-> 1, offset |-> 0, remaining |-> 0, inode |-> 0,
            digest |-> <<>>, available |-> TRUE, covered |-> <<>>]

HasSource(f) == ~files[f].padding /\ files[f].len > 0 /\ files[f].copies = 1

Init ==
    /\ files \in Layouts
    /\ kind \in Kinds
    /\ disk \in [Positions -> {<<>>} \cup {<<[inode |-> 1, content |-> c]>> : c \in Contents \ {"short"}}]
    /\ \A f \in Positions : (disk[f] # <<>>) <=> HasSource(f)
    /\ pc = "begin" /\ phase = "TORRENT_FETCHING" /\ outcome = "none"
    /\ mapping = [f \in Positions |-> [state |-> "none", seen |-> 0]]
    /\ snaps = [f \in Positions |-> 0] /\ earlier = snaps
    /\ at = NoPlace
    /\ pieces = <<>> /\ trees = <<>>
    /\ writes = 0

\* Somebody writes to a file in place, or puts another one at its path.
Write(f) ==
    /\ disk[f] # <<>> /\ writes < MaxWrites /\ pc # "done"
    /\ \E content \in Contents, inode \in {Now(f).inode, Len(disk[f]) + 1} :
          /\ content # Now(f).content \/ inode # Now(f).inode
          /\ disk' = [disk EXCEPT ![f] = Append(@, [inode |-> inode, content |-> content])]
    /\ writes' = writes + 1
    /\ UNCHANGED <<files, kind, pc, mapping, phase, snaps, earlier, at, pieces, trees, outcome>>

\* Mutant: a snapshot is compared by its size only.
SameSize(f, seen) == Size(f, disk[f][seen]) = Size(f, Now(f))
\* Device, inode, size and time of the last change tell versions apart.
SameSnapshot(f, seen) == seen = Len(disk[f])

Ends(with) ==
    /\ pc' = "done" /\ outcome' = with /\ at' = NoPlace
    /\ UNCHANGED <<files, kind, disk, mapping, phase, snaps, earlier, pieces, trees, writes>>

\* The item stands for the first file; its snapshot is that of the discovery.
SourceIsCurrent == disk[1] # <<>> => SameSnapshot(1, 1)

\* The source is compared before the torrent is fetched.
CheckSource ==
    /\ pc = "begin"
    /\ IF SourceIsCurrent
       THEN /\ pc' = "fetch"
            /\ UNCHANGED <<files, kind, disk, mapping, phase, snaps, earlier, at, pieces, trees, outcome, writes>>
       ELSE Ends("MATCH_ERROR")

\* Padding and empty files need none; two matches of one rank are ambiguous.
MapOne(f) ==
    LET to(state) == [state |-> state, seen |-> IF state = "MAPPED" THEN Len(disk[f]) ELSE 0] IN
    IF files[f].padding THEN to("PADDING")
    ELSE IF files[f].len = 0 THEN to("ZERO_LENGTH")
    ELSE IF files[f].copies = 0 THEN to("MISSING")
    ELSE IF files[f].copies > 1 THEN to("AMBIGUOUS")
    ELSE IF Size(f, Now(f)) = files[f].len THEN to("MAPPED") ELSE to("MISSING")

\* Mutant: padding keeps the item out of the auxiliary phase.
AuxiliaryMissingUnpadded(states) ==
    /\ \E f \in Positions : states[f] = "MAPPED"
    /\ \E f \in Positions : states[f] = "MISSING"
    /\ \A f \in Positions :
          states[f] \in {"MAPPED", "ZERO_LENGTH"} \/ (states[f] = "MISSING" /\ files[f].auxiliary)
\* Something is mapped, something is missing, and that is auxiliary.
OnlyAuxiliaryMissing(states) ==
    /\ \E f \in Positions : states[f] = "MAPPED"
    /\ \E f \in Positions : states[f] = "MISSING"
    /\ \A f \in Positions :
          /\ states[f] # "AMBIGUOUS"
          /\ states[f] = "MISSING" => files[f].auxiliary

\* The torrent is there; the files are mapped and the phase is committed.
Map ==
    /\ pc = "fetch"
    /\ IF SourceIsCurrent
       THEN LET found == [f \in Positions |-> MapOne(f)]
                states == [f \in Positions |-> found[f].state] IN
            /\ mapping' = found
            /\ phase' = IF OnlyAuxiliaryMissing(states) THEN "AUXILIARY_FETCHING" ELSE "CONTENT_VERIFYING"
            /\ pc' = IF kind = "V2" THEN "trees" ELSE "hash"
            /\ UNCHANGED <<files, kind, disk, snaps, earlier, at, pieces, trees, outcome, writes>>
       ELSE Ends("MATCH_ERROR")

-----------------------------------------------------------------------------
(* Version 1: one stream of pieces over all files.                         *)
Mapped(f) == mapping[f].state = "MAPPED"

\* The snapshots of all mapped files come first.
TakeSnapshots ==
    /\ pc = "hash"
    /\ IF \A f \in Positions : Mapped(f) => Size(f, Now(f)) = files[f].len
       THEN /\ snaps' = [f \in Positions |-> IF Mapped(f) THEN Len(disk[f]) ELSE 0]
            /\ pc' = "stream"
            /\ at' = [NoPlace EXCEPT !.remaining = LengthOf(0)]
            /\ UNCHANGED <<files, kind, disk, mapping, phase, earlier, pieces, trees, outcome, writes>>
       ELSE Ends("MATCH_ERROR")

Take == Least(at.remaining, files[at.span].len - at.offset)
InPiece == pc = "stream" /\ at.piece < PieceCount(Total) /\ at.remaining > 0
At(place) ==
    /\ at' = place
    /\ UNCHANGED <<files, kind, disk, pc, mapping, phase, snaps, earlier, pieces, trees, outcome, writes>>

CoveredBy(place) ==
    IF place.covered # <<>> /\ Last(place.covered) = place.span THEN place.covered
    ELSE Append(place.covered, place.span)

\* The place behind the bytes that were read; a file at its end is left.
After(place, bytes) ==
    LET next == place.offset + Len(bytes)
        full == next = files[place.span].len IN
    [place EXCEPT !.digest = @ \o bytes, !.remaining = @ - Len(bytes), !.inode = 0,
                  !.offset = IF full THEN 0 ELSE next, !.span = IF full THEN @ + 1 ELSE @]

Zeros(n) == [k \in 1..n |-> <<0, 0>>]

SkipEmpty == InPiece /\ Take = 0 /\ At([at EXCEPT !.span = @ + 1, !.offset = 0])

\* Padding counts as zeros; a range that cannot be read spoils its piece.
TakeUnread ==
    /\ InPiece /\ Take > 0 /\ at.inode = 0
    /\ ~Mapped(at.span) \/ ~at.available
    /\ At(After([at EXCEPT !.covered = CoveredBy(at),
                           !.available = @ /\ (files[at.span].padding \/ Mapped(at.span))], Zeros(Take)))

\* A range is opened, and the descriptor compared with the snapshot ...
OpenRange ==
    /\ InPiece /\ Take > 0 /\ at.inode = 0 /\ Mapped(at.span) /\ at.available
    /\ IF SameSnapshot(at.span, snaps[at.span])
       THEN At([at EXCEPT !.inode = Now(at.span).inode, !.covered = CoveredBy(at)])
       ELSE Ends("MATCH_ERROR")

\* ... and then read, which the writer may have overtaken.
ReadRange ==
    /\ pc = "stream" /\ at.inode # 0
    /\ LET version == Behind(at.span, at.inode)
           bytes == [k \in 1..Take |-> Written(at.span, version.content, at.offset + k - 1)] IN
       IF at.offset + Take > Size(at.span, version) THEN Ends("MATCH_ERROR")
       ELSE At(After(at, bytes))

\* Mutant: a piece after one that could not be read is not compared either.
NextPieceUnread(place) ==
    [place EXCEPT !.piece = @ + 1, !.digest = <<>>, !.covered = <<>>,
                  !.remaining = LengthOf(place.piece + 1)]
\* Mutant: the files of the piece before are kept.
NextPieceCovering(place) ==
    [place EXCEPT !.piece = @ + 1, !.digest = <<>>, !.available = TRUE,
                  !.remaining = LengthOf(place.piece + 1)]
\* Mutant: the hash of the piece before goes on.
NextPieceHashingOn(place) ==
    [place EXCEPT !.piece = @ + 1, !.covered = <<>>, !.available = TRUE,
                  !.remaining = LengthOf(place.piece + 1)]
NextPiece(place) ==
    [place EXCEPT !.piece = @ + 1, !.digest = <<>>, !.covered = <<>>, !.available = TRUE,
                  !.remaining = LengthOf(place.piece + 1)]

Status(available, same) == IF ~available THEN "UNAVAILABLE" ELSE IF same THEN "VERIFIED" ELSE "MISMATCH"

EndPiece ==
    /\ pc = "stream" /\ at.piece < PieceCount(Total) /\ at.remaining = 0
    /\ pieces' = Append(pieces, [status |-> Status(at.available, at.digest = PieceHash(at.piece)),
                                 covered |-> at.covered])
    /\ at' = NextPiece(at)
    /\ UNCHANGED <<files, kind, disk, pc, mapping, phase, snaps, earlier, trees, outcome, writes>>

StillSame(seen) == \A f \in Positions : seen[f] # 0 => SameSnapshot(f, seen[f])

\* The snapshots are compared once more when the last piece was read.
EndStream ==
    /\ pc = "stream" /\ at.piece = PieceCount(Total)
    /\ IF StillSame(snaps)
       THEN /\ pc' = IF kind = "HYBRID" THEN "trees" ELSE "compare"
            /\ at' = NoPlace
            /\ earlier' = snaps
            /\ UNCHANGED <<files, kind, disk, mapping, phase, snaps, pieces, trees, outcome, writes>>
       ELSE Ends("MATCH_ERROR")

-----------------------------------------------------------------------------
(* Version 2: each file is its own tree; `at.span` is the next file.       *)
TreeFound(status) ==
    /\ trees' = Append(trees, status)
    /\ at' = [NoPlace EXCEPT !.span = at.span + 1]
    /\ UNCHANGED <<files, kind, disk, pc, mapping, phase, snaps, earlier, pieces, outcome, writes>>

TreeWithoutFile ==
    /\ pc = "trees" /\ at.span \in Positions /\ ~Mapped(at.span)
    /\ TreeFound(IF files[at.span].padding \/ files[at.span].len = 0 THEN "VERIFIED" ELSE "UNAVAILABLE")

\* The snapshot of the file is taken, and the file opened.
OpenTree ==
    /\ pc = "trees" /\ at.span \in Positions /\ Mapped(at.span) /\ at.inode = 0
    /\ LET f == at.span IN
       IF Size(f, Now(f)) # files[f].len
       THEN Ends("MATCH_ERROR")
       ELSE /\ snaps' = [snaps EXCEPT ![f] = Len(disk[f])]
            /\ at' = [at EXCEPT !.inode = Now(f).inode, !.remaining = files[f].len]
            /\ UNCHANGED <<files, kind, disk, pc, mapping, phase, earlier, pieces, trees, outcome, writes>>

\* A piece of the file is read through the one descriptor.
ReadTree ==
    /\ pc = "trees" /\ at.inode # 0 /\ at.remaining > 0
    /\ LET version == Behind(at.span, at.inode)
           n == Least(PieceLength, at.remaining)
           bytes == [k \in 1..n |-> Written(at.span, version.content, at.offset + k - 1)] IN
       IF at.offset + n > Size(at.span, version) THEN Ends("MATCH_ERROR")
       ELSE At([at EXCEPT !.digest = @ \o bytes, !.offset = @ + n, !.remaining = @ - n])

EndTree ==
    /\ pc = "trees" /\ at.inode # 0 /\ at.remaining = 0
    /\ TreeFound(Status(TRUE, at.digest = [k \in 1..files[at.span].len |-> <<at.span, k - 1>>]))

\* Both passes of a hybrid torrent have to have seen the same files.
EndTrees ==
    /\ pc = "trees" /\ at.span > Len(files)
    /\ IF StillSame(snaps) /\ (kind = "HYBRID" => snaps = earlier)
       THEN /\ pc' = "compare" /\ at' = NoPlace
            /\ UNCHANGED <<files, kind, disk, mapping, phase, snaps, earlier, pieces, trees, outcome, writes>>
       ELSE Ends("MATCH_ERROR")

-----------------------------------------------------------------------------
Full ==
    /\ \A p \in DOMAIN pieces : pieces[p].status = "VERIFIED"
    /\ \A f \in DOMAIN trees : trees[f] = "VERIFIED"
    /\ \A f \in Positions : mapping[f].state \notin {"MISSING", "AMBIGUOUS"}
HasMismatch ==
    \/ \E p \in DOMAIN pieces : pieces[p].status = "MISMATCH"
    \/ \E f \in DOMAIN trees : trees[f] = "MISMATCH"

Outcome ==
    LET missing == {f \in Positions : mapping[f].state = "MISSING"}
        ambiguous == \E f \in Positions : mapping[f].state = "AMBIGUOUS" IN
    IF HasMismatch THEN "CONTENT_MISMATCH"
    ELSE IF \/ ambiguous \/ \E f \in missing : ~files[f].auxiliary
            \/ \A f \in Positions : ~Mapped(f)
         THEN "REQUIRED_FILE_MISSING"
    ELSE IF missing # {} THEN "AUXILIARY_FETCHING"
    ELSE IF Full THEN "CONTENT_VERIFIED" ELSE "REVIEW_REQUIRED"

\* The snapshots of the mapping are compared, and the outcome is built.
Compare ==
    /\ pc = "compare"
    /\ Ends(IF SourceIsCurrent /\ StillSame([f \in Positions |-> mapping[f].seen])
            THEN Outcome ELSE "MATCH_ERROR")

Next ==
    \/ \E f \in Positions : Write(f)
    \/ CheckSource \/ Map \/ TakeSnapshots
    \/ SkipEmpty \/ TakeUnread \/ OpenRange \/ ReadRange \/ EndPiece \/ EndStream
    \/ TreeWithoutFile \/ OpenTree \/ ReadTree \/ EndTree \/ EndTrees
    \/ Compare

Spec == Init /\ [][Next]_vars
-----------------------------------------------------------------------------
\* The state has its type.
TypeOK ==
    /\ pc \in {"begin", "fetch", "hash", "stream", "trees", "compare", "done"}
    /\ outcome \in {"none", "MATCH_ERROR", "CONTENT_MISMATCH", "REQUIRED_FILE_MISSING",
                    "AUXILIARY_FETCHING", "CONTENT_VERIFIED", "REVIEW_REQUIRED"}
    /\ \A f \in Positions : mapping[f].seen \in 0..Len(disk[f]) /\ snaps[f] \in 0..Len(disk[f])
    /\ writes \in 0..MaxWrites

\* What is verified is there in full: every file with data is mapped, and the
\* version whose snapshot goes into the evidence has the torrent's content.
VerifiedIsSame ==
    outcome = "CONTENT_VERIFIED" =>
        \A f \in Positions : files[f].len > 0 /\ ~files[f].padding =>
            Mapped(f) /\ disk[f][mapping[f].seen].content = "good"

\* No file is accused that never had another content: the walk over spans,
\* empty files and padding reads each range at its place.
MismatchIsReal ==
    outcome = "CONTENT_MISMATCH" =>
        \E f \in Positions : \E v \in DOMAIN disk[f] : disk[f][v].content # "good"

PieceIsReadable(p) ==
    \A x \in PieceBytes(p) : files[FileAt(x)].padding \/ Mapped(FileAt(x))
Wrong(f) == Mapped(f) /\ disk[f][1].content # "good"
WrongAt(x) ==
    LET f == FileAt(x) IN
    /\ Wrong(f)
    /\ Written(f, disk[f][1].content, x - Lengths(f - 1)) # Original(x)
\* A file nobody writes to and that differs in a piece that can be read, or
\* in a tree, is found out, whatever else of the torrent is missing.
MismatchIsFound ==
    outcome \in {"CONTENT_VERIFIED", "AUXILIARY_FETCHING", "REQUIRED_FILE_MISSING"} /\ writes = 0 =>
        /\ kind # "V1" => \A f \in Positions : ~Wrong(f)
        /\ kind # "V2" => \A p \in 0..PieceCount(Total) - 1 :
                             PieceIsReadable(p) => \A x \in PieceBytes(p) : ~WrongAt(x)

\* The files a piece is said to cover are those that share a byte with it.
CoversExactly ==
    \A p \in DOMAIN pieces :
        /\ ToSet(pieces[p].covered) = {FileAt(x) : x \in PieceBytes(p - 1)}
        /\ Len(pieces[p].covered) = Cardinality(ToSet(pieces[p].covered))

\* An item is handed to the auxiliary phase only from that phase: the status
\* committed before the hashing and the outcome agree.
PhaseAgrees == outcome = "AUXILIARY_FETCHING" => phase = "AUXILIARY_FETCHING"
=============================================================================
