--------------------------- MODULE MCUnpackDiscovery ---------------------------
(***************************************************************************)
(* The discovery of a directory one of whose names has its accent apart,   *)
(* as some systems write it.                                               *)
(***************************************************************************)
EXTENDS Naturals

VARIABLES kind, at, mounted, status, cursor, complete, items, walk, touched, faults

CONSTANTS Limit, MaxWrites, MaxFaults

Accented == <<4, 7>>
Plain == <<5>>
Names == {Accented, Plain}

Discovery == INSTANCE UnpackDiscovery WITH Places <- Names, Media <- Names,
    Torrents <- <<[path |-> <<>>, mapped |-> TRUE]>>, Chosen <- <<Plain>>

Spec == Discovery!Spec

\* Every file of a directory that nobody touches has an item when discovery is
\* complete, by whatever name (scan_source_inventory_page, its stable order).
EveryNameFound == Discovery!NothingSkipped
=============================================================================
