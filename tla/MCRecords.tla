----------------------------- MODULE MCRecords ------------------------------
(***************************************************************************)
(* Archive and Totals for TLC, one or the other in each behaviour: putData *)
(* for one user, with what it archives, and putData for several.  They     *)
(* share no variable, so that a step of one means nothing to the other,    *)
(* which rests in its initial state.                                       *)
(*                                                                         *)
(* The windows put for several users overlap, have no length or are        *)
(* inverted, and counts do not divide evenly.  The requests of Archive are *)
(* interchangeable.                                                        *)
(***************************************************************************)
EXTENDS Archive, Totals, TLC

\* A configuration file has no negative numbers.
MCLength == {-1, 0, 4}

MCSymmetry == Permutations(PutRequest)

MCLists   == {<<"a">>, <<"a", "b">>, <<"b", "a">>}
MCWindows == {<<1, 4>>, <<0, 4>>, <<2, 2>>, <<3, 1>>}
MCCounts  == {<<3, 4>>, <<3, 0>>, <<0, 4>>}
MCRecord(w, n) == [start |-> w[1], end |-> w[2], down |-> n[1], up |-> n[2], un |-> 1]
MCSecond  == [start |-> 2, end |-> 4, down |-> 1, up |-> 1, un |-> 0]
MCData    == {<<MCRecord(w, n)>> : w \in MCWindows, n \in MCCounts}
             \cup {<<MCRecord(w, n), MCSecond>> : w \in {<<0, 2>>, <<3, 1>>}, n \in {<<3, 4>>, <<0, 4>>}}

NoQuotas == [u \in Users |-> [down |-> 0, up |-> 0]]

ArchiveAlone == requests = 0 /\ quota = NoQuotas /\ ArchiveNext /\ UNCHANGED totalsVars
TotalsAlone  == now = 0 /\ puts = 0 /\ TotalsNext /\ UNCHANGED archiveVars

RecordsInit == ArchiveInit /\ TotalsInit

RecordsSpec == /\ RecordsInit
               /\ [][ArchiveAlone \/ TotalsAlone]_<<archiveVars, totalsVars>>
=============================================================================
