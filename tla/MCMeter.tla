------------------------------ MODULE MCMeter -------------------------------
(***************************************************************************)
(* Meter for TLC: a packet of an unmetered host, packets that share one    *)
(* counter of a metered host, and a wall clock that advances and is then   *)
(* set back.                                                               *)
(***************************************************************************)
EXTENDS Meter, TLC

CONSTANTS freeHost, paidHost,  \* hosts
          p1           \* the packet of the unmetered host

MCHost      == {freeHost, paidHost}
MCUnmetered == {freeHost}
MCaddr      == [p \in Packet |-> IF p = p1 THEN freeHost ELSE paidHost]
MCway       == [p \in Packet |-> IF p = p1 THEN "up" ELSE "down"]
MCclock     == [t \in 0 .. MaxTime |-> CASE t = 0 -> 1 [] t = 1 -> 2 [] OTHER -> 0]

\* The packets of the metered host differ in nothing.
Alike       == Permutations(Packet \ {p1})
=============================================================================
