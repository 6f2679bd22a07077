------------------------------- MODULE Filter -------------------------------
(***************************************************************************)
(* The unmetered filter of the daemon: readIpList of Daemon.hx builds, line *)
(* by line, a tree of linked Filter nodes out of addresses and ranges such *)
(* as 59.167.241.0/25, and match walks it for every host, one node a step. *)
(* Nodes live on a heap and 0 is the null reference.                       *)
(*                                                                         *)
(* An octet has OctetBits bits, 8 in the code; an address is its four      *)
(* octets, first octet first, which is what splitIp makes of an integer.   *)
(***************************************************************************)
EXTENDS Binary, Sequences, FiniteSetsExt

CONSTANTS OctetBits,
          Line,      \* the ranges that may be listed
          Probe,     \* the addresses match is asked about
          MaxLines   \* bound on the lines of the file

Bits  == 4 * OctetBits
Octet == 0 .. Pow2[OctetBits] - 1
Position == 0 .. 3
Address  == [Position -> Octet]

\* A range within an octet starts at a multiple of its size, as all ranges of
\* unmetered.txt do.
ASSUME FilterAssumption ==
  /\ OctetBits \in Nat \ {0} /\ MaxLines \in Nat
  /\ Line \subseteq [ip : Address, size : 0 .. Bits]
  /\ \A e \in Line : e.size >= 3 * OctetBits => e.ip[3] % Pow2[Bits - e.size] = 0
  /\ Probe \subseteq Address

VARIABLES pc,      \* "read" until readIpList returns, then what match is doing
          heap,    \* the nodes made so far
          of,      \* of1 .. of4, the last node of each level
          head,    \* what readIpList returns
          lines,   \* the ranges read so far (history)
          paths,   \* of1 .. of4 after each of them (history)
          ip, f, level   \* the variables of match

reading  == <<heap, of, head, lines, paths>>
matching == <<ip, f, level>>
vars     == <<pc, reading, matching>>

(***************************************************************************)
(* readIpList.                                                             *)
(***************************************************************************)
\* An Int has as many bits as an address, the first one being the sign.
Wrapped(n) == ((n + Pow2[Bits - 1]) % Pow2[Bits]) - Pow2[Bits - 1]

\* How many addresses a range has; a missing or zero size means one address.
Width(e) == Pow2[Bits - (IF e.size = 0 THEN Bits ELSE e.size)]

Node(lo, hi, child) == [min |-> lo, max |-> hi, child |-> child, next |-> 0]

\* The last octet goes one too far.
LeafTooWide(e) == Node(e.ip[3], Wrapped(e.ip[3] + Width(e)), 0)

\* The node of the last octet, the only one that covers more than one value.
Leaf(e) == Node(e.ip[3], Wrapped(e.ip[3] + Width(e) - 1), 0)

\* New nodes for the octets from level l on, each the child of the one before.
Chain(e, l) ==
  [j \in 1 .. 4 - l |->
     IF l + j = 4 THEN Leaf(e)
     ELSE Node(e.ip[l + j - 1], e.ip[l + j - 1], Len(heap) + j + 1)]

\* The last node of level l gets the first new one as its next.
Linked(l) == [heap EXCEPT ![of[l]].next = Len(heap) + 1]

NoNodes == [l \in Position |-> 0]

Init == /\ pc = "read"
        /\ heap = <<>> /\ of = NoNodes /\ head = 0 /\ lines = <<>> /\ paths = <<>>
        /\ ip = [l \in Position |-> 0] /\ f = NoNodes /\ level = -1

\* The first line starts all four levels.
FirstLine(e) ==
  /\ pc = "read" /\ lines = <<>> /\ MaxLines > 0
  /\ heap' = Chain(e, 0)
  /\ head' = 1 /\ of' = [l \in Position |-> l + 1]
  /\ lines' = <<e>> /\ paths' = <<of'>>
  /\ UNCHANGED <<pc, matching>>

\* How many leading octets a line shares with the one before it, up to three.
Shared(e) ==
  LET last == lines[Len(lines)].ip
  IN Min({3} \cup {l \in 0 .. 2 : e.ip[l] # last[l]})

\* A later line adds nodes from the first octet that differs from the line
\* before, or only one for the last octet.
NextLine(e) ==
  /\ pc = "read" /\ lines # <<>> /\ Len(lines) < MaxLines
  /\ heap' = Linked(Shared(e)) \o Chain(e, Shared(e))
  /\ of' = [l \in Position |-> IF l < Shared(e) THEN of[l]
                               ELSE Len(heap) + 1 + l - Shared(e)]
  /\ lines' = Append(lines, e) /\ paths' = Append(paths, of')
  /\ UNCHANGED <<pc, head, matching>>

\* The end of the file: of a file without addresses the head is a node that
\* matches octet 0 and has no child.
Return ==
  /\ pc = "read" /\ pc' = "ready"
  /\ IF lines = <<>> THEN heap' = <<Node(0, 0, 0)>> /\ head' = 1
                     ELSE UNCHANGED <<heap, head>>
  /\ UNCHANGED <<of, lines, paths, matching>>

(***************************************************************************)
(* match: a depth first walk with one cursor per level.  It is called only *)
(* after readIpList has returned, since no packet is handled before.       *)
(***************************************************************************)
match(a) ==
  /\ pc \in {"ready", "yes", "no"} /\ pc' = "walk"
  /\ ip' = a /\ f' = [NoNodes EXCEPT ![0] = head] /\ level' = 0
  /\ UNCHANGED reading

Current == heap[f[level]]
Hit     == Current.min <= ip[level] /\ Current.max >= ip[level]

\* A level without a next node ends the walk.
BackNever(g, l) == IF g[l] = 0 THEN -1 ELSE l

\* Back to the deepest level that still has a node to look at.
Back(g, l) == Max({-1} \cup {m \in 0 .. l : g[m] # 0})

\* On to g, at level l or further up; without a node match returns false.
GoOn(g, l) ==
  /\ f' = g /\ level' = Back(g, l)
  /\ pc' = IF Back(g, l) = -1 THEN "no" ELSE "walk"
  /\ UNCHANGED <<ip, reading>>

\* The cursor stays where it is while its child is looked at.
EnteredOnly == [f EXCEPT ![level + 1] = Current.child]

\* The child is looked at first, the next node after it.
Entered == [f EXCEPT ![level + 1] = Current.child, ![level] = Current.next]

Enter == pc = "walk" /\ Hit /\ level < 3 /\ GoOn(Entered, level + 1)

Pass == pc = "walk" /\ ~Hit /\ GoOn([f EXCEPT ![level] = Current.next], level)

Found == pc = "walk" /\ Hit /\ level = 3 /\ pc' = "yes" /\ UNCHANGED <<reading, matching>>

Next == \/ \E e \in Line : FirstLine(e) \/ NextLine(e)
        \/ Return
        \/ \E a \in Probe : match(a)
        \/ Enter \/ Pass \/ Found

Spec == Init /\ [][Next]_vars

-----------------------------------------------------------------------------
TypeOK ==
  /\ pc \in {"read", "ready", "walk", "yes", "no"}
  /\ heap \in Seq([min : Octet, max : Int,
                   child : 0 .. Len(heap), next : 0 .. Len(heap)])
  /\ of \in [Position -> 0 .. Len(heap)] /\ head \in 0 .. Len(heap)
  /\ lines \in Seq(Line) /\ paths \in Seq([Position -> 1 .. Len(heap)])
  /\ ip \in Address /\ f \in [Position -> 0 .. Len(heap)] /\ level \in -1 .. 3

\* What a range stands for: the addresses that agree with it in as many leading
\* bits as its size says.
Number(a) ==
  LET k == Pow2[OctetBits] IN ((a[0] * k + a[1]) * k + a[2]) * k + a[3]
In(e, a)  == LET block == Pow2[Bits - e.size]
             IN Number(a) \div block = Number(e.ip) \div block

\* match finds every address of a listed host or range of at most one octet,
\* in whatever order the lines come: returning to a prefix that was read
\* before makes a second branch, which the walk has to come back for.
NarrowMatched ==
  pc = "no" => ~\E i \in DOMAIN lines : lines[i].size >= 3 * OctetBits /\ In(lines[i], ip)

\* match finds no address that is not listed, not even for ranges wider than
\* an octet, for which the last octet runs past its end or overflows.
OnlyListed == pc = "yes" => \E i \in DOMAIN lines : In(lines[i], ip)

\* The walk never comes back to a node it has looked at, however the branches
\* lie: every step goes on to a node that was made later.  So match ends, after
\* at most as many steps as there are nodes.
Onward == [][pc = "walk" /\ pc' = "walk" => f'[level'] > f[level]]_vars
=============================================================================
