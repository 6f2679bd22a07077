------------------------------ MODULE Archive -------------------------------
(***************************************************************************)
(* What the backend keeps of the data it is given: Controller.putData      *)
(* inserts a row, then StoredConnection.refactorArchive replaces the rows  *)
(* older than a quarter of an hour by blocks of 20 minutes and the ones    *)
(* older than two days by blocks of two hours, with DataList.refactor.     *)
(* Every request is a process of its own; each level is one transaction    *)
(* whose SELECT ... FOR UPDATE locks the rows it replaces.                 *)
(*                                                                         *)
(* One of the four byte counts stands for all (the code treats them        *)
(* alike), and all records have the same trust level.                      *)
(***************************************************************************)
EXTENDS Integers, Bags, FiniteSets, Functions

CONSTANTS PutRequest,    \* concurrent putdata requests
          User,
          Amount,        \* byte counts of the records that arrive
          Length,        \* the lengths of their windows; the clock may be set back
          Size1, Lag1,   \* archL1Size, now - archL1Start
          Size2, Lag2,   \* archL2Size, now - archL2Start
          MaxInt,        \* largest value of an INT column
          MaxPuts,       \* bound on the records that arrive
          MaxTime        \* bound on the clock

ASSUME ArchiveAssumption ==
  /\ Amount \subseteq Nat /\ Length \subseteq Int /\ MaxInt \in Nat
  /\ Size1 \in Nat \ {0} /\ Size2 \in Nat \ {0} /\ Size2 % Size1 = 0
  /\ Lag1 \in Nat /\ Lag2 \in Nat /\ Lag1 < Lag2
  /\ MaxPuts \in Nat /\ MaxTime \in Nat

VARIABLES now,
          rows,             \* the bag of rows of table datarecord
          archivePc, asOf,  \* of each request: its next step, the time it works with
          puts,             \* how many records have arrived
          given             \* the bytes that have arrived, per user (history)

archiveVars == <<now, rows, archivePc, asOf, puts, given>>

(***************************************************************************)
(* DataList.refactor with start 0.                                         *)
(***************************************************************************)
Floor(t, size) == (t \div size) * size

\* A sample of no length is made one second long.
Stop(r) == IF r.end = r.start THEN r.end + 1 ELSE r.end

First(r, size) == Floor(r.start, size)
Last(r, size)  == Floor(Stop(r) - 1, size)

\* The blocks a sample is spread over.
Spread(r, size) == {b \in First(r, size) .. Last(r, size) : b % size = 0}

\* What goes into a block that is not the sample's last: the part of the
\* block that the sample covers, rounded down.
Part(r, b, size) ==
  (r.down * (IF b = First(r, size) THEN b + size - r.start ELSE size))
    \div (Stop(r) - r.start)

\* The last block too gets its part rounded down, and not what is left.
ShareRounded(r, b, size) ==
  IF b = Last(r, size) /\ b # First(r, size)
  THEN (r.down * (Stop(r) - b)) \div (Stop(r) - r.start)
  ELSE IF b = Last(r, size) THEN r.down ELSE Part(r, b, size)

\* The last block gets what the others have left.
Share(r, b, size) ==
  IF b = Last(r, size)
  THEN r.down - SumFunction([c \in Spread(r, size) \ {b} |-> Part(r, c, size)])
  ELSE Part(r, b, size)

\* The block of a user that starts at b.
Block(samples, u, b, size, level) ==
  LET here == {r \in BagToSet(samples) : r.userId = u /\ b \in Spread(r, size)}
  IN [userId |-> u, start |-> b, end |-> b + size, archived |-> level,
      down |-> SumFunction([r \in here |-> samples[r] * Share(r, b, size)])]

\* The blocks that end by the given end.
Refactor(samples, end, size, level) ==
  {Block(samples, u, b, size, level) :
     u \in User, b \in {c \in 0 .. end - size : c % size = 0}}

(***************************************************************************)
(* Rows.                                                                   *)
(***************************************************************************)
\* An INT column keeps what fits.
Clamped(r) == [r EXCEPT !.down = IF @ > MaxInt THEN MaxInt ELSE @]

\* Level 2 is looked for in the rows of level 1 only.
DueBelow(r, horizon, level) == r.start <= horizon /\ r.archived < level

\* getDataForArc: the rows a level replaces, those it made earlier included.
Due(r, horizon, level) == r.start <= horizon /\ r.archived <= level

\* The table after one level of refactorArchive.
Archived(t, horizon, size, level) ==
  LET old == {r \in BagToSet(t) : Due(r, horizon, level)}
      samples == [r \in old |-> t[r]]
      new == {r \in Refactor(samples, horizon + size, size, level) : r.down # 0}
  IN [r \in BagToSet(t) \ old |-> t[r]] (+) SetToBag({Clamped(r) : r \in new})

-----------------------------------------------------------------------------
ArchiveInit == /\ now = 0 /\ rows = EmptyBag
               /\ archivePc = [q \in PutRequest |-> "idle"] /\ asOf = [q \in PutRequest |-> 0]
               /\ puts = 0 /\ given = [u \in User |-> 0]

\* putData for one user: the row is inserted and kept whatever comes next.  Its
\* window is not looked at: it may be old, as the daemon keeps the records it could
\* not send, and by the server's clock it may lie ahead.
PutData(q, u, s, e, n) ==
  /\ archivePc[q] = "idle" /\ puts < MaxPuts
  /\ 0 <= e
  /\ LET r == [userId |-> u, start |-> s, end |-> e, archived |-> 0, down |-> n]
     IN rows' = rows (+) SetToBag({Clamped(r)})
  /\ given' = [given EXCEPT ![u] = @ + n]
  /\ puts' = puts + 1
  /\ archivePc' = [archivePc EXCEPT ![q] = "clock"]
  /\ UNCHANGED <<now, asOf>>

\* refactorArchive reads the clock once for both levels.
ReadClock(q) ==
  /\ archivePc[q] = "clock"
  /\ asOf' = [asOf EXCEPT ![q] = now]
  /\ archivePc' = [archivePc EXCEPT ![q] = "level1"]
  /\ UNCHANGED <<now, rows, puts, given>>

ArchiveLevel1(q) ==
  /\ archivePc[q] = "level1"
  /\ rows' = Archived(rows, asOf[q] - Lag1, Size1, 1)
  /\ archivePc' = [archivePc EXCEPT ![q] = "level2"]
  /\ UNCHANGED <<now, asOf, puts, given>>

ArchiveLevel2(q) ==
  /\ archivePc[q] = "level2"
  /\ rows' = Archived(rows, asOf[q] - Lag2, Size2, 2)
  /\ archivePc' = [archivePc EXCEPT ![q] = "idle"]
  /\ UNCHANGED <<now, asOf, puts, given>>

\* A transaction fails and is rolled back, or the request is cut off.
Abort(q) ==
  /\ archivePc[q] # "idle"
  /\ archivePc' = [archivePc EXCEPT ![q] = "idle"]
  /\ UNCHANGED <<now, rows, asOf, puts, given>>

Clock == /\ now < MaxTime
         /\ now' = now + 1
         /\ UNCHANGED <<rows, archivePc, asOf, puts, given>>

ArchiveNext == \/ \E q \in PutRequest, u \in User, n \in Amount :
                    \E s \in 0 .. MaxTime, l \in Length : PutData(q, u, s, s + l, n)
               \/ \E q \in PutRequest : \/ ReadClock(q) \/ ArchiveLevel1(q)
                                        \/ ArchiveLevel2(q) \/ Abort(q)
               \/ Clock

ArchiveSpec == ArchiveInit /\ [][ArchiveNext]_archiveVars
-----------------------------------------------------------------------------
Row == [userId : User, start : Nat, end : Nat, archived : 0 .. 2, down : 0 .. MaxInt]

ArchiveTypeOK ==
  /\ now \in 0 .. MaxTime /\ puts \in 0 .. MaxPuts
  /\ IsABag(rows) /\ BagToSet(rows) \subseteq Row
  /\ archivePc \in [PutRequest -> {"idle", "clock", "level1", "level2"}]
  /\ asOf \in [PutRequest -> 0 .. MaxTime]
  /\ given \in [User -> Nat]

\* The bytes of a user in a bag of rows.
Total(t, u) == SumFunction([r \in {x \in BagToSet(t) : x.userId = u} |-> t[r] * r.down])

\* However requests interleave, and with whatever stale time they work, a user
\* never has two rows of the same level for the same block: what is read in
\* block by block is not split over rows.
OneRowPerBlock ==
  \A r1, r2 \in {r \in BagToSet(rows) : r.archived > 0} :
    /\ rows[r1] = 1
    /\ r1 # r2 => \/ r1.userId # r2.userId \/ r1.archived # r2.archived
                  \/ r1.start # r2.start

\* The rows not yet archived that the next level of some request replaces, and
\* whose last block starts after that level's horizon or, when the clock was
\* set back in their window, lies before the first one.
AtEdge(u) ==
  LET edge(r, horizon, size) ==
        r.start <= horizon /\ (horizon < Last(r, size) \/ Last(r, size) < First(r, size))
  IN {r \in BagToSet(rows) :
        /\ r.userId = u /\ r.archived = 0
        /\ \E q \in PutRequest : \/ archivePc[q] = "level1" /\ edge(r, asOf[q] - Lag1, Size1)
                                 \/ archivePc[q] = "level2" /\ edge(r, asOf[q] - Lag2, Size2)}

\* No step creates bytes, and the only bytes a step loses are of records not
\* archived before that straddle the horizon of the level that replaces them
\* or end a block before they start, and what exceeds the INT column of a
\* block: splitting and merging loses none to rounding, turning 20 minute
\* blocks into two hour blocks loses none, and concurrent requests lose none.
OnlyEdgesLose ==
  [][\A u \in User :
       LET lost == Total(rows, u) + given'[u] - given[u] - Total(rows', u)
           full == \E r \in BagToSet(rows') : r.userId = u /\ r.down = MaxInt
       IN /\ lost >= 0
          /\ full \/ lost <= SumFunction([r \in AtEdge(u) |-> rows[r] * r.down])]_archiveVars
=============================================================================
