------------------------------- MODULE Totals -------------------------------
(***************************************************************************)
(* Data that is put for several users at once: Controller.putData divides  *)
(* every record among them by what they have used in its window, as        *)
(* DataRecord.total computes it from the rows, or by their quotas.  Time   *)
(* stays within the quarter of an hour that refactorArchive, called at the *)
(* end of putData, leaves alone (see Archive).  Of the two unmetered       *)
(* counts, which are treated alike, un stands for both.                    *)
(*                                                                         *)
(* a / (b / c) is computed in floating point by the code and exactly here: *)
(* the two may differ where the exact result is a half.                    *)
(***************************************************************************)
EXTENDS Integers, Sequences, FiniteSetsExt

CONSTANTS Users,        \* names of users of the connection
          Lists,        \* the lists of users a request may name
          Data,         \* lists of records that may arrive
          Trust,        \* trust levels
          Quotas,       \* quotas of users
          MaxEnd,       \* bound on the windows of the records
          MaxRequests   \* bound on the putdata requests

ASSUME TotalsAssumption ==
  /\ Trust \subseteq Nat /\ Quotas \subseteq Nat /\ MaxEnd \in Nat /\ MaxRequests \in Nat
  /\ Lists \subseteq Seq(Users) \ {<<>>}
  /\ Data \subseteq Seq([start : 0 .. MaxEnd, end : 0 .. MaxEnd, down : Nat, up : Nat, un : Nat])

VARIABLES quota,    \* downQuota and upQuota of each user
          records,  \* the rows of table datarecord, oldest first
          requests,
          arrived,  \* the bytes that arrived (history)
          slack,    \* how many shares were rounded (history)
          upLost,   \* bytes uploaded by users nobody of whom had uploads before (history)
          cutOff    \* a request has ended in a division by zero (history)

totalsVars == <<quota, records, requests, arrived, slack, upLost, cutOff>>

Counts == {"down", "up", "un"}
None   == [c \in Counts |-> 0]

\* Math.round(a / b) for counts.
Round(a, b) == (2 * a + b) \div (2 * b)

\* w[1] + ... + w[n].
Sum(w, n) == LET s[k \in 0 .. n] == IF k = 0 THEN 0 ELSE s[k - 1] + w[k] IN s[n]

(***************************************************************************)
(* DataRecord.total                                                        *)
(***************************************************************************)
Within(r, s, e)    == r.start >= s /\ r.end <= e
EndsIn(r, s, e)    == r.end > s /\ r.end <= e
StartsIn(r, s, e)  == r.start >= s /\ r.start < e

\* A sample that covers the period and more on both sides is passed over.
Counted(r, s, e) == Within(r, s, e) \/ EndsIn(r, s, e) \/ StartsIn(r, s, e)

\* The part before the period is counted instead of the part in it.
PartBefore(r, c, s, e) ==
  IF Within(r, s, e) THEN r[c]
  ELSE IF EndsIn(r, s, e) THEN Round(r[c] * (s - r.start), r.end - r.start)
  ELSE Round(r[c] * (e - r.start), r.end - r.start)

\* What a sample adds to the count c: the part of it in the period.
PartIn(r, c, s, e) ==
  IF Within(r, s, e) THEN r[c]
  ELSE IF EndsIn(r, s, e) THEN Round(r[c] * (r.end - s), r.end - r.start)
  ELSE Round(r[c] * (e - r.start), r.end - r.start)

\* Of the samples, which are those rows, the counts of the lowest trust level
\* that is counted are returned.
total(samples, s, e) ==
  LET in     == {k \in samples : Counted(records[k], s, e)}
      lowest == Min({records[k].trust : k \in in})
      added(c) == [k \in 1 .. Len(records) |->
                     IF k \in in /\ records[k].trust = lowest THEN PartIn(records[k], c, s, e) ELSE 0]
  IN IF in = {} THEN None ELSE [c \in Counts |-> Sum(added(c), Len(records))]

\* The rows of a user, and those that getData reads of them.
Own(u)                  == {k \in 1 .. Len(records) : records[k].user = u}
getData(u, begining, e) == {k \in Own(u) : records[k].end >= begining /\ records[k].start <= e}

(***************************************************************************)
(* Controller.putData                                                      *)
(***************************************************************************)
\* From the first start to the last end of the records.
first(data) == Min({data[k].start : k \in 1 .. Len(data)})
last(data)  == Max({data[k].end : k \in 1 .. Len(data)})

\* What u has used in the window of d, one of the records, and all of us together.
uTotals(data, d, u)        == total(getData(u, first(data), last(data)), d.start, d.end)
grandTotal(data, d, us, c) == Sum([j \in 1 .. Len(us) |-> uTotals(data, d, us[j])[c]], Len(us))
limitTotal(us, c)    == Sum([j \in 1 .. Len(us) |-> quota[us[j]][c]], Len(us))

\* By quotas while there was no use of the other count.
DownShareByUp(data, d, us, u) ==
  IF limitTotal(us, "down") = 0 THEN Round(d.down, Len(us))
  ELSE IF grandTotal(data, d, us, "up") = 0
  THEN Round(d.down * quota[u].down, limitTotal(us, "down"))
  ELSE IF uTotals(data, d, u).down > 0
  THEN Round(d.down * uTotals(data, d, u).down, grandTotal(data, d, us, "down")) ELSE 0

\* Equally without quotas, by them without use, and else by use.
DownShare(data, d, us, u) ==
  IF limitTotal(us, "down") = 0 THEN Round(d.down, Len(us))
  ELSE IF grandTotal(data, d, us, "down") = 0
  THEN Round(d.down * quota[u].down, limitTotal(us, "down"))
  ELSE IF uTotals(data, d, u).down > 0
  THEN Round(d.down * uTotals(data, d, u).down, grandTotal(data, d, us, "down")) ELSE 0

\* Whether quotas are used depends on the download here as well.
UpShare(data, d, us, u) ==
  IF limitTotal(us, "up") = 0 THEN Round(d.up, Len(us))
  ELSE IF grandTotal(data, d, us, "down") = 0
  THEN Round(d.up * quota[u].up, limitTotal(us, "up"))
  ELSE IF uTotals(data, d, u).up > 0
  THEN Round(d.up * uTotals(data, d, u).up, grandTotal(data, d, us, "up")) ELSE 0

UnShare(data, d, us, u) ==
  IF grandTotal(data, d, us, "un") = 0 THEN Round(d.un, Len(us))
  ELSE Round(d.un * uTotals(data, d, u).un, grandTotal(data, d, us, "un"))

\* A quota of zero is divided by, which the runtime makes an exception.
ZeroQuota(data, d, us, u) ==
  /\ grandTotal(data, d, us, "down") = 0
  /\ \E c \in {"down", "up"} : limitTotal(us, c) > 0 /\ quota[u][c] = 0

\* The row of u for a record that is put for several users.
SharedRow(data, d, us, u, trust) ==
  [user |-> u, start |-> d.start, end |-> d.end, trust |-> trust,
   down |-> DownShare(data, d, us, u), up |-> UpShare(data, d, us, u), un |-> UnShare(data, d, us, u)]

\* The row for a record that is put for one.
WholeRow(d, u, trust) ==
  [user |-> u, start |-> d.start, end |-> d.end, trust |-> trust,
   down |-> d.down, up |-> d.up, un |-> d.un]

AmountOf(data, c) == Sum([k \in 1 .. Len(data) |-> data[k][c]], Len(data))

\* One user: the records are stored as they are.
putOne(u, data, trust) ==
  /\ records' = records \o [k \in 1 .. Len(data) |-> WholeRow(data[k], u, trust)]
  /\ arrived' = [c \in Counts |-> arrived[c] + AmountOf(data, c)]
  /\ UNCHANGED <<slack, upLost, cutOff>>

\* Several: for each record, for each user, one row is inserted; the record and
\* the user of the k-th of them.
RecordAt(us, data, k) == data[((k - 1) \div Len(us)) + 1]
UserAt(us, k)         == us[((k - 1) % Len(us)) + 1]

\* The rows inserted before the first that throws.
Made(us, data) ==
  LET all    == 1 .. Len(data) * Len(us)
      throws == {k \in all : ZeroQuota(data, RecordAt(us, data, k), us, UserAt(us, k))}
  IN Min({Len(data) * Len(us)} \cup {k - 1 : k \in throws})

\* Nobody had uploads, but quotas are not used because somebody had downloads.
Unused(data, d, us) == /\ grandTotal(data, d, us, "down") > 0 /\ grandTotal(data, d, us, "up") = 0
                 /\ limitTotal(us, "up") > 0

Lost(us, data) == Sum([k \in 1 .. Len(data) |-> IF Unused(data, data[k], us) THEN data[k].up ELSE 0],
                      Len(data))

\* What was used is what it was before the request.
putSeveral(us, data, trust) ==
  /\ records' = records \o [k \in 1 .. Made(us, data) |->
                           SharedRow(data, RecordAt(us, data, k), us, UserAt(us, k), trust)]
  /\ arrived' = [c \in Counts |-> arrived[c] + AmountOf(data, c)]
  /\ slack' = slack + Len(data) * Len(us)
  /\ upLost' = upLost + Lost(us, data)
  /\ cutOff' = (cutOff \/ Made(us, data) < Len(data) * Len(us))

putData(us, data, trust) ==
  /\ requests < MaxRequests /\ requests' = requests + 1
  /\ \/ Len(us) = 1 /\ putOne(us[1], data, trust)
     \/ Len(us) > 1 /\ putSeveral(us, data, trust)
  /\ UNCHANGED quota

TotalsInit ==
  /\ quota \in [Users -> [down : Quotas, up : Quotas]]
  /\ records = <<>> /\ requests = 0 /\ arrived = None
  /\ slack = 0 /\ upLost = 0 /\ cutOff = FALSE

TotalsNext == \E us \in Lists, data \in Data, trust \in Trust : putData(us, data, trust)

TotalsSpec == TotalsInit /\ [][TotalsNext]_totalsVars
-----------------------------------------------------------------------------
UsageRow == [user : Users, start : 0 .. MaxEnd, end : 0 .. MaxEnd, trust : Trust,
             down : Nat, up : Nat, un : Nat]

TotalsTypeOK ==
  /\ quota \in [Users -> [down : Quotas, up : Quotas]]
  /\ records \in Seq(UsageRow)
  /\ requests \in 0 .. MaxRequests /\ arrived \in [Counts -> Nat]
  /\ slack \in Nat /\ upLost \in Nat /\ cutOff \in BOOLEAN

\* A sample reaches over both ends of a period.
Covers(r, s, e) == r.start < s /\ r.end > e

\* What is stored of a count and what has arrived differ by at most a half for
\* every share that was rounded.
Near(c, lost) ==
  LET d == AmountOf(records, c) + lost - arrived[c] IN 2 * d <= slack /\ -2 * d <= slack

\* However often data is put for several users, whose shares follow from the
\* shares they had before, the downloads and the unmetered bytes are neither
\* lost nor counted twice but for rounding, unless a request has been cut off
\* at a user without a quota.  Of the uploads nothing is lost either, except
\* all of a record in whose window the users had downloads and no uploads: the
\* code asks for downloads to decide whether quotas are used.
SharesAddUp ==
  cutOff \/ (Near("down", 0) /\ Near("un", 0) /\ Near("up", upLost))

\* The samples of u without length, or inverted, that have m in them; those
\* that reach over both ends of one of two periods; and the downloads of some.
Twice(u, m)        == {k \in Own(u) : records[k].end <= m /\ m <= records[k].start}
Passed(u, s, m, e) == {k \in Own(u) : Covers(records[k], s, m) \/ Covers(records[k], m, e)}
DownOf(samples)    == Sum([k \in 1 .. Len(records) |-> IF k \in samples THEN records[k].down ELSE 0],
                          Len(records))

\* DataRecord.total divides time as it should: the totals of two periods next
\* to each other are, but for the rounding of the samples, the total of both,
\* when the samples have one trust level.  It is more by at most the samples
\* without length, or inverted, that have the moment between the periods in
\* them, which are counted twice, and less by at most the samples that reach
\* over both ends of a period, which are left out of it.
TotalsSplit ==
  \A u \in Users : \A s, m, e \in 0 .. MaxEnd :
    LET d == total(Own(u), s, m).down + total(Own(u), m, e).down - total(Own(u), s, e).down
        n == Cardinality(Own(u))
    IN s < m /\ m < e /\ (\A j, k \in Own(u) : records[j].trust = records[k].trust)
         => d <= n + DownOf(Twice(u, m)) /\ -d <= n + DownOf(Passed(u, s, m, e))
=============================================================================
