---------------------------- MODULE MeterProofs -----------------------------
(***************************************************************************)
(* Proofs about Meter, for any packets, hosts, filter and bounds.          *)
(***************************************************************************)
EXTENDS Meter, TLAPS

\* What is spread over stages without overlap.
Apart(f) == \A s, t \in Stage : s # t => f[s] \cap f[t] = {}
All(f)   == UNION {f[s] : s \in Stage}

\* Passing everything of one stage on to another keeps the stages apart and
\* their union the same: the argument of every step of realtime and output.
LEMMA PassOn ==
  ASSUME NEW f, NEW g, NEW a \in Stage, NEW b \in Stage, a # b,
         g[a] = {}, g[b] = f[a] \cup f[b],
         \A s \in Stage : s \notin {a, b} => g[s] = f[s],
         Apart(f)
  PROVE  Apart(g) /\ All(g) = All(f)
<1>1. \A s, t \in Stage : \A x : s # t => ~(x \in f[s] /\ x \in f[t])
  BY DEF Apart
<1>2. \A s \in Stage : \A x : x \in g[s] => \E t \in Stage : x \in f[t] /\ (t = s \/ (s = b /\ t = a))
  OBVIOUS
<1>3. Apart(g)
  <2> SUFFICES ASSUME NEW s \in Stage, NEW t \in Stage, s # t, NEW x, x \in g[s], x \in g[t]
              PROVE  FALSE
    BY DEF Apart
  <2>1. s # a /\ t # a
    OBVIOUS
  <2>2. CASE s = b
    <3>1. x \in f[t] /\ (x \in f[a] \/ x \in f[b])
      BY <2>1, <2>2
    <3> QED BY <3>1, <2>1, <2>2, <1>1
  <2>3. CASE t = b
    <3>1. x \in f[s] /\ (x \in f[a] \/ x \in f[b])
      BY <2>1, <2>3
    <3> QED BY <3>1, <2>1, <2>3, <1>1
  <2>4. CASE s # b /\ t # b
    BY <2>1, <2>4, <1>1
  <2> QED BY <2>2, <2>3, <2>4
<1>4. \A s \in Stage : \A x : x \in f[s] => \E t \in Stage : x \in g[t]
  OBVIOUS
<1>5. All(g) = All(f)
  BY <1>2, <1>4 DEF All
<1> QED BY <1>3, <1>5

\* The empty counts hold nothing and are well typed and sorted.
LEMMA Empties ==
  /\ NoTable \in Table /\ InTable(NoTable) = {} /\ TableOK(NoTable)
  /\ NoBytes \in Bytes /\ InBytes(NoBytes) = {} /\ BytesOK(NoBytes)
  /\ NoRecord \in Record /\ NoRecord.bytes = NoBytes
  /\ NoRecord.start = 0 /\ NoRecord.end = 0
  BY DEF NoTable, NoBytes, NoRecord, Table, Bytes, Record, InTable, InBytes,
         TableOK, BytesOK

\* x += y holds what x and y hold.
LEMMA PlusBytes ==
  ASSUME NEW x \in Bytes, NEW y \in Bytes
  PROVE  /\ Plus(x, y) \in Bytes
         /\ InBytes(Plus(x, y)) = InBytes(x) \cup InBytes(y)
         /\ BytesOK(x) /\ BytesOK(y) => BytesOK(Plus(x, y))
<1>1. Plus(x, y) \in Bytes
  BY DEF Plus, Bytes
<1>2. InBytes(Plus(x, y)) = InBytes(x) \cup InBytes(y)
  BY DEF Plus, InBytes, Bytes
<1>3. BytesOK(x) /\ BytesOK(y) => BytesOK(Plus(x, y))
  BY DEF Plus, BytesOK
<1> QED BY <1>1, <1>2, <1>3

\* Summing a table loses nothing and, with the filter loaded, puts each
\* packet into its own column.
LEMMA SumsTable ==
  ASSUME NEW t \in Table, NEW filter, TableOK(t),
         filter # "null" \/ t = NoTable
  PROVE  /\ Sums(t, filter) \in Bytes
         /\ InBytes(Sums(t, filter)) = InTable(t)
         /\ BytesOK(Sums(t, filter))
<1> DEFINE S == Sums(t, filter)
           F == {k \in Host : match(filter, k)}
           N == Host \ F
<1>1. /\ S["down"] = UNION {t[k]["down"] : k \in N}
      /\ S["up"] = UNION {t[k]["up"] : k \in N}
      /\ S["uDown"] = UNION {t[k]["down"] : k \in F}
      /\ S["uUp"] = UNION {t[k]["up"] : k \in F}
      /\ S = [c \in Column |-> S[c]]
  BY DEF Sums, Column
<1>2. Host = F \cup N /\ F \cap N = {}
  OBVIOUS
<1>3. \A k \in Host, w \in Way : t[k][w] \subseteq Packet
  BY DEF Table
<1>4. \A k \in Host, w \in Way : \A x \in t[k][w] :
         way[x] = w /\ (addr[x] \in Unmetered <=> k \in F)
  BY DEF TableOK, match, NoTable, Way
<1> HIDE DEF S, F, N
<1>5. \A c \in Column : S[c] \subseteq Packet
  BY <1>1, <1>2, <1>3 DEF Column, Way
<1>6. S \in Bytes
  BY <1>1, <1>5 DEF Bytes
<1>7. \A x : x \in InBytes(S) <=> \E k \in Host, w \in Way : x \in t[k][w]
  <2>1. \A x : x \in InBytes(S) <=> \/ x \in S["down"] \/ x \in S["up"]
                                    \/ x \in S["uDown"] \/ x \in S["uUp"]
    BY DEF InBytes, Column
  <2>2. \A x : (x \in S["down"] \/ x \in S["uDown"]) <=> \E k \in Host : x \in t[k]["down"]
    BY <1>1, <1>2
  <2>3. \A x : (x \in S["up"] \/ x \in S["uUp"]) <=> \E k \in Host : x \in t[k]["up"]
    BY <1>1, <1>2
  <2> QED BY <2>1, <2>2, <2>3 DEF Way
<1>8. InBytes(S) = InTable(t)
  BY <1>7 DEF InTable
<1>9. BytesOK(S)
  <2> SUFFICES ASSUME NEW c \in Column, NEW x \in S[c] PROVE c = ColumnOf(x)
    BY DEF BytesOK
  <2>1. CASE c = "down" BY <2>1, <1>1, <1>2, <1>4 DEF ColumnOf, Way
  <2>2. CASE c = "up" BY <2>2, <1>1, <1>2, <1>4 DEF ColumnOf, Way
  <2>3. CASE c = "uDown" BY <2>3, <1>1, <1>2, <1>4 DEF ColumnOf, Way
  <2>4. CASE c = "uUp" BY <2>4, <1>1, <1>2, <1>4 DEF ColumnOf, Way
  <2> QED BY <2>1, <2>2, <2>3, <2>4 DEF Column
<1> QED BY <1>6, <1>8, <1>9 DEF S

\* The stages one by one, now and after a step.
LEMMA Contents ==
  /\ Content["handler"] = {handling} \ {NoPacket} /\ Content["vals"] = InTable(vals)
  /\ Content["swapped"] = InTable(swapped) /\ Content["v"] = InBytes(v)
  /\ Content["totals"] = InBytes(totals) /\ Content["dR"] = InBytes(dR.bytes)
  /\ Content["made"] = InMade
  /\ Content'["handler"] = {handling'} \ {NoPacket} /\ Content'["vals"] = InTable(vals')
  /\ Content'["swapped"] = InTable(swapped') /\ Content'["v"] = InBytes(v')
  /\ Content'["totals"] = InBytes(totals') /\ Content'["dR"] = InBytes(dR.bytes')
  /\ Content'["made"] = InMade'
<1>1. /\ Content["handler"] = {handling} \ {NoPacket} /\ Content["vals"] = InTable(vals)
      /\ Content["swapped"] = InTable(swapped) /\ Content["v"] = InBytes(v)
      /\ Content["totals"] = InBytes(totals) /\ Content["dR"] = InBytes(dR.bytes)
      /\ Content["made"] = InMade
  BY DEF Content, Stage
<1>2. /\ Content'["handler"] = {handling'} \ {NoPacket} /\ Content'["vals"] = InTable(vals')
      /\ Content'["swapped"] = InTable(swapped') /\ Content'["v"] = InBytes(v')
      /\ Content'["totals"] = InBytes(totals') /\ Content'["dR"] = InBytes(dR.bytes')
      /\ Content'["made"] = InMade'
  BY DEF Content, Stage
<1> QED BY <1>1, <1>2

\* handler adds its packet to one count of the table.
LEMMA AddToTable ==
  ASSUME NEW t \in Table, NEW p \in Packet,
         NEW u, u = [t EXCEPT ![addr[p]][way[p]] = t[addr[p]][way[p]] \cup {p}]
  PROVE  /\ u \in Table
         /\ InTable(u) = InTable(t) \cup {p}
         /\ TableOK(t) => TableOK(u)
<1>1. addr[p] \in Host /\ way[p] \in Way
  BY MeterAssumption
<1>2. u \in Table
  BY <1>1 DEF Table
<1>3. \A k \in Host, w \in Way :
        u[k][w] = IF k = addr[p] /\ w = way[p] THEN t[k][w] \cup {p} ELSE t[k][w]
  BY <1>1 DEF Table
<1>4. InTable(u) = InTable(t) \cup {p}
  BY <1>1, <1>3 DEF InTable
<1>5. TableOK(t) => TableOK(u)
  BY <1>3 DEF TableOK
<1> QED BY <1>2, <1>4, <1>5

LEMMA InitIInv == Init => IInv
<1> SUFFICES ASSUME Init PROVE IInv
  OBVIOUS
<1> USE Empties DEF Init
<1>1. TypeOK
  BY MeterAssumption DEF TypeOK, now
<1>2. Locked /\ InHand /\ Timely
  BY MeterAssumption DEF Locked, InHand, Timely, now
<1>3. Sorted
  BY DEF Sorted
<1>4. \A s \in Stage : Content[s] = {}
  BY Contents DEF InMade, Stage
<1>5. CountedOnce
  BY <1>4 DEF CountedOnce
<1>6. NeverFromFuture /\ Spanned
  BY DEF NeverFromFuture, Spanned
<1> QED BY <1>1, <1>2, <1>3, <1>5, <1>6 DEF IInv

\* CountedOnce is the partition of seen, and the records apart.
LEMMA Partition ==
  /\ CountedOnce <=> /\ seen = All(Content) /\ Apart(Content)
                     /\ \A r1, r2 \in made : r1 # r2 => InBytes(r1.bytes) \cap InBytes(r2.bytes) = {}
  /\ CountedOnce' <=> /\ seen' = All(Content') /\ Apart(Content')
                      /\ \A r1, r2 \in made' : r1 # r2 => InBytes(r1.bytes) \cap InBytes(r2.bytes) = {}
  BY DEF CountedOnce, All, Apart, InBytes

\* A step that moves one stage's content to the next one keeps the partition.
LEMMA PassOnCounted ==
  ASSUME CountedOnce, seen' = seen, made' = made,
         NEW a \in Stage, NEW b \in Stage, a # b,
         Content'[a] = {}, Content'[b] = Content[a] \cup Content[b],
         \A s \in Stage : s \notin {a, b} => Content'[s] = Content[s]
  PROVE  CountedOnce'
<1>1. Apart(Content') /\ All(Content') = All(Content)
  <2>1. Apart(Content) BY Partition
  <2> HIDE DEF Content
  <2> QED BY <2>1, PassOn, SMTT(40)
<1> QED BY <1>1, Partition

LEMMA SameMade == made' = made => InMade' = InMade
  BY DEF InMade, InBytes

\* A step that moves no packet keeps the partition.
LEMMA SameCounted ==
  ASSUME CountedOnce, UNCHANGED <<seen, handling, vals, swapped, v, totals, dR, made>>
  PROVE  CountedOnce'
<1>1. \A s \in Stage : Content'[s] = Content[s]
  BY Contents, SameMade DEF Stage
<1>2. seen = All(Content) /\ Apart(Content)
  BY Partition
<1> HIDE DEF Content
<1>3. Apart(Content') /\ All(Content') = All(Content)
  BY <1>1, <1>2 DEF Apart, All
<1> QED BY <1>2, <1>3, Partition

LEMMA NextIInv == IInv /\ [Next]_vars => IInv'
<1> SUFFICES ASSUME IInv, [Next]_vars PROVE IInv'
  OBVIOUS
<1> USE DEF IInv
<1>1. CASE ReadIpList
  <2> USE <1>1 DEF ReadIpList, tables, realtime, sums, output, queues, time, history
  <2>1. TypeOK' /\ Locked' /\ InHand' /\ Timely'
    BY DEF TypeOK, Locked, InHand, Timely
  <2>2. Sorted'
    BY DEF Sorted, TableOK, BytesOK
  <2>3. CountedOnce'
    BY SameCounted
  <2>4. NeverFromFuture' /\ Spanned'
    BY DEF NeverFromFuture, Spanned
  <2> QED BY <2>1, <2>2, <2>3, <2>4
<1>2. ASSUME NEW p \in Packet, HandlerAcquire(p) PROVE IInv'
  <2> USE <1>2 DEF HandlerAcquire, CanLock, Capturing, realtime, sums, output, queues, time, history
  <2>1. TypeOK'
    <3>1. cell' \subseteq Packet
      <4>1. addr[p] \in Host /\ way[p] \in Way /\ vals \in Table
        BY MeterAssumption DEF TypeOK
      <4>2. vals[addr[p]][way[p]] \subseteq Packet
        BY <4>1 DEF Table
      <4> QED BY <4>2
    <3>2. at' \in [Packet -> 0 .. MaxTime]
      BY DEF TypeOK
    <3> QED BY <3>1, <3>2 DEF TypeOK
  <2>2. Locked' /\ InHand'
    BY MeterAssumption DEF TypeOK, Locked, InHand
  <2>3. Timely'
    BY DEF TypeOK, Timely
  <2>4. Sorted'
    BY DEF Sorted, TableOK, BytesOK
  <2>5. CountedOnce'
    <3>1. /\ Content["handler"] = {} /\ Content'["handler"] = {p}
          /\ \A s \in Stage : s # "handler" => Content'[s] = Content[s]
      BY Contents, MeterAssumption, SameMade DEF Stage
    <3>2. seen = All(Content) /\ Apart(Content)
      BY Partition
    <3>3. \A s \in Stage : p \notin Content[s]
      BY <3>2 DEF All
    <3> HIDE DEF Content
    <3>4. Apart(Content')
      BY <3>1, <3>2, <3>3 DEF Apart
    <3>5. All(Content') = All(Content) \cup {p}
      BY <3>1 DEF All, Stage
    <3> QED BY <3>2, <3>4, <3>5, Partition
  <2>6. NeverFromFuture'
    <3>1. \A s \in spans : \A q \in InBytes(s.record.bytes) : q # p /\ q \in Packet
      <4>1. \A s \in spans : InBytes(s.record.bytes) \subseteq seen
        BY DEF Spanned
      <4> QED BY <4>1 DEF TypeOK
    <3>2. \A q \in Packet : q # p => at'[q] = at[q]
      BY DEF TypeOK
    <3> QED BY <3>1, <3>2 DEF NeverFromFuture
  <2>7. Spanned'
    BY DEF Spanned
  <2> QED BY <2>1, <2>2, <2>3, <2>4, <2>5, <2>6, <2>7
<1>3. CASE HandlerRelease
  <2> USE <1>3 DEF HandlerRelease, realtime, sums, output, queues, time, history
  <2>1. /\ vals' \in Table /\ TableOK(vals')
        /\ InTable(vals') = InTable(vals) \cup {handling}
    <3>1. vals \in Table /\ handling \in Packet /\ TableOK(vals)
      BY DEF TypeOK, Sorted
    <3>2. vals' = [vals EXCEPT ![addr[handling]][way[handling]] =
                     vals[addr[handling]][way[handling]] \cup {handling}]
      BY DEF Locked
    <3> QED BY <3>1, <3>2, AddToTable
  <2>2. TypeOK'
    BY <2>1 DEF TypeOK
  <2>3. Locked' /\ InHand' /\ Timely'
    BY DEF Locked, InHand, Timely, TypeOK
  <2>4. Sorted'
    BY <2>1 DEF Sorted, BytesOK, TableOK
  <2>5. CountedOnce'
    <3>1. /\ Content'["handler"] = {}
          /\ Content'["vals"] = Content["handler"] \cup Content["vals"]
          /\ \A s \in Stage : s \notin {"handler", "vals"} => Content'[s] = Content[s]
      BY <2>1, Contents, SameMade DEF Stage
    <3> QED BY <3>1, PassOnCounted DEF Stage
  <2>6. NeverFromFuture' /\ Spanned'
    BY DEF NeverFromFuture, Spanned
  <2> QED BY <2>2, <2>3, <2>4, <2>5, <2>6
<1>4. CASE RealtimeTiming
  <2> USE <1>4 DEF RealtimeTiming, capture, tables, realtime, sums, output, time, history
  <2>1. TypeOK' /\ Locked' /\ InHand' /\ Timely'
    BY MeterAssumption DEF TypeOK, Locked, InHand, Timely
  <2>2. Sorted'
    BY DEF Sorted, TableOK, BytesOK
  <2>3. CountedOnce'
    BY SameCounted
  <2>4. NeverFromFuture' /\ Spanned'
    BY DEF NeverFromFuture, Spanned
  <2> QED BY <2>1, <2>2, <2>3, <2>4
<1>5. CASE RealtimeSwap
  <2> USE <1>5, Empties DEF RealtimeSwap, CanLock, Ticked, capture, sums, output, time, history
  <2>1. TypeOK'
    BY MeterAssumption DEF TypeOK
  <2>2. Locked' /\ InHand' /\ Timely'
    BY DEF TypeOK, Locked, InHand, Timely
  <2>3. Sorted'
    BY DEF Sorted, BytesOK, TableOK
  <2>4. CountedOnce'
    <3>1. /\ Content'["vals"] = {}
          /\ Content'["swapped"] = Content["vals"] \cup Content["swapped"]
          /\ \A s \in Stage : s \notin {"vals", "swapped"} => Content'[s] = Content[s]
      <4>1. Content'["vals"] = {}
        BY Contents
      <4>2. Content'["swapped"] = Content["vals"] /\ Content["swapped"] = {}
        BY Contents DEF InHand
      <4>3. \A s \in Stage : s \notin {"vals", "swapped"} => Content'[s] = Content[s]
        BY Contents, SameMade DEF Stage
      <4> QED BY <4>1, <4>2, <4>3
    <3> QED BY <3>1, PassOnCounted DEF Stage
  <2>5. NeverFromFuture' /\ Spanned'
    BY DEF NeverFromFuture, Spanned
  <2> QED BY <2>1, <2>2, <2>3, <2>4, <2>5
<1>6. CASE RealtimeSum
  <2> USE <1>6, Empties DEF RealtimeSum, capture, tables, sums, output, queues, time, history
  <2>1. unmetered # "null" \/ swapped = NoTable
    <3> SUFFICES ASSUME unmetered = "null" PROVE swapped = NoTable
      OBVIOUS
    <3>1. Content["swapped"] = {}
      <4>1. All(Content) = {}
        BY Partition DEF Sorted
      <4> QED BY <4>1 DEF All, Stage
    <3>2. \A k \in Host, w \in Way : swapped[k][w] = {}
      BY <3>1, Contents DEF InTable
    <3> QED BY <3>2 DEF TypeOK, Table, NoTable
  <2>2. /\ v' \in Bytes /\ InBytes(v') = InTable(swapped) /\ BytesOK(v')
    BY <2>1, SumsTable DEF TypeOK, Sorted
  <2>3. TypeOK'
    BY <2>2 DEF TypeOK
  <2>4. Locked' /\ InHand' /\ Timely'
    BY DEF TypeOK, Locked, InHand, Timely
  <2>5. Sorted'
    BY <2>2 DEF Sorted, BytesOK, TableOK
  <2>6. CountedOnce'
    <3>1. /\ Content'["swapped"] = {}
          /\ Content'["v"] = Content["swapped"] \cup Content["v"]
          /\ \A s \in Stage : s \notin {"swapped", "v"} => Content'[s] = Content[s]
      BY <2>2, Contents, SameMade DEF Stage, InHand
    <3> QED BY <3>1, PassOnCounted DEF Stage
  <2>7. NeverFromFuture' /\ Spanned'
    BY DEF NeverFromFuture, Spanned
  <2> QED BY <2>3, <2>4, <2>5, <2>6, <2>7
<1>7. CASE RealtimeAcquire
  <2> USE <1>7 DEF RealtimeAcquire, CanLock, capture, tables, output, queues, time, history
  <2>1. TypeOK' /\ Locked' /\ InHand' /\ Timely'
    BY DEF TypeOK, Locked, InHand, Timely
  <2>2. Sorted'
    BY DEF Sorted, TableOK, BytesOK
  <2>3. CountedOnce'
    BY SameCounted
  <2>4. NeverFromFuture' /\ Spanned'
    BY DEF NeverFromFuture, Spanned
  <2> QED BY <2>1, <2>2, <2>3, <2>4
<1>8. CASE RealtimeRelease
  <2> USE <1>8, Empties DEF RealtimeRelease, capture, tables, output, queues, time, history
  <2>1. /\ totals' \in Bytes /\ BytesOK(totals')
        /\ InBytes(totals') = InBytes(totals) \cup InBytes(v)
    BY PlusBytes DEF TypeOK, Locked, Sorted
  <2>2. TypeOK'
    BY <2>1 DEF TypeOK
  <2>3. Locked' /\ InHand' /\ Timely'
    BY DEF TypeOK, Locked, InHand, Timely
  <2>4. Sorted'
    BY <2>1 DEF Sorted, BytesOK, TableOK
  <2>5. CountedOnce'
    <3>1. /\ Content'["v"] = {}
          /\ Content'["totals"] = Content["v"] \cup Content["totals"]
          /\ \A s \in Stage : s \notin {"v", "totals"} => Content'[s] = Content[s]
      BY <2>1, Contents, SameMade, SMTT(30) DEF Stage
    <3> QED BY <3>1, PassOnCounted DEF Stage
  <2>6. NeverFromFuture' /\ Spanned'
    BY DEF NeverFromFuture, Spanned
  <2> QED BY <2>2, <2>3, <2>4, <2>5, <2>6
<1>9. CASE OutputTiming
  <2> USE <1>9 DEF OutputTiming, capture, tables, realtime, sums, output, time, history
  <2>1. TypeOK' /\ Locked' /\ InHand' /\ Timely'
    BY MeterAssumption, SMTT(30) DEF TypeOK, Locked, InHand, Timely
  <2>2. Sorted'
    BY DEF Sorted, TableOK, BytesOK
  <2>3. CountedOnce'
    BY SameCounted
  <2>4. NeverFromFuture' /\ Spanned'
    BY DEF NeverFromFuture, Spanned
  <2> QED BY <2>1, <2>2, <2>3, <2>4
<1>10. CASE OutputTake
  <2> USE <1>10, Empties DEF OutputTake, CanLock, Ticked, capture, tables, realtime
  <2> DEFINE w == [record |-> TakenRecord, from |-> closed, to |-> moment]
  <2>0. /\ closed \in 0 .. moment /\ moment \in 0 .. MaxTime /\ closed \in 0 .. MaxTime
        /\ end = clock[closed] /\ now \in Nat /\ now = clock[moment]
    BY MeterAssumption DEF TypeOK, Timely, now
  <2>1. /\ dR' = TakenRecord
        /\ dR' \in Record /\ dR.bytes' = totals /\ dR.start' = end /\ dR.end' = now
    BY <2>0 DEF TypeOK, Record, TakenRecord
  <2>2. w \in Span
    BY <2>0, <2>1 DEF Span
  <2>3. TypeOK'
    BY <2>0, <2>1, <2>2, MeterAssumption DEF TypeOK
  <2>4. Locked' /\ InHand'
    BY DEF TypeOK, Locked, InHand
  <2>5. Timely'
    BY <2>0, <2>1 DEF TypeOK, Timely
  <2>6. Sorted'
    BY <2>1 DEF Sorted, BytesOK, TableOK
  <2>7. CountedOnce'
    <3>1. /\ UNCHANGED <<handling, vals, swapped, v, made>> /\ totals' = NoBytes
          /\ dR.bytes' = totals /\ InBytes(dR.bytes) = {}
      BY <2>1 DEF InHand
    <3>2. InMade' = InMade
      BY <3>1, SameMade
    <3>3. /\ Content'["totals"] = {}
          /\ Content'["dR"] = Content["totals"] \cup Content["dR"]
          /\ \A s \in Stage : s \notin {"totals", "dR"} => Content'[s] = Content[s]
      <4>1. InBytes(totals') = {} /\ InBytes(dR.bytes') = InBytes(totals)
        BY <3>1
      <4>2. /\ Content'["handler"] = Content["handler"] /\ Content'["vals"] = Content["vals"]
            /\ Content'["swapped"] = Content["swapped"] /\ Content'["v"] = Content["v"]
        BY <3>1, Contents
      <4> QED BY <3>1, <3>2, <4>1, <4>2, Contents DEF Stage
    <3> QED BY <3>3, PassOnCounted DEF Stage
  <2>8. w.record = TakenRecord /\ TakenRecord.bytes = totals /\ w.from = closed
        /\ w.to = moment /\ TakenRecord.start = end /\ TakenRecord.end = now
    BY DEF TakenRecord
  <2>9. spans' = spans \cup {w}
    OBVIOUS
  <2> HIDE DEF w
  <2>10. InBytes(totals) \subseteq seen
    <3>1. Content["totals"] \subseteq All(Content)
      BY DEF All, Stage
    <3> QED BY <3>1, Partition, Contents
  <2>11. NeverFromFuture'
    <3>1. Steady(w.from, w.to) => w.record.start <= w.record.end
      BY <2>0, <2>8 DEF Steady
    <3>2. ASSUME NEW p \in InBytes(w.record.bytes)
          PROVE  at[p] <= w.to /\ (Steady(at[p], w.to) => clock[at[p]] <= w.record.end)
      <4>1. p \in Packet /\ at[p] \in 0 .. moment
        BY <2>0, <2>8, <2>10 DEF TypeOK, Timely
      <4> QED BY <2>0, <2>8, <4>1 DEF Steady
    <3> QED BY <2>9, <3>1, <3>2 DEF NeverFromFuture
  <2>12. Spanned'
    <3>1. InBytes(w.record.bytes) \subseteq seen
      BY <2>8, <2>10
    <3>2. w.record = dR' /\ made' = made /\ seen' = seen
      BY <2>1, <2>8
    <3> QED BY <2>9, <3>1, <3>2 DEF Spanned
  <2> QED BY <2>3, <2>4, <2>5, <2>6, <2>7, <2>11, <2>12
<1>11. ASSUME NEW pc \in {"wait", "dead"}, Put(pc) PROVE IInv'
  <2> USE <1>11, Empties DEF Put, capture, tables, realtime, sums, queues, time, history
  <2>1. TypeOK'
    BY DEF TypeOK
  <2>2. Locked' /\ InHand' /\ Timely'
    BY DEF TypeOK, Locked, InHand, Timely
  <2>3. Sorted'
    BY DEF Sorted, BytesOK, TableOK
  <2>4. CountedOnce'
    <3>0. InMade' = InBytes(dR.bytes) \cup InMade
      BY DEF InMade, InBytes
    <3>1. /\ Content'["dR"] = {}
          /\ Content'["made"] = Content["dR"] \cup Content["made"]
          /\ \A s \in Stage : s \notin {"dR", "made"} => Content'[s] = Content[s]
      BY <3>0, Contents DEF Stage
    <3>2. Apart(Content') /\ All(Content') = All(Content)
      <4>1. Apart(Content) BY Partition
      <4>2. "dR" \in Stage /\ "made" \in Stage /\ "dR" # "made" BY DEF Stage
      <4> HIDE DEF Content
      <4> QED BY <3>1, <4>1, <4>2, PassOn
    <3>3. \A r \in made : InBytes(r.bytes) \cap InBytes(dR.bytes) = {}
      <4>1. Content["made"] \cap Content["dR"] = {}
        BY Partition DEF Apart, Stage
      <4> QED BY <4>1, Contents DEF InMade
    <3>4. \A r1, r2 \in made' : r1 # r2 => InBytes(r1.bytes) \cap InBytes(r2.bytes) = {}
      BY <3>3, Partition
    <3> QED BY <3>2, <3>4, Partition
  <2>5. NeverFromFuture' /\ Spanned'
    BY DEF NeverFromFuture, Spanned
  <2> QED BY <2>1, <2>2, <2>3, <2>4, <2>5
<1>12. CASE Clock
  <2> USE <1>12 DEF Clock, capture, tables, realtime, sums, output, queues, history
  <2>1. TypeOK' /\ Locked' /\ InHand' /\ Timely'
    BY MeterAssumption DEF TypeOK, Locked, InHand, Timely
  <2>2. Sorted'
    BY DEF Sorted, TableOK, BytesOK
  <2>3. CountedOnce'
    BY SameCounted
  <2>4. NeverFromFuture' /\ Spanned'
    BY DEF NeverFromFuture, Spanned
  <2> QED BY <2>1, <2>2, <2>3, <2>4
<1>13. CASE UNCHANGED vars
  <2> USE <1>13 DEF vars, capture, tables, realtime, sums, output, queues, time, history
  <2>1. TypeOK' /\ Locked' /\ InHand' /\ Timely'
    BY DEF TypeOK, Locked, InHand, Timely
  <2>2. Sorted'
    BY DEF Sorted, TableOK, BytesOK
  <2>3. CountedOnce'
    BY SameCounted
  <2>4. NeverFromFuture' /\ Spanned'
    BY DEF NeverFromFuture, Spanned
  <2> QED BY <2>1, <2>2, <2>3, <2>4
<1> QED BY <1>1, <1>2, <1>3, <1>4, <1>5, <1>6, <1>7, <1>8, <1>9, <1>10, <1>11,
           <1>12, <1>13 DEF Next, OutputPut, OutputThrows

\* Every variable keeps its type: in particular no tick counter goes negative
\* and no record is built before its parts exist.
THEOREM TypeCorrect == Spec => []TypeOK
<1>1. Spec => []IInv
  BY InitIInv, NextIInv, PTL DEF Spec
<1>2. IInv => TypeOK
  BY DEF IInv
<1> QED BY <1>1, <1>2, PTL

\* Whatever the interleaving of handler, realtime and output, the bytes of
\* every captured packet are in exactly one place and in at most one record.
THEOREM BytesCountedOnce == Spec => []CountedOnce
<1>1. Spec => []IInv
  BY InitIInv, NextIInv, PTL DEF Spec
<1>2. IInv => CountedOnce
  BY DEF IInv
<1> QED BY <1>1, <1>2, PTL

\* Records count every packet under its own direction and tariff.
THEOREM ColumnsRight == Spec => []RightColumn
<1>1. Spec => []IInv
  BY InitIInv, NextIInv, PTL DEF Spec
<1>2. IInv => RightColumn
  BY DEF IInv, Sorted, RightColumn, BytesOK
<1> QED BY <1>1, <1>2, PTL

\* Whatever the wall clock does, no record accounts for a packet captured
\* after its window was closed; and where the clock was not set back, its
\* stamps say so and are in order.
THEOREM WindowsClosed == Spec => []NeverFromFuture
<1>1. Spec => []IInv
  BY InitIInv, NextIInv, PTL DEF Spec
<1>2. IInv => NeverFromFuture
  BY DEF IInv
<1> QED BY <1>1, <1>2, PTL

LEMMA InitImplements == Init => M!Init
  BY MeterAssumption DEF Init, M!Init, InMade, now

\* A step that changes neither seen, made nor the window is a stutter.
LEMMA Stutter ==
  ASSUME UNCHANGED <<seen, made, outputPc, dR, end>>
  PROVE  UNCHANGED M!metering
  BY SameMade DEF M!metering

LEMMA NextImplements == IInv /\ [Next]_vars => [M!Next]_(M!metering)
<1> SUFFICES ASSUME IInv, [Next]_vars PROVE M!Next \/ UNCHANGED M!metering
  OBVIOUS
<1> USE DEF IInv
<1>0. M!Told = InMade
  BY DEF M!Told, InMade, M!Bytes, InBytes
<1>1. CASE ReadIpList
  BY <1>1, Stutter DEF ReadIpList, output
<1>2. ASSUME NEW p \in Packet, HandlerAcquire(p) PROVE M!Next
  <2>1. seen' = seen \cup {p} /\ p \notin seen /\ UNCHANGED output
    BY <1>2 DEF HandlerAcquire
  <2>2. InMade \subseteq seen
    <3>1. InMade = Content["made"]
      BY Contents
    <3> QED BY <3>1, Partition DEF All, Stage
  <2>3. InMade' = InMade
    BY <2>1, SameMade DEF output
  <2>4. M!Capture(p)
    BY <1>0, <2>1, <2>2, <2>3 DEF M!Capture, output
  <2> QED BY <2>4 DEF M!Next
<1>3. CASE HandlerRelease
  BY <1>3, Stutter DEF HandlerRelease, output
<1>4. CASE RealtimeTiming
  BY <1>4, Stutter DEF RealtimeTiming, capture, output
<1>5. CASE RealtimeSwap
  BY <1>5, Stutter DEF RealtimeSwap, capture, output
<1>6. CASE RealtimeSum
  BY <1>6, Stutter DEF RealtimeSum, capture, output
<1>7. CASE RealtimeAcquire
  BY <1>7, Stutter DEF RealtimeAcquire, capture, output
<1>8. CASE RealtimeRelease
  BY <1>8, Stutter DEF RealtimeRelease, capture, output
<1>9. CASE OutputTiming
  BY <1>9, Stutter DEF OutputTiming, capture, output
<1>10. CASE OutputTake
  <2>1. /\ outputPc = "wait" /\ outputPc' = "put" /\ dR.start' = end
        /\ UNCHANGED <<seen, made>>
    BY <1>10 DEF OutputTake, TakenRecord, capture
  <2> QED BY <2>1, SameMade DEF M!metering
<1>11. ASSUME NEW pc \in {"wait", "dead"}, Put(pc) PROVE M!Next
  <2> DEFINE S == InBytes(dR.bytes)
  <2>1. /\ outputPc = "put" /\ outputPc' = pc /\ made' = made \cup {dR}
        /\ UNCHANGED <<seen, end>>
    BY <1>11 DEF Put, capture
  <2>2. dR \in Record /\ dR.end = end /\ end \in Nat
    BY <2>1 DEF TypeOK, Timely
  <2>3. InMade' = InMade \cup S
    BY <2>1 DEF InMade, InBytes
  <2>4. S \subseteq seen \ InMade
    <3>1. S = Content["dR"] /\ InMade = Content["made"]
      BY Contents
    <3> QED BY <3>1, Partition DEF All, Apart, Stage
  <2>5. dR.bytes = [c \in Column |-> {p \in S : [q \in Packet |-> ColumnOf(q)][p] = c}]
    <3>1. \A c \in Column : dR.bytes[c] \subseteq Packet
      BY <2>2 DEF Record, Bytes
    <3>2. \A c \in Column : dR.bytes[c] = {p \in S : [q \in Packet |-> ColumnOf(q)][p] = c}
      BY <3>1 DEF Sorted, BytesOK, InBytes
    <3> QED BY <2>2, <3>2 DEF Record, Bytes
  <2>6. dR = [bytes |-> dR.bytes, start |-> dR.start, end |-> dR.end]
    BY <2>2 DEF Record
  <2> HIDE DEF S
  <2>7. M!Report(S)
    BY <2>1, <2>2, <2>3, <2>4, <2>5, <2>6 DEF M!Report
  <2> QED BY <2>4, <2>7 DEF M!Next
<1>12. CASE Clock
  BY <1>12, Stutter DEF Clock, capture, output
<1>13. CASE UNCHANGED vars
  BY <1>13, Stutter DEF vars, capture, output
<1> QED BY <1>1, <1>2, <1>3, <1>4, <1>5, <1>6, <1>7, <1>8, <1>9, <1>10, <1>11,
           <1>12, <1>13 DEF Next, OutputPut, OutputThrows

\* The four threads and their two locks implement Metering.
THEOREM MeterImplementsMetering == Spec => Implements
<1>1. Spec => []IInv
  BY InitIInv, NextIInv, PTL DEF Spec
<1> QED BY <1>1, InitImplements, NextImplements, PTL DEF Spec, Implements, M!Spec
=============================================================================
