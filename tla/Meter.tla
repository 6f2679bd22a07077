------------------------------- MODULE Meter --------------------------------
(***************************************************************************)
(* The metering half of the daemon (src/dinemeter/daemon/Daemon.hx): the   *)
(* capture loop of main calls handler for every packet, the realtime       *)
(* thread empties the per-host table every half second into the totals,    *)
(* the output thread empties the totals every 30 seconds into a            *)
(* DataRecord, and two timer threads send those threads their ticks.       *)
(*                                                                         *)
(* A byte count is modelled by the set of packets whose bytes it sums, so  *)
(* that a byte lost or counted twice is visible.                           *)
(***************************************************************************)
EXTENDS Integers

CONSTANTS Packet,     \* the packets captured in a run
          Host,       \* remote hosts, the keys of vals
          addr,       \* [Packet -> Host]: the third argument of handler
          way,        \* [Packet -> Way]: whether the packet came down or went up
          Unmetered,  \* the hosts unmetered.txt lists
          NoPacket,   \* handler is not running
          MaxQueue,   \* bound on unread ticks of one thread
          MaxTime,    \* bound on the moments of a run
          clock       \* clock[t]: what Date.now() reads at moment t.  The wall
                      \* clock may be set, so that it need not grow.

Way    == {"down", "up"}
Column == {"down", "up", "uDown", "uUp"}

ASSUME MeterAssumption ==
  /\ addr \in [Packet -> Host]
  /\ way \in [Packet -> Way]
  /\ Unmetered \subseteq Host
  /\ NoPacket \notin Packet
  /\ MaxQueue \in Nat \ {0}
  /\ MaxTime \in Nat
  /\ clock \in [0 .. MaxTime -> Nat]

VARIABLES unmetered,    \* the filter: "null" until readIpList returned
          seen, at,     \* packets given to handler, and when (history)
          moment,       \* how far the time is
          vals,         \* bytes per host since the last swap
          valsMutex,    \* its holder
          handling, cell,      \* handler: its packet, the counts it read
          realtimeQueue, realtimePc,
          swapped,      \* realtime: the table taken by the swap
          v,            \* realtime: the four sums of that table
          read,         \* realtime: the totals it read under the lock
          totals, totalsMutex,
          outputQueue, outputPc,
          end,          \* where the next record starts
          dR,           \* output: the record it is building
          made,         \* the records given to BackendRequest.putData
          closed, spans \* when end was read, and when the windows of the
                        \* records taken were opened and closed (history)

capture  == <<unmetered, seen, at, handling, cell>>
realtime == <<realtimePc, swapped, v, read>>
output   == <<outputPc, end, dR, made>>
tables   == <<vals, valsMutex>>
sums     == <<totals, totalsMutex>>
queues   == <<realtimeQueue, outputQueue>>
history  == <<closed, spans>>
time     == <<moment, history>>
vars     == <<capture, tables, realtime, sums, output, queues, time>>

(***************************************************************************)
(* Byte counts.                                                            *)
(***************************************************************************)
NoTable  == [k \in Host |-> [w \in Way |-> {}]]
NoBytes  == [c \in Column |-> {}]
NoRecord == [bytes |-> NoBytes, start |-> 0, end |-> 0]

Table  == [Host -> [Way -> SUBSET Packet]]
Bytes  == [Column -> SUBSET Packet]
Record == [bytes : Bytes, start : Nat, end : Nat]
Span   == [record : Record, from : 0 .. MaxTime, to : 0 .. MaxTime]

\* What a table, a set of four sums, and a set of records account for.
InTable(t) == UNION {t[k][w] : k \in Host, w \in Way}
InBytes(b) == UNION {b[c] : c \in Column}
InMade     == UNION {InBytes(r.bytes) : r \in made}

\* Forgets the counts that were there before.
PlusForgets(x, y) == y

\* x += y on the four counts.
Plus(x, y) == [c \in Column |-> x[c] \cup y[c]]

\* match(): the null filter matches nothing.
match(filter, k) == filter # "null" /\ k \in Unmetered

\* The four sums over a table, each host on the side the filter puts it.
Sums(t, filter) ==
  LET free == {k \in Host : match(filter, k)}
      of(w, hosts) == UNION {t[k][w] : k \in hosts}
  IN [c \in Column |-> CASE c = "down"  -> of("down", Host \ free)
                         [] c = "up"    -> of("up", Host \ free)
                         [] c = "uDown" -> of("down", free)
                         [] c = "uUp"   -> of("up", free)]

(***************************************************************************)
(* Mutexes.  No thread of this module acquires one it already holds.       *)
(***************************************************************************)
\* The lock is not waited for.
CanLockAlways(m) == TRUE

CanLock(m) == m = "free"

\* Date.now().
now == clock[moment]

\* Thread.readMessage(true) waits for a tick.
Ticked(queue) == queue > 0

-----------------------------------------------------------------------------
Init ==
  /\ unmetered = "null" /\ moment = 0
  /\ seen = {} /\ at = [p \in Packet |-> 0]
  /\ vals = NoTable /\ valsMutex = "free"
  /\ handling = NoPacket /\ cell = {}
  /\ realtimeQueue = 0 /\ realtimePc = "wait"
  /\ swapped = NoTable /\ v = NoBytes /\ read = NoBytes
  /\ totals = NoBytes /\ totalsMutex = "free"
  /\ outputQueue = 0 /\ outputPc = "wait"
  /\ end = now /\ dR = NoRecord /\ made = {}
  /\ closed = moment /\ spans = {}

\* main creates the threads first and reads the filter afterwards; only then
\* does it enter run, which calls handler.
ReadIpList ==
  /\ unmetered = "null"
  /\ unmetered' = "loaded"
  /\ UNCHANGED <<seen, at, handling, cell, tables, realtime, sums, output,
                 queues, time>>

\* Packets are counted while the filter is still being read.
CapturingAlways == TRUE

\* run, and with it handler, is called after the filter has been read.
Capturing == unmetered = "loaded"

\* handler takes the lock and reads the counts of the packet's host.
HandlerAcquire(p) ==
  /\ Capturing
  /\ p \notin seen /\ handling = NoPacket
  /\ CanLock(valsMutex)
  /\ valsMutex' = "handler"
  /\ handling' = p /\ cell' = vals[addr[p]][way[p]]
  /\ seen' = seen \cup {p} /\ at' = [at EXCEPT ![p] = moment]
  /\ UNCHANGED <<unmetered, vals, realtime, sums, output, queues, time>>

\* It stores the increased counts and releases the lock.
HandlerRelease ==
  /\ handling # NoPacket
  /\ vals' = [vals EXCEPT ![addr[handling]][way[handling]] = cell \cup {handling}]
  /\ valsMutex' = "free"
  /\ handling' = NoPacket /\ cell' = {}
  /\ UNCHANGED <<unmetered, seen, at, realtime, sums, output, queues, time>>

-----------------------------------------------------------------------------
\* The tick of realtimeTiming; a tick that is not read yet stays queued.
RealtimeTiming ==
  /\ realtimeQueue < MaxQueue
  /\ realtimeQueue' = realtimeQueue + 1
  /\ UNCHANGED <<capture, tables, realtime, sums, output, outputQueue, time>>

\* A tick was read: replace the table by an empty one, under its lock.
RealtimeSwap ==
  /\ realtimePc = "wait" /\ Ticked(realtimeQueue)
  /\ CanLock(valsMutex)
  /\ realtimeQueue' = realtimeQueue - 1
  /\ swapped' = vals /\ vals' = NoTable
  /\ realtimePc' = "sum"
  /\ UNCHANGED <<capture, valsMutex, v, read, sums, output, outputQueue, time>>

\* Outside any lock, sum the table taken.
RealtimeSum ==
  /\ realtimePc = "sum"
  /\ v' = Sums(swapped, unmetered) /\ swapped' = NoTable
  /\ realtimePc' = "add"
  /\ UNCHANGED <<capture, tables, read, sums, output, queues, time>>

\* Take the lock of the totals and read them ...
RealtimeAcquire ==
  /\ realtimePc = "add"
  /\ CanLock(totalsMutex)
  /\ totalsMutex' = "realtime"
  /\ read' = totals
  /\ realtimePc' = "store"
  /\ UNCHANGED <<capture, tables, swapped, v, totals, output, queues, time>>

\* ... store the increased totals and release the lock.
RealtimeRelease ==
  /\ realtimePc = "store"
  /\ totals' = Plus(read, v)
  /\ totalsMutex' = "free"
  /\ v' = NoBytes /\ read' = NoBytes
  /\ realtimePc' = "wait"
  /\ UNCHANGED <<capture, tables, swapped, output, queues, time>>

-----------------------------------------------------------------------------
\* The tick of outputTiming.
OutputTiming ==
  /\ outputQueue < MaxQueue
  /\ outputQueue' = outputQueue + 1
  /\ UNCHANGED <<capture, tables, realtime, sums, output, realtimeQueue, time>>

\* The window starts at the wall clock instead of at the previous end.
RecordFromNow == [bytes |-> totals, start |-> now, end |-> now]

\* The window is closed by the next record instead of by this one.
RecordEndingEarly == [bytes |-> totals, start |-> end, end |-> end]

\* The record output builds from the totals and the clock.
TakenRecord == [bytes |-> totals, start |-> end, end |-> now]

\* A tick was read: take the totals and close the window, under the lock.
OutputTake ==
  /\ outputPc = "wait" /\ Ticked(outputQueue)
  /\ CanLock(totalsMutex)
  /\ outputQueue' = outputQueue - 1
  /\ dR' = TakenRecord
  /\ totals' = NoBytes
  /\ end' = now
  /\ closed' = moment
  /\ spans' = spans \cup {[record |-> TakenRecord, from |-> closed, to |-> moment]}
  /\ outputPc' = "put"
  /\ UNCHANGED <<capture, tables, realtime, totalsMutex, made, realtimeQueue, moment>>

\* Hand the record to BackendRequest.putData.
Put(pc) ==
  /\ outputPc = "put"
  /\ made' = made \cup {dR} /\ dR' = NoRecord
  /\ outputPc' = pc
  /\ UNCHANGED <<capture, tables, realtime, sums, end, queues, time>>

\* putData returns, and output waits for its next tick ...
OutputPut == Put("wait")

\* ... or it throws, as after rejected credentials: the handlers around the
\* loop log the error and the thread is over for good.
OutputThrows == Put("dead")

\* Time passes; what Date.now() reads may be less than before.
Clock == /\ moment < MaxTime
         /\ moment' = moment + 1
         /\ UNCHANGED <<capture, tables, realtime, sums, output, queues, history>>

-----------------------------------------------------------------------------
Next == \/ ReadIpList
        \/ \E p \in Packet : HandlerAcquire(p)
        \/ HandlerRelease
        \/ RealtimeTiming \/ RealtimeSwap \/ RealtimeSum
        \/ RealtimeAcquire \/ RealtimeRelease
        \/ OutputTiming \/ OutputTake \/ OutputPut \/ OutputThrows
        \/ Clock

\* The timers keep ticking, no thread stops between two of its steps, and a
\* thread that keeps finding the totals unlocked gets them in the end.
\* putData ends, one way or the other.  Nothing obliges packets to arrive or
\* the time to pass.
Fairness == /\ WF_vars(HandlerRelease)
            /\ WF_vars(RealtimeTiming) /\ WF_vars(OutputTiming)
            /\ WF_vars(RealtimeSwap) /\ WF_vars(RealtimeSum)
            /\ WF_vars(RealtimeAcquire) /\ WF_vars(RealtimeRelease)
            /\ SF_vars(OutputTake) /\ WF_vars(OutputPut \/ OutputThrows)

Spec == Init /\ [][Next]_vars
FairSpec == Spec /\ Fairness
-----------------------------------------------------------------------------
TypeOK ==
  /\ unmetered \in {"null", "loaded"} /\ moment \in 0 .. MaxTime
  /\ seen \subseteq Packet /\ at \in [Packet -> 0 .. MaxTime]
  /\ vals \in Table /\ valsMutex \in {"free", "handler"}
  /\ handling \in Packet \cup {NoPacket} /\ cell \subseteq Packet
  /\ realtimeQueue \in 0 .. MaxQueue
  /\ realtimePc \in {"wait", "sum", "add", "store"}
  /\ swapped \in Table /\ v \in Bytes /\ read \in Bytes
  /\ totals \in Bytes /\ totalsMutex \in {"free", "realtime"}
  /\ outputQueue \in 0 .. MaxQueue /\ outputPc \in {"wait", "put", "dead"}
  /\ end \in Nat /\ dR \in Record /\ made \subseteq Record
  /\ closed \in 0 .. MaxTime /\ spans \subseteq Span

\* The stages a packet's bytes pass through, and what is in each.
Stage == {"handler", "vals", "swapped", "v", "totals", "dR", "made"}
Content == [s \in Stage |->
              CASE s = "handler" -> {handling} \ {NoPacket}
                [] s = "vals"    -> InTable(vals)
                [] s = "swapped" -> InTable(swapped)
                [] s = "v"       -> InBytes(v)
                [] s = "totals"  -> InBytes(totals)
                [] s = "dR"      -> InBytes(dR.bytes)
                [] s = "made"    -> InMade]

\* The bytes of every captured packet are, at every moment, in exactly one
\* place: nothing that handler counted is lost or counted twice by the swap
\* of vals, by the update of totals or by the taking of totals, however the
\* three threads interleave; and no two records share a packet.
CountedOnce ==
  /\ seen = UNION {Content[s] : s \in Stage}
  /\ \A s, t \in Stage : s # t => Content[s] \cap Content[t] = {}
  /\ \A r1, r2 \in made : r1 # r2 => InBytes(r1.bytes) \cap InBytes(r2.bytes) = {}

\* The count of a record a packet belongs to.
ColumnOf(p) == IF addr[p] \in Unmetered
               THEN IF way[p] = "down" THEN "uDown" ELSE "uUp"
               ELSE way[p]

\* A record counts a packet in the column of its own direction and tariff,
\* although the threads that classify run before the filter has been read.
RightColumn ==
  \A r \in made \cup {dR} : \A c \in Column : \A p \in r.bytes[c] : c = ColumnOf(p)

\* The wall clock was not set back between two moments.
Steady(s, t) == \A i, j \in s .. t : i <= j => clock[i] <= clock[j]

\* A record never accounts for a packet that was captured after its window
\* was closed, and by the stamps it carries no packet is later than its end,
\* and its window is not inverted, unless the clock was set back meanwhile.
NeverFromFuture ==
  \A s \in spans :
    /\ Steady(s.from, s.to) => s.record.start <= s.record.end
    /\ \A p \in InBytes(s.record.bytes) :
         /\ at[p] <= s.to
         /\ Steady(at[p], s.to) => clock[at[p]] <= s.record.end

\* Every packet that handler was given is eventually part of a record that
\* is handed over for sending, unless putData has thrown, which ends output.
Reported == \A p \in Packet : p \in seen ~> (p \in InMade \/ outputPc = "dead")

\* The threads together implement Metering: packets wait from the moment
\* handler has them until their record is handed over, and the records have
\* adjoining windows.
M == INSTANCE Metering
       WITH columnOf <- [p \in Packet |-> ColumnOf(p)],
            waiting <- seen \ InMade, reported <- made,
            edge <- IF outputPc = "put" THEN dR.start ELSE end
Implements == M!Spec
-----------------------------------------------------------------------------
(***************************************************************************)
(* The inductive invariant behind the properties.                          *)
(***************************************************************************)
\* A lock is held exactly between the two steps of its holder, and what the
\* holder read is still what is stored.
Locked ==
  /\ valsMutex = "handler" <=> handling # NoPacket
  /\ handling # NoPacket => cell = vals[addr[handling]][way[handling]]
  /\ totalsMutex = "realtime" <=> realtimePc = "store"
  /\ realtimePc = "store" => read = totals

\* A thread holds bytes only between taking them and passing them on.
InHand ==
  /\ realtimePc # "sum" => swapped = NoTable
  /\ realtimePc \notin {"add", "store"} => v = NoBytes
  /\ outputPc # "put" => dR = NoRecord

\* Every count holds packets of its own host, direction and column.
TableOK(t) == \A k \in Host, w \in Way : \A p \in t[k][w] : addr[p] = k /\ way[p] = w
BytesOK(b) == \A c \in Column : \A p \in b[c] : c = ColumnOf(p)
Sorted ==
  /\ TableOK(vals) /\ TableOK(swapped)
  /\ BytesOK(v) /\ BytesOK(totals) /\ BytesOK(dR.bytes)
  /\ \A r \in made : BytesOK(r.bytes)
  /\ unmetered = "null" => seen = {}

\* Nothing is later than the present, end is what the clock read when the
\* last window was closed, and a record in hand ends that window.
Timely ==
  /\ closed <= moment /\ end = clock[closed]
  /\ \A p \in Packet : at[p] <= moment
  /\ outputPc = "put" => dR.end = end

\* Every record has its span, and accounts for packets that were captured.
Spanned ==
  /\ made \subseteq {s.record : s \in spans}
  /\ outputPc = "put" => \E s \in spans : s.record = dR
  /\ \A s \in spans : InBytes(s.record.bytes) \subseteq seen

IInv == /\ TypeOK /\ Locked /\ InHand /\ Sorted /\ Timely /\ Spanned
        /\ CountedOnce /\ NeverFromFuture

=============================================================================
