------------------------------ MODULE Metering ------------------------------
(***************************************************************************)
(* What the metering half of the daemon promises, with no threads, locks   *)
(* or buffers: a packet that was captured is reported in at most one       *)
(* record, in the column of its direction and of its host's tariff, and    *)
(* each window starts where the one before it ends (it ends before it      *)
(* starts when the clock was set back).  Meter implements this             *)
(* specification.                                                          *)
(***************************************************************************)
EXTENDS Integers

CONSTANTS Packet,    \* the captured packets, each standing for its bytes
          Column,    \* the byte counts of a DataRecord
          columnOf   \* [Packet -> Column], the count a packet belongs to

VARIABLES waiting,   \* captured, not yet in a record
          reported,  \* the records handed over for sending
          edge       \* where the window of the next record starts

metering == <<waiting, reported, edge>>

Bytes(b) == UNION {b[c] : c \in Column}

\* The packets some record accounts for.
Told == UNION {Bytes(r.bytes) : r \in reported}

Init == /\ waiting = {}
        /\ reported = {}
        /\ edge \in Nat

\* A packet that nobody has counted yet is captured.
Capture(p) == /\ p \notin waiting \cup Told
              /\ waiting' = waiting \cup {p}
              /\ UNCHANGED <<reported, edge>>

\* Some of the waiting packets leave in a record whose window starts where
\* the last one ended and ends where the next one will start.
Report(S) ==
  /\ edge' \in Nat
  /\ reported' = reported \cup
       {[bytes |-> [c \in Column |-> {p \in S : columnOf[p] = c}],
         start |-> edge, end |-> edge']}
  /\ waiting' = waiting \ S

Next == \/ \E p \in Packet : Capture(p)
        \/ \E S \in SUBSET waiting : Report(S)

Spec == Init /\ [][Next]_metering
=============================================================================
