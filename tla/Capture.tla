------------------------------ MODULE Capture -------------------------------
(***************************************************************************)
(* Packet capture: listDevices, run and got_packet of                      *)
(* src/dinemeter/daemon/pcap/pcapInterface.cpp under the loop at the end   *)
(* of Daemon.main.  Devices are numbered from 0 in the order listDevices   *)
(* gives them.  An address is the set of its bits that are one, so that    *)
(* the code's ^ is symmetric difference and its & is intersection.         *)
(*                                                                         *)
(* Of the frames buffered for a device only the oldest is seen by the      *)
(* code; waiting holds that one, and the next may follow at any moment.    *)
(*                                                                         *)
(* run uses an uninitialised handle and a freed root.  What that does is   *)
(* left open: nothing, or the end of the process; and a call through the   *)
(* freed root reaches the callback, or nothing, or ends the process.       *)
(***************************************************************************)
EXTENDS Binary, Sequences, FiniteSetsExt

CONSTANTS MaxDevices,   \* bound on the devices listed
          AddressBits,  \* bits of an address, 32 in the code
          Net,          \* the subnets and masks that may be configured
          NoNet,        \* subnet or subnet-mask is not configured
          Frame,        \* the frames that may arrive
          NoFrame,
          Burst         \* frames taken from a device in one turn, 1000 in the code

Device    == 0 .. MaxDevices - 1
IpAddress == SUBSET (0 .. AddressBits - 1)

ASSUME CaptureAssumption ==
  /\ MaxDevices \in Nat /\ AddressBits \in Nat /\ Burst \in Nat \ {0}
  /\ Net \subseteq [local : IpAddress, mask : IpAddress]
  /\ Frame \subseteq [src : IpAddress, dst : IpAddress, headerOk : BOOLEAN]
  /\ NoNet \notin Net /\ NoFrame \notin Frame

\* How opening a device may turn out; "warned" is a handle with a warning.
Outcome == {"ok", "warned", "refused", "notEthernet", "noCompile", "noFilter"}

VARIABLES runPc, net,
          devices,         \* n: how many devices there are
          runI, runJ,      \* i and j of run: the next device, the next slot
          count,
          handles,         \* [Device -> Device], the device behind each slot
          errbuf,          \* errbuf[0] != '\0'
          outcome,         \* how the devices opened so far turned out (history)
          packets,
          handler,         \* f: the callback
          waiting,         \* the oldest frame buffered for each device
          call             \* the last call of handler

opening     == <<runI, count, handles, errbuf, outcome>>
captureVars == <<runPc, net, devices, runJ, opening, packets, handler, waiting, call>>

NoCall == [way |-> "none", host |-> {}]

(***************************************************************************)
(* got_packet.                                                             *)
(***************************************************************************)
\* The mask is applied to the address only.
RemoteUnmasked(a) == SymDiff(a \cap net.mask, net.local) # {}

\* src_remote and dst_remote: does the address differ from local under the mask?
Remote(a) == SymDiff(a, net.local) \cap net.mask # {}

\* What got_packet tells the callback: nothing of a frame with a bad header
\* length and of traffic within the subnet or between other hosts.
got_packet(p) ==
  CASE p.headerOk /\ ~Remote(p.src) /\ Remote(p.dst) -> [way |-> "up", host |-> p.dst]
    [] p.headerOk /\ Remote(p.src) /\ ~Remote(p.dst) -> [way |-> "down", host |-> p.src]
    [] OTHER -> NoCall

(***************************************************************************)
(* main and listDevices.                                                   *)
(***************************************************************************)
CaptureInit ==
  /\ runPc = "start" /\ net \in Net \cup {NoNet} /\ devices = 0
  /\ runI = 0 /\ runJ = 0 /\ count = 0 /\ errbuf = FALSE
  /\ handles = [d \in Device |-> 0] /\ outcome = [d \in Device |-> "ok"]
  /\ packets = 0 /\ handler = "null"
  /\ waiting = [d \in Device |-> NoFrame] /\ call = NoCall

\* An error exits, an empty list is null and ends main; otherwise main goes
\* on with the names of the devices.
ListDevices ==
  /\ runPc = "start"
  /\ devices' \in 0 .. MaxDevices
  /\ runPc' = IF devices' = 0 THEN "stopped" ELSE "run"
  /\ UNCHANGED <<net, runJ, opening, packets, handler, waiting, call>>

\* run begins, or returns at once when an argument is not a string.
Run ==
  /\ runPc = "run"
  /\ IF net = NoNet THEN runPc' = "asleep" /\ UNCHANGED <<runJ, opening, waiting>>
     ELSE /\ runPc' = "open"
          /\ runI' = 0 /\ runJ' = 0 /\ count' = devices /\ errbuf' = FALSE
          /\ waiting' = [d \in Device |-> NoFrame]
          /\ UNCHANGED <<handles, outcome>>
  /\ UNCHANGED <<net, devices, packets, handler, call>>

\* "Reached end, error", three seconds of sleep, and run again.
WakeUp ==
  /\ runPc = "asleep" /\ runPc' = "run"
  /\ UNCHANGED <<net, devices, runJ, opening, packets, handler, waiting, call>>

(***************************************************************************)
(* The opening loop of run.                                                *)
(***************************************************************************)
\* The error text of an earlier device is not looked at.
RefusedAfresh(o) == o \in {"warned", "refused"}

\* handles[j] == NULL || errbuf[0] != '\0'; nothing empties errbuf between
\* two devices.
Refused(o) == errbuf \/ o \in {"warned", "refused"}

\* A slot is used up by a device that failed as well.
SlotAlways(o) == runJ + 1

\* The slot a device that failed was put into is used again.
Slot(o) == IF ~Refused(o) /\ o = "ok" THEN runJ + 1 ELSE runJ

\* One turn of the loop; listDevices gives strings only.  A device that was
\* refused waits for a key, and the message about a filter is taken from the
\* uninitialised handle.
OpenDevice(o) ==
  /\ runPc = "open" /\ runI < devices
  /\ handles' = [handles EXCEPT ![runJ] = runI]
  /\ outcome' = [outcome EXCEPT ![runI] = o]
  /\ errbuf' = Refused(o)
  /\ runI' = runI + 1 /\ runJ' = Slot(o)
  /\ count' = IF ~Refused(o) /\ o = "ok" THEN count ELSE count - 1
  /\ \/ Refused(o) /\ runPc' = "getchar"
     \/ ~Refused(o) /\ runPc' = "open"
     \/ ~Refused(o) /\ o \in {"noCompile", "noFilter"} /\ runPc' = "stopped"
  /\ UNCHANGED <<net, devices, packets, handler, waiting, call>>

GetChar ==
  /\ runPc = "getchar" /\ runPc' = "open"
  /\ UNCHANGED <<net, devices, runJ, opening, packets, handler, waiting, call>>

\* The callback is rooted the first time only; without a handle the loop that
\* follows tests a result that was never assigned.  (The history of the loop
\* is dropped.)
StartPolling ==
  /\ runPc = "open" /\ runI = devices
  /\ runPc' = IF count = 0 THEN "noHandles" ELSE "poll"
  /\ handler' = IF handler = "null" THEN "live" ELSE handler
  /\ runJ' = 0 /\ packets' = 0
  /\ outcome' = [d \in Device |-> "ok"]
  /\ UNCHANGED <<net, devices, runI, count, handles, errbuf, waiting, call>>

(***************************************************************************)
(* The polling loop of run.                                                *)
(***************************************************************************)
CurrentDevice == handles[runJ]

\* The counter of the inner loop is not advanced.
TakenUncounted == packets

Taken == packets + 1

\* The turn goes to the next device, or back to the first.
NextTurn == runJ' = (runJ + 1) % count /\ packets' = 0

\* pcap_next_ex returned a frame, and got_packet gets it.
Take ==
  /\ runPc = "poll" /\ waiting[CurrentDevice] # NoFrame
  /\ waiting' = [waiting EXCEPT ![CurrentDevice] = NoFrame]
  /\ IF Taken = Burst THEN NextTurn ELSE runJ' = runJ /\ packets' = Taken
  /\ \/ call' = got_packet(waiting[CurrentDevice]) /\ runPc' = runPc
     \/ handler = "dangling" /\ call' = NoCall /\ runPc' \in {runPc, "stopped"}
  /\ UNCHANGED <<net, devices, opening, handler>>

\* pcap_next_ex timed out, there is nothing to read.
Timeout ==
  /\ runPc = "poll" /\ waiting[CurrentDevice] = NoFrame
  /\ NextTurn
  /\ UNCHANGED <<runPc, net, devices, opening, handler, waiting, call>>

\* freecode, close of the uninitialised handle, free_root, free: the root is
\* freed and not forgotten, and the devices stay open.
Finish ==
  /\ runPc' \in {"asleep", "stopped"}
  /\ handler' = "dangling"
  /\ UNCHANGED <<net, devices, runJ, opening, packets, waiting, call>>

\* pcap_next_ex failed: run ends for all devices.
Fail == runPc = "poll" /\ Finish

\* With no handle the loop goes round for ever or ends at once.
NoHandles ==
  /\ runPc = "noHandles"
  /\ \/ Finish
     \/ runPc' = "spin" /\ UNCHANGED <<net, devices, runJ, opening, packets, handler, waiting, call>>

Polled == {handles[k] : k \in 0 .. count - 1}

\* A frame arrives at a device that is being polled.
Arrive(d, p) ==
  /\ runPc = "poll" /\ d \in Polled /\ waiting[d] = NoFrame
  /\ waiting' = [waiting EXCEPT ![d] = p]
  /\ UNCHANGED <<runPc, net, devices, runJ, opening, packets, handler, call>>

Poll == Take \/ Timeout

CaptureNext == \/ ListDevices \/ Run \/ WakeUp
               \/ \E o \in Outcome : OpenDevice(o)
               \/ GetChar \/ StartPolling \/ Poll \/ Fail \/ NoHandles
               \/ \E d \in Device, p \in Frame : Arrive(d, p)

CaptureSpec == CaptureInit /\ [][CaptureNext]_captureVars

\* The thread that runs the loop is scheduled; nothing is assumed of the
\* network, of the devices or of a key being pressed.
FairCapture == CaptureSpec /\ WF_captureVars(Poll)

-----------------------------------------------------------------------------
CaptureTypeOK ==
  /\ runPc \in {"start", "run", "asleep", "open", "getchar", "poll", "noHandles",
                "spin", "stopped"}
  /\ net \in Net \cup {NoNet} /\ devices \in 0 .. MaxDevices
  /\ runI \in 0 .. devices /\ runJ \in 0 .. devices /\ count \in 0 .. devices
  /\ handles \in [Device -> Device] /\ errbuf \in BOOLEAN
  /\ outcome \in [Device -> Outcome] /\ packets \in 0 .. Burst - 1
  /\ handler \in {"null", "live", "dangling"}
  /\ waiting \in [Device -> Frame \cup {NoFrame}]
  /\ call \in [way : {"none", "up", "down"}, host : IpAddress]

\* A device is usable when it opened, is an Ethernet and took the filter, and
\* no device before it was refused or warned about: one that was leaves its
\* error text behind, which refuses all that follow.
Usable == {d \in 0 .. runI - 1 : /\ outcome[d] = "ok"
                                 /\ \A e \in 0 .. d : outcome[e] \notin {"warned", "refused"}}

\* The slots before runJ hold exactly the usable devices, each once and in order,
\* and count, which run reduces by one for each failure, ends as their number:
\* the polling loop reads no slot that was not set and misses no device.
HandlesExact ==
  runPc \in {"open", "getchar"} =>
    /\ runJ = Cardinality(Usable) /\ count = runJ + devices - runI
    /\ {handles[k] : k \in 0 .. runJ - 1} = Usable
    /\ \A k, l \in 0 .. runJ - 1 : k < l => handles[k] < handles[l]

\* The number an address is, and what its lowest bits make.
Low(a) ==
  LET low[b \in Nat] ==
        IF b = 0 THEN 0 ELSE low[b - 1] + (IF b - 1 \in a THEN Pow2[b - 1] ELSE 0)
  IN low
NumberOf(a) == Low(a)[AddressBits]

\* The subnet as a range of numbers: the addresses that agree with local in all
\* but the k lowest bits, the ones a mask of leading bits leaves out.
Within(a, k) == NumberOf(a) \div Pow2[k] = NumberOf(net.local) \div Pow2[k]

\* What the callback should be told of a frame.
Due(p, k) == IF ~p.headerOk \/ (Within(p.src, k) <=> Within(p.dst, k)) THEN NoCall
             ELSE IF Within(p.src, k) THEN [way |-> "up", host |-> p.dst]
             ELSE [way |-> "down", host |-> p.src]

\* A frame that is read from device d is told to the callback as it should be.
Told(d, k) ==
  /\ handler = "live" /\ runPc' = "poll"
  /\ waiting[d] # NoFrame /\ waiting'[d] = NoFrame
  => call' = Due(waiting[d], k)

\* Every frame that is read while the callback is rooted leads to the call it
\* should: one between the subnet and another host is counted in its direction
\* under that host, any other not at all, whichever device it comes from.  A
\* mask has leading bits only, as one must for a subnet to be a range.
RightCall ==
  [][\A d \in Device, k \in 0 .. AddressBits :
       net # NoNet /\ net.mask = k .. AddressBits - 1 => Told(d, k)]_captureVars

\* A frame at one device is read however busy the others are, unless capture
\* ends: a turn is over after Burst frames or a time out.
EveryDeviceServed ==
  \A d \in Device :
    (runPc = "poll" /\ waiting[d] # NoFrame) ~> (waiting[d] = NoFrame \/ runPc # "poll")
=============================================================================
