------------------------------ MODULE MCPackets -----------------------------
(***************************************************************************)
(* Filter and Capture for TLC, one or the other in each behaviour: they    *)
(* share no variable, so that a step of one means nothing to the other,    *)
(* which rests in its initial state.                                       *)
(*                                                                         *)
(* Octets have two bits.  Ranges are aligned to their size, as those of    *)
(* unmetered.txt are: hosts, the ranges within an octet, and some that     *)
(* span octets.  The prefixes differ first at each of the three levels.    *)
(* The addresses of Capture have two bits too, with every mask of leading  *)
(* bits, and frames within and across the halves of the address space.     *)
(***************************************************************************)
EXTENDS Filter, Capture

MCPrefix  == {<<0, 0, 0>>, <<0, 0, 1>>, <<0, 1, 0>>, <<1, 0, 0>>}
MCIp(p, d) == [l \in Position |-> IF l = 3 THEN d ELSE p[l + 1]]

MCLine ==
  {[ip |-> MCIp(p, x[1]), size |-> x[2]] :
     p \in MCPrefix, x \in {<<3, 8>>, <<0, 7>>, <<2, 7>>, <<0, 6>>}}
  \cup {[ip |-> MCIp(<<0, 1, 0>>, 0), size |-> n] : n \in {4, 5}}
  \cup {[ip |-> MCIp(<<0, 0, 0>>, 0), size |-> n] : n \in {0, 1}}

MCProbe == {MCIp(p, d) : p \in MCPrefix \cup {<<0, 1, 1>>}, d \in Octet}

MCNet == {m \in [local : IpAddress, mask : {{}, {1}, {0, 1}}] : 0 \in m.local}
MCFrame == {[src |-> {}, dst |-> {1}, headerOk |-> TRUE],
            [src |-> {0, 1}, dst |-> {0}, headerOk |-> TRUE],
            [src |-> {}, dst |-> {0}, headerOk |-> TRUE],
            [src |-> {1}, dst |-> {0, 1}, headerOk |-> TRUE],
            [src |-> {0}, dst |-> {1}, headerOk |-> FALSE]}

FilterAlone  == runPc = "start" /\ net = NoNet /\ Next /\ UNCHANGED captureVars
CaptureAlone == lines = <<>> /\ CaptureNext /\ UNCHANGED vars

PacketInit == Init /\ CaptureInit

PacketSpec == /\ PacketInit
              /\ [][FilterAlone \/ CaptureAlone]_<<vars, captureVars>>
              /\ WF_captureVars(Poll)
=============================================================================
