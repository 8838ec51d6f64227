----------------------------- MODULE MCEthernet -----------------------------
(***************************************************************************)
(* A receive ring of two and a transmit ring of two descriptors, mailboxes   *)
(* of one, two pbufs.  Two frames and two speeds are enough to tell things   *)
(* apart.                                                                   *)
(***************************************************************************)
EXTENDS Ethernet

CONSTANTS s1, s2, f1, f2, v1, v2

MCSender == {s1, s2}
MCFrame == {f1, f2}
MCSpeed == {v1, v2}
=============================================================================
