----------------------------- MODULE MCDataLink -----------------------------
(***************************************************************************)
(* Instances of DataLink for TLC: how many faults of each kind a run       *)
(* allows.                                                                 *)
(***************************************************************************)
EXTENDS DataLinkInv

NoFaults == [k \in Faults |-> 0]
EachOnce == [k \in Faults |-> 1]
LineFaults(lost, damaged) == [NoFaults EXCEPT !["lost"] = lost, !["damaged"] = damaged]
LostOnce == LineFaults(1, 0)
DamagedOnce == LineFaults(0, 1)
LineTwice == LineFaults(2, 2)
ButPort == [EachOnce EXCEPT !["port"] = 0]
=============================================================================
