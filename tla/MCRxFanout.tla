---------------------------- MODULE MCRxFanout ----------------------------
(* Constant values for the runs of RxFanout.                               *)
EXTENDS RxFanout

OneBlock    == {1}
TwoBlocks   == 1 .. 2
===========================================================================
