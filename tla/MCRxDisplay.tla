---------------------------- MODULE MCRxDisplay ----------------------------
(* Constant values for the runs of RxDisplay.                              *)
EXTENDS RxDisplay

OneBatch     == {1}
TwoBatches   == 1 .. 2
ThreeBatches == 1 .. 3
=============================================================================
