------------------------- MODULE MCSerialLifecycle -------------------------
(* Constant values for the runs of SerialLifecycle.                        *)
EXTENDS SerialLifecycleInv

ComPort  == {"com"}
AnyPort  == {"com", "virtual"}

\* The control pool may be exhausted for caller requests, or for faults as well.
Nothing  == {}
CallerRequests == {"Open", "Close"}
=============================================================================
