---------------------------- MODULE MCTxPipeline ----------------------------
(* Values for the runs of TxPipeline. *)
EXTENDS TxPipelineInv

TwoBlocks   == {"b1", "b2"}
ThreeBlocks == {"b1", "b2", "b3"}
==============================================================================
