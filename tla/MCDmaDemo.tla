----------------------------- MODULE MCDmaDemo -----------------------------
(* An instance of DmaDemo for TLC: the demo is the only caller.            *)
EXTENDS DmaDemo

DemoOwns == [t \in {4} |-> {1}]
=============================================================================
