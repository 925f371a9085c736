----------------------------- MODULE MCRawPort -----------------------------
(* An instance of RawPortAccess for TLC: one application uses channel 1.   *)
EXTENDS RawPortAccess

ChannelOne == [t \in {4} |-> {1}]
=============================================================================
