------------------------ MODULE LegacyDmaRefinement ------------------------
(***************************************************************************)
(* LegacyDma implements DmaTasks on the narrow channels: the nine steps of *)
(* LegacyDmaProgramChannel amount to Void, stutters and Commit.            *)
(***************************************************************************)
EXTENDS LegacyDma

Narrow == 0 .. 3

(* A channel being programmed, or never programmed, has nothing left.      *)
Holds(c) == Programmed(c) /\ ~Reprogramming(c)

Tasks == INSTANCE DmaTasks WITH
  Channels <- Narrow,
  Page <- Word,
  task <- [c \in Narrow |-> [Address |-> DmaChannels[c].Address,
                             Count |-> DmaChannels[c].Count,
                             Auto |-> AutoInit([mode |-> DmaChannels[c].Mode])]],
  on <- [c \in Narrow |-> ~ch[c].mask],
  left <- [c \in Narrow |-> IF Holds(c) THEN (Val(ch[c].count) + 1) % Word ELSE 0],
  at <- [c \in Narrow |-> IF Holds(c) THEN ch[c].page * Word + Val(ch[c].addr) ELSE 0]

(* Programming, starting, polling and stopping a narrow channel, step by   *)
(* step and with bus cycles in between, look to a client and to the bus    *)
(* like the atomic operations of DmaTasks.                                 *)
ImplementsTasks == Tasks!Spec
=============================================================================
