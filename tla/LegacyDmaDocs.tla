--------------------------- MODULE LegacyDmaDocs ---------------------------
(***************************************************************************)
(* What the comments of LegacyIoDxeEx.c and LegacyIoProtocol.h say of the  *)
(* DMA calls, stated over LegacyDma.  The code does otherwise: each of     *)
(* these is the property of a run of its own that TLC finds violated.      *)
(***************************************************************************)
EXTENDS LegacyDma

Here(t) == frame[t].Channel
Mine(t) == ch[Here(t)]

(* "IsActive Whether the channel is still active": a one-shot channel that *)
(* LegacyDmaStatus reports inactive has stopped.                           *)
ReportedInactiveIsStopped ==
  [][\A t \in Tpl : StatRead(t) =>
       (frame'[t].Done => Mine(t).mask \/ AutoInit(Mine(t)))]_vars

(* "BytesRemaining Number of bytes remaining in the transfer": never more  *)
(* than the transfer had.                                                  *)
RemainingWithinTransfer ==
  \A t \in Tpl : frame[t].pc = "stat_store" /\ Programmed(Here(t)) =>
    BytesRemaining(t) <= DmaChannels[Here(t)].Count

(* "DmaBuffer DMA buffer to use": the first unit a channel moves after it  *)
(* was programmed is in the buffer the caller passed.                      *)
WideTransferHitsBuffer ==
  \A t \in Tpl : frame[t].pc = "prog_store" /\ Wide(Here(t)) /\ frame[t].Count # 0 =>
    frame[t].Address \in BusAddress(Here(t))
=============================================================================
