-------------------------- MODULE LegacyDmaProofs --------------------------
(***************************************************************************)
(* LegacyDma, every call of it and every bus cycle.  Proofs, in five parts:*)
(* the routing of port accesses; types; what the registers of a channel    *)
(* hold while a call programs it and after, when no two callers share a    *)
(* controller; what a step may never do to other channels; and that the    *)
(* working registers of a channel count along the region that was          *)
(* programmed, so that the calls implement DmaTasks.                       *)
(***************************************************************************)
EXTENDS LegacyDmaRefinement, Isa8237Proofs

-----------------------------------------------------------------------------
(* The port table of GetDmaPorts against the decoding of the hardware.     *)

(* Every port the driver computes for a channel is the one the controllers *)
(* decode for that channel, or for that channel's controller.              *)
LEMMA PortTable ==
  ASSUME NEW c \in Chan
  PROVE  /\ AddrPort(c) = IoAddr(c)
         /\ CountPort(c) = IoCount(c)
         /\ PagePort(c) = IoPage(c)
         /\ StatPort(c) = IoReg(Of(c), StatReg)
         /\ MaskPort(c) = IoReg(Of(c), MaskReg)
         /\ ModePort(c) = IoReg(Of(c), ModeReg)
         /\ ClearPort(c) = IoReg(Of(c), ClearReg)
<1>1. c \in {0, 1, 2, 3, 4, 5, 6, 7}
  BY DEF Chan
<1>2. AddrPort(c) = IoAddr(c)
  BY <1>1 DEF AddrPort, IoAddr, IoReg, Of
<1>3. CountPort(c) = IoCount(c)
  BY <1>1 DEF CountPort, IoCount, IoReg, Of
<1>4. PagePort(c) = IoPage(c)
  BY <1>1 DEF PagePort, IoPage
<1>5. QED
  BY <1>1, <1>2, <1>3, <1>4
  DEF StatPort, MaskPort, ModePort, ClearPort, IoReg, Of, StatReg, MaskReg, ModeReg, ClearReg

(* Writing one of the driver's ports does what the driver means by it.     *)
LEMMA WriteRouted ==
  ASSUME NEW c \in Chan, NEW v
  PROVE  /\ PortWrite(AddrPort(c), v) => WriteAddr(c, v)
         /\ PortWrite(CountPort(c), v) => WriteCount(c, v)
         /\ PortWrite(PagePort(c), v) => WritePage(c, v)
         /\ PortWrite(MaskPort(c), v) => WriteMask(Of(c), v)
         /\ PortWrite(ModePort(c), v) => WriteMode(Of(c), v)
         /\ PortWrite(ClearPort(c), v) => ClearFlipFlop(Of(c))
<1>1. Of(c) \in Ctrl
  BY DEF Of, Ctrl
<1>2. \A k \in Ctrl : \A r, s \in {MaskReg, ModeReg, ClearReg} :
         IoReg(k, r) = IoReg(Of(c), s) => k = Of(c) /\ r = s
  BY <1>1 DEF IoReg, Ctrl, MaskReg, ModeReg, ClearReg
<1>3. MaskReg # ModeReg /\ MaskReg # ClearReg /\ ModeReg # ClearReg
  BY DEF MaskReg, ModeReg, ClearReg
<1>4. PortWrite(AddrPort(c), v) => WriteAddr(c, v)
  BY PortTable, PortsDistinct, <1>1 DEF PortWrite
<1>5. PortWrite(CountPort(c), v) => WriteCount(c, v)
  BY PortTable, PortsDistinct, <1>1 DEF PortWrite
<1>6. PortWrite(PagePort(c), v) => WritePage(c, v)
  BY PortTable, PortsDistinct, <1>1 DEF PortWrite
<1>7. PortWrite(MaskPort(c), v) => WriteMask(Of(c), v)
  BY PortTable, PortsDistinct, <1>1, <1>2, <1>3 DEF PortWrite
<1>8. PortWrite(ModePort(c), v) => WriteMode(Of(c), v)
  BY PortTable, PortsDistinct, <1>1, <1>2, <1>3 DEF PortWrite
<1>9. PortWrite(ClearPort(c), v) => ClearFlipFlop(Of(c))
  BY PortTable, PortsDistinct, <1>1, <1>2, <1>3 DEF PortWrite
<1>10. QED
  BY <1>4, <1>5, <1>6, <1>7, <1>8, <1>9

-----------------------------------------------------------------------------
(* Types.                                                                  *)

LEMMA ByteRanges ==
  ASSUME NEW n \in Int
  PROVE  Lo(n) \in Data /\ Hi(n) \in Data /\ Pg(n) \in Data /\ Bytes(n) \in Pair
<1>1. Byte \in Nat /\ Byte > 0 /\ Word \in Nat /\ Word > 0
  BY ByteAssumption DEF Word
<1>2. n \div Byte \in Int /\ n \div Word \in Int
  BY <1>1
<1>3. Lo(n) \in Data /\ Hi(n) \in Data /\ Pg(n) \in Data
  BY <1>1, <1>2 DEF Lo, Hi, Pg, Data
<1>4. QED
  BY <1>3 DEF Bytes, Pair, Flip

(* What the calls compute has the width of the C type it is stored in, and *)
(* the mode byte names the channel.                                        *)
LEMMA ModeByte ==
  ASSUME NEW c \in Chan, NEW Mode \in 0 .. 255, NEW auto \in BOOLEAN
  PROVE  /\ DmaMode(c, Mode, auto) \in 0 .. 255 /\ DmaMode(c, Mode, auto) # 0
         /\ DmaMode(c, Mode, auto) % 4 = c % 4
<1>1. (Mode \div 4) % 4 \in 0 .. 3 /\ c % 4 \in 0 .. 3
  BY DEF Chan
<1>2. DmaMode(c, Mode, auto) \in 64 .. 255 /\ DmaMode(c, Mode, auto) % 4 = c % 4
  BY <1>1 DEF DmaMode, Chan
<1>3. QED
  BY <1>2

LEMMA ComputedTypes ==
  ASSUME NEW c \in Chan, NEW a \in Nat, NEW n \in 0 .. Word - 1
  PROVE  /\ RoundDown(c, n) \in 0 .. Word - 1
         /\ Truncate(a) \in Nat
         /\ TransferCount(c, n) - 1 \in Int
<1>1. Word \in Nat /\ Word > 0
  BY ByteAssumption DEF Word
<1>2. Word * Word \in Nat /\ Word * Word > 0
  BY <1>1
<1>3. Truncate(a) \in Nat
  BY <1>2 DEF Truncate
<1>4. n % 2 \in 0 .. 1 /\ n % 2 <= n /\ n \div 2 \in Nat
  BY <1>1
<1>5. RoundDown(c, n) \in 0 .. Word - 1 /\ TransferCount(c, n) - 1 \in Int
  BY <1>1, <1>4 DEF RoundDown, TransferCount
<1>6. QED
  BY <1>3, <1>5

LEMMA TwoByteCount ==
  ASSUME NEW x \in Data, NEW v \in Data
  PROVE  x + Byte * v \in 0 .. Word - 1
<1>1. Byte \in Nat /\ v \in Nat /\ v <= Byte - 1 /\ x \in Nat /\ x <= Byte - 1
  BY ByteAssumption DEF Data
<1>2. Byte * v <= Byte * (Byte - 1)
  BY <1>1
<1>3. Byte * (Byte - 1) = Byte * Byte - Byte
  BY <1>1
<1>4. Byte * v \in Nat /\ Byte * Byte \in Nat
  BY <1>1
<1>5. QED
  BY <1>1, <1>2, <1>3, <1>4 DEF Word

(* The typing that the steps preserve: between its two reads a status call *)
(* holds a single byte.                                                    *)
TypeInv ==
  /\ TypeOK
  /\ \A t \in Tpl : frame[t].pc = "stat_hi" => frame[t].Count \in Data

LEMMA FrameTypes ==
  ASSUME TypeInv, NEW t \in Tpl
  PROVE  /\ frame[t] \in Frame
         /\ \A s \in Status : Returned(s) \in Frame
         /\ \A pc \in Pc : [frame[t] EXCEPT !.pc = pc] \in Frame
         /\ \A pc \in Pc, c \in Chan : [frame[t] EXCEPT !.pc = pc, !.Channel = c] \in Frame
<1>1. frame[t] \in Frame
  BY DEF TypeInv, TypeOK
<1>2. 0 \in 0 .. Word - 1
  BY ByteAssumption DEF Word
<1>3. \A s \in Status : Returned(s) \in Frame
  BY <1>2 DEF Returned, Frame, Pc, Chan
<1>4. \A pc \in Pc : [frame[t] EXCEPT !.pc = pc] \in Frame
  BY <1>1 DEF Frame
<1>5. \A pc \in Pc, c \in Chan : [frame[t] EXCEPT !.pc = pc, !.Channel = c] \in Frame
  BY <1>1 DEF Frame
<1>6. QED
  BY <1>1, <1>3, <1>4, <1>5

(* A port write of a call leaves everything typed.                         *)
LEMMA OutTypes ==
  ASSUME TypeInv, NEW t \in Tpl, NEW port, NEW value, NEW pc \in Pc \ {"stat_hi"},
         Out(t, port, value, pc), DmaTypeOK'
  PROVE  TypeInv'
<1>1. [frame[t] EXCEPT !.pc = pc] \in Frame
  BY FrameTypes
<1>2. frame' = [frame EXCEPT ![t] = [frame[t] EXCEPT !.pc = pc]]
  BY DEF Out, Goto
<1>3. frame' \in [Tpl -> Frame] /\ frame'[t].pc = pc /\ \A u \in Tpl \ {t} : frame'[u] = frame[u]
  BY <1>1, <1>2 DEF TypeInv, TypeOK, Frame
<1>4. QED
  BY <1>3 DEF TypeInv, TypeOK, Out

LEMMA ReturnTypes ==
  ASSUME TypeInv, NEW t \in Tpl, NEW s \in Status, Return(t, s)
  PROVE  /\ frame' \in [Tpl -> Frame]
         /\ \A u \in Tpl : frame'[u].pc = "stat_hi" => frame'[u].Count \in Data
<1>1. Returned(s) \in Frame /\ Returned(s).pc = "idle"
  BY FrameTypes DEF Returned
<1>2. frame' \in [Tpl -> Frame]
  BY <1>1 DEF Return, TypeInv, TypeOK
<1>3. \A u \in Tpl : frame'[u] = Returned(s) \/ frame'[u] = frame[u]
  BY DEF Return, TypeInv, TypeOK
<1>4. QED
  BY <1>1, <1>2, <1>3 DEF TypeInv

LEMMA CallTypes ==
  ASSUME TypeInv, NEW t \in Tpl, Call(t)
  PROVE  TypeInv'
<1>1. DmaTypeOK' \/ ~(ch' = ch /\ ff' = ff)
  BY DEF TypeInv, TypeOK, DmaTypeOK
<1>2. \A c \in Owns[t] : c \in Chan
  BY ConstantAssumption
<1>3. CASE RefuseChannel(t)
  BY <1>1, <1>3, ReturnTypes DEF RefuseChannel, TypeInv, TypeOK, Status
<1>4. ASSUME NEW b \in Buffers, NEW n \in Sizes, AllocateDmaBuffer(t, b, n) PROVE TypeInv'
  <2>1. PICK s \in Status : Return(t, s)
    BY <1>4 DEF AllocateDmaBuffer, Status
  <2>2. n \in Nat /\ \A a \in PoolAddrs : [Buffer |-> a, Length |-> n] \in Descriptor
    BY ConstantAssumption DEF Descriptor
  <2>3. buf' \in [Buffers -> Descriptor]
    BY <1>4, <2>2 DEF AllocateDmaBuffer, TypeInv, TypeOK
  <2>4. QED
    BY <1>1, <1>4, <2>1, <2>3, ReturnTypes DEF AllocateDmaBuffer, TypeInv, TypeOK
<1>5. ASSUME NEW b \in Buffers, FreeDmaBuffer(t, b) PROVE TypeInv'
  <2>1. PICK s \in Status : Return(t, s)
    BY <1>5 DEF FreeDmaBuffer, Status
  <2>2. NoBuffer \in Descriptor
    BY DEF NoBuffer, NULL, Descriptor
  <2>3. buf' \in [Buffers -> Descriptor]
    BY <1>5, <2>2 DEF FreeDmaBuffer, TypeInv, TypeOK
  <2>4. QED
    BY <1>1, <1>5, <2>1, <2>3, ReturnTypes DEF FreeDmaBuffer, TypeInv, TypeOK
<1>6. ASSUME NEW c \in Owns[t], NEW Mode \in Modes, NEW n \in Counts, NEW auto \in Autos,
             NEW a \in {buf[b].Buffer : b \in Buffers} \cup ClientAddrs,
             ProgramDmaChannel(t, c, Mode, a, n, auto)
      PROVE TypeInv'
  <2>1. c \in Chan /\ Mode \in 0 .. 255 /\ n \in 0 .. Word - 1 /\ auto \in BOOLEAN
    BY <1>2, ConstantAssumption
  <2>2. a \in Nat
    <3>1. \A b \in Buffers : buf[b].Buffer \in Nat
      BY DEF TypeInv, TypeOK, Descriptor
    <3>2. ClientAddrs \subseteq Nat
      BY ConstantAssumption
    <3>3. QED
      BY <1>6, <3>1, <3>2
  <2>3. CASE Refused(c, a, n)
    BY <1>1, <1>6, <2>3, ReturnTypes DEF ProgramDmaChannel, TypeInv, TypeOK, Status
  <2>4. CASE ~Refused(c, a, n)
    <3> DEFINE A == Truncate(a)  N == RoundDown(c, n)  M == DmaMode(c, Mode, auto)
    <3> DEFINE f == [frame[t] EXCEPT !.pc = "prog_mask", !.Channel = c, !.Address = A,
                       !.Count = N, !.Mode = M]
    <3>3. frame' = [frame EXCEPT ![t] = f]
      BY <1>6, <2>4 DEF ProgramDmaChannel
    <3>1. M \in 0 .. 255 /\ N \in 0 .. Word - 1 /\ A \in Nat
      <4>1. M \in 0 .. 255
        BY <2>1, ModeByte, ZenonT(40)
      <4>2. N \in 0 .. Word - 1 /\ A \in Nat
        BY <2>1, <2>2, ComputedTypes, ZenonT(40)
      <4>3. QED
        BY <4>1, <4>2
    <3> HIDE DEF A, N, M
    <3>2. f \in Frame /\ f.pc = "prog_mask"
      <4>1. frame[t] \in Frame
        BY FrameTypes
      <4>2. QED
        BY <3>1, <2>1, <4>1 DEF Frame, Pc
    <3>4. QED
      BY <1>1, <1>6, <3>2, <3>3 DEF ProgramDmaChannel, TypeInv, TypeOK
  <2>5. QED
    BY <2>3, <2>4
<1>7. ASSUME NEW c \in Owns[t], StartDma(t, c) \/ GetDmaStatus(t, c) \/ StopDma(t, c) PROVE TypeInv'
  <2>1. CASE \E s \in Status : Return(t, s)
    BY <1>1, <1>7, <2>1, ReturnTypes DEF StartDma, GetDmaStatus, StopDma, TypeInv, TypeOK
  <2>2. ASSUME NEW pc \in Pc \ {"stat_hi"}, frame' = [frame EXCEPT ![t].pc = pc, ![t].Channel = c]
        PROVE  TypeInv'
    <3>1. frame' = [frame EXCEPT ![t] = [frame[t] EXCEPT !.pc = pc, !.Channel = c]]
      BY <2>2, Zenon
    <3>2. [frame[t] EXCEPT !.pc = pc, !.Channel = c] \in Frame
      BY <1>2, FrameTypes
    <3>3. frame' \in [Tpl -> Frame] /\ frame'[t].pc = pc /\ \A u \in Tpl \ {t} : frame'[u] = frame[u]
      BY <3>1, <3>2 DEF TypeInv, TypeOK, Frame
    <3>4. ch' = ch /\ ff' = ff /\ DmaChannels' = DmaChannels /\ buf' = buf
      BY <1>7 DEF StartDma, GetDmaStatus, StopDma
    <3>5. QED
      BY <1>1, <3>3, <3>4 DEF TypeInv, TypeOK
  <2>3. {"start_unmask", "stat_read", "stop_mask"} \subseteq Pc \ {"stat_hi"} /\ "NOT_READY" \in Status
    BY DEF Pc, Status
  <2>4. QED
    BY <1>7, <2>1, <2>2, <2>3, Zenon DEF StartDma, GetDmaStatus, StopDma
<1>8. QED
  BY <1>3, <1>4, <1>5, <1>6, <1>7 DEF Call

LEMMA ProceedTypes ==
  ASSUME TypeInv, NEW t \in Tpl, Proceed(t)
  PROVE  TypeInv'
<1> DEFINE f == frame[t]  c == f.Channel
<1>1. /\ f \in Frame /\ c \in Chan /\ f.Address \in Nat /\ f.Count \in 0 .. Word - 1
      /\ f.Mode \in 0 .. 255
  <2>1. f \in Frame
    BY FrameTypes
  <2> HIDE DEF f
  <2>2. QED
    BY <2>1 DEF Frame
<1>a. c % 4 \in 0 .. 255 /\ 4 + (c % 4) \in 0 .. 255
  BY <1>1 DEF Chan
<1>2. DmaTypeOK /\ CountReg(t) \in Int
  BY <1>1, ComputedTypes DEF TypeInv, TypeOK, CountReg, TransferCount
<1>3. CASE ProgMask(t) \/ StartUnmask(t) \/ StopMask(t)
  BY <1>1, <1>a, <1>2, <1>3, WriteRouted, WriteTypes, OutTypes DEF ProgMask, StartUnmask, StopMask, Out, Pc, Rewriting
<1>4. CASE ProgClear(t) \/ StatClear(t)
  BY <1>1, <1>2, <1>4, WriteRouted, WriteTypes, OutTypes DEF ProgClear, StatClear, Out, Pc, Rewriting
<1>5. CASE ProgMode(t)
  BY <1>1, <1>2, <1>5, WriteRouted, WriteTypes, OutTypes DEF ProgMode, Out, Pc, Rewriting
<1>6. CASE ProgAddrLo(t) \/ ProgAddrHi(t) \/ ProgPage(t)
  BY <1>1, <1>2, <1>6, WriteRouted, WriteTypes, OutTypes, ByteRanges DEF ProgAddrLo, ProgAddrHi, ProgPage, Out, Pc, Rewriting
<1>7. CASE ProgCountLo(t) \/ ProgCountHi(t)
  BY <1>1, <1>2, <1>7, WriteRouted, WriteTypes, OutTypes, ByteRanges DEF ProgCountLo, ProgCountHi, Out, Pc, Rewriting
<1>8. CASE ProgStore(t)
  <2>1. [Mode |-> f.Mode, Count |-> f.Count, Address |-> f.Address, IsActive |-> FALSE] \in ChannelInfo
    BY <1>1 DEF ChannelInfo
  <2>2. DmaChannels' \in [Chan -> ChannelInfo]
    BY <1>1, <1>8, <2>1 DEF ProgStore, TypeInv, TypeOK
  <2>3. QED
    BY <1>8, <2>2, ReturnTypes DEF ProgStore, TypeInv, TypeOK, Status, DmaTypeOK
<1>9. ASSUME NEW pc, NEW b \in BOOLEAN, Mark(t, pc, b) PROVE TypeInv'
  <2>1. DmaChannels' = [DmaChannels EXCEPT ![c] = [DmaChannels[c] EXCEPT !.IsActive = b]]
    BY <1>9 DEF Mark
  <2>2. [DmaChannels[c] EXCEPT !.IsActive = b] \in ChannelInfo
    BY <1>1 DEF ChannelInfo, TypeInv, TypeOK
  <2>3. DmaChannels' \in [Chan -> ChannelInfo]
    BY <1>1, <2>1, <2>2 DEF TypeInv, TypeOK
  <2>4. QED
    BY <1>9, <2>3, ReturnTypes DEF Mark, TypeInv, TypeOK, Status, DmaTypeOK
<1>10. CASE StartMark(t) \/ StopMark(t) \/ StatStore(t)
  BY <1>9, <1>10, Zenon DEF StartMark, StopMark, StatStore, IsActive
<1>11. CASE StatRead(t)
  <2>0. PICK bits \in SUBSET (0 .. 3) :
          frame' = [frame EXCEPT ![t].pc = "stat_clear", ![t].Done = (c % 4) \in bits]
    BY <1>11 DEF StatRead
  <2> DEFINE b == (c % 4) \in bits
  <2>a. b \in BOOLEAN
    OBVIOUS
  <2>1. frame' = [frame EXCEPT ![t] = [f EXCEPT !.pc = "stat_clear", !.Done = b]]
    BY <2>0, Zenon
  <2> HIDE DEF b
  <2>2. [f EXCEPT !.pc = "stat_clear", !.Done = b] \in Frame /\ [f EXCEPT !.pc = "stat_clear", !.Done = b].pc # "stat_hi"
    BY <1>1, <2>a DEF Frame, Pc
  <2>3. frame' \in [Tpl -> Frame] /\ \A u \in Tpl : frame'[u].pc = "stat_hi" => frame'[u].Count \in Data
    BY <2>1, <2>2 DEF TypeInv, TypeOK
  <2>4. \A d \in Chan : [ch[d] EXCEPT !.tc = FALSE] \in Channel
    <3> TAKE d \in Chan
    <3>1. ch[d] \in Channel
      BY <1>2 DEF DmaTypeOK
    <3>2. QED
      BY <3>1 DEF Channel
  <2>5. DmaTypeOK'
    BY <1>2, <1>11, <2>4 DEF StatRead, StatusRead, DmaTypeOK
  <2>6. QED
    BY <1>11, <2>3, <2>5 DEF StatRead, TypeInv, TypeOK
<1>12. ASSUME NEW port, NEW v \in Data, PortRead(port, v) PROVE DmaTypeOK'
  <2>1. PICK d \in Chan : ff' = [ff EXCEPT ![Of(d)] = 1 - ff[Of(d)]] /\ ch' = ch
    BY <1>12 DEF PortRead, Toggle
  <2>2. Of(d) \in Ctrl /\ 1 - ff[Of(d)] \in Flip
    BY <1>2 DEF Of, Ctrl, DmaTypeOK, Flip
  <2>3. QED
    BY <1>2, <2>1, <2>2 DEF DmaTypeOK
<1>13. CASE StatCountLo(t)
  <2>1. PICK v \in Data : /\ PortRead(CountPort(c), v)
                          /\ frame' = [frame EXCEPT ![t] = [f EXCEPT !.pc = "stat_hi", !.Count = v]]
    BY <1>13 DEF StatCountLo
  <2>2. v \in 0 .. Word - 1
    <3>1. v + Byte * 0 \in 0 .. Word - 1
      BY TwoByteCount, DataRange
    <3>2. QED
      BY <3>1, ByteAssumption DEF Data
  <2>3. [f EXCEPT !.pc = "stat_hi", !.Count = v] \in Frame /\ [f EXCEPT !.pc = "stat_hi", !.Count = v].Count = v
    BY <1>1, <2>2 DEF Frame, Pc
  <2>4. frame' \in [Tpl -> Frame] /\ \A u \in Tpl : frame'[u].pc = "stat_hi" => frame'[u].Count \in Data
    BY <2>1, <2>3 DEF TypeInv, TypeOK
  <2>5. QED
    BY <1>12, <1>13, <2>1, <2>4 DEF StatCountLo, TypeInv, TypeOK
<1>14. CASE StatCountHi(t)
  <2>1. PICK v \in Data : /\ PortRead(CountPort(c), v)
                          /\ frame' = [frame EXCEPT ![t] = [f EXCEPT !.pc = "stat_store", !.Count = f.Count + Byte * v]]
    BY <1>14 DEF StatCountHi
  <2>2. f.Count \in Data
    BY <1>14 DEF StatCountHi, At, TypeInv
  <2>3. f.Count + Byte * v \in 0 .. Word - 1
    BY <2>2, TwoByteCount
  <2> DEFINE n == f.Count + Byte * v
  <2>4. [f EXCEPT !.pc = "stat_store", !.Count = n] \in Frame /\ [f EXCEPT !.pc = "stat_store", !.Count = n].pc # "stat_hi"
    BY <1>1, <2>3 DEF Frame, Pc
  <2>5. frame' \in [Tpl -> Frame] /\ \A u \in Tpl : frame'[u].pc = "stat_hi" => frame'[u].Count \in Data
    BY <2>1, <2>4 DEF TypeInv, TypeOK
  <2>6. QED
    BY <1>12, <1>14, <2>1, <2>5 DEF StatCountHi, TypeInv, TypeOK
<1>15. QED
  BY <1>3, <1>4, <1>5, <1>6, <1>7, <1>8, <1>10, <1>11, <1>13, <1>14
  DEF Proceed, Program, Start, Stop, GetStatus

(* The controllers at the start, whichever terminal-count bits are set.    *)
LEMMA ControllersStart ==
  ASSUME DmaInit
  PROVE  /\ DmaTypeOK
         /\ \A c \in Chan : c # 4 => ch[c].mask
         /\ ~ch[4].mask /\ ch[4].mode = 192
<1>1. PICK done \in SUBSET DoneAtStart : ch = [c \in Chan |-> ResetChannel(c, c \in done)]
  BY DEF DmaInit
<1>2. \A c \in Chan : \A b \in BOOLEAN : ResetChannel(c, b) \in Channel
  BY DataRange DEF ResetChannel, Channel, Chan
<1>3. ch \in [Chan -> Channel]
  <2>1. \A c \in Chan : (c \in done) \in BOOLEAN
    OBVIOUS
  <2>2. \A c \in Chan : ResetChannel(c, c \in done) \in Channel
    BY <1>2, <2>1, Zenon
  <2>3. QED
    BY <1>1, <2>2, Zenon
<1>4. \A c \in Chan : ch[c].mask = (c # 4)
  BY <1>1 DEF ResetChannel
<1>5. 4 \in Chan /\ ch[4].mode = 192
  <2>1. 4 \in Chan
    BY DEF Chan
  <2>2. QED
    BY <1>1, <2>1 DEF ResetChannel
<1>6. QED
  BY <1>3, <1>4, <1>5 DEF DmaInit, DmaTypeOK

LEMMA InitTypes == Init => TypeInv
<1> SUFFICES ASSUME Init PROVE TypeInv
  OBVIOUS
<1>2. 0 \in 0 .. Word - 1
  BY ByteAssumption DEF Word
<1>3. DmaTypeOK
  BY ControllersStart DEF Init
<1>4. DmaChannels \in [Chan -> ChannelInfo]
  BY <1>2 DEF Init, ChannelInfo
<1>5. buf \in [Buffers -> Descriptor]
  BY DEF Init, NoBuffer, NULL, Descriptor
<1>6. Returned("SUCCESS") \in Frame /\ Returned("SUCCESS").pc = "idle"
  BY <1>2 DEF Returned, Frame, Pc, Status, Chan
<1>7. QED
  BY <1>3, <1>4, <1>5, <1>6 DEF Init, TypeInv, TypeOK

(* Every register, every record of the driver and every call in progress   *)
(* keeps its type, whatever the callers do and however they preempt each   *)
(* other: no count overflows its UINT16, no port gets more than a byte.    *)
THEOREM TypeCorrect == Spec => []TypeOK
<1>1. TypeInv /\ [Next]_vars => TypeInv'
  <2> SUFFICES ASSUME TypeInv, [Next]_vars PROVE TypeInv'
    OBVIOUS
  <2>1. ASSUME NEW c \in Chan, BusCycle(c) PROVE TypeInv'
    BY <2>1, TransferTypes DEF BusCycle, TypeInv, TypeOK
  <2>2. CASE UNCHANGED vars
    BY <2>2 DEF vars, TypeInv, TypeOK, DmaTypeOK
  <2>3. QED
    BY <2>1, <2>2, CallTypes, ProceedTypes DEF Next
<1>2. TypeInv => TypeOK
  BY DEF TypeInv
<1>3. QED
  BY InitTypes, <1>1, <1>2, PTL DEF Spec

-----------------------------------------------------------------------------
(* What the registers of a channel hold while a call programs it, and      *)
(* after.  Exclusive is the hypothesis of the theorems: with one caller, or*)
(* with callers that keep to controllers of their own, preemption is       *)
(* harmless.  Without it they are false (run dma_shared_flipflop).         *)

Exclusive ==
  \A t, u \in Tpl : t # u => \A c \in Owns[t], d \in Owns[u] : Of(c) # Of(d)

(* What a call of t has achieved when it is at its pc: the flip-flop of    *)
(* its controller, and the registers it wrote already.                     *)
AfterMode   == {"prog_addr_lo", "prog_addr_hi", "prog_page", "prog_count_lo", "prog_count_hi", "prog_store"}
AfterAddr   == {"prog_page", "prog_count_lo", "prog_count_hi", "prog_store"}
AfterPage   == {"prog_count_lo", "prog_count_hi", "prog_store"}
LowNext     == {"prog_mode", "prog_addr_lo", "prog_page", "prog_count_lo"}
HighNext    == {"prog_addr_hi", "prog_count_hi"}

Progress(t) ==
  LET f == frame[t]  c == f.Channel  r == ch[c]  flip == ff[Of(c)] IN
  /\ f.pc # "idle" => c \in Owns[t]
  /\ f.pc = "prog_mask" \/ f.pc \in Rewriting => f.Mode # 0 /\ f.Mode % 4 = c % 4
  /\ f.pc \in Rewriting => r.mask
  /\ f.pc \in LowNext => flip = 0
  /\ f.pc \in HighNext => flip = 1
  /\ f.pc \in AfterMode => r.mode = f.Mode
  /\ f.pc = "prog_addr_hi" => r.baseAddr[0] = Lo(f.Address)
  /\ f.pc \in AfterAddr => r.baseAddr = Bytes(f.Address)
  /\ f.pc \in AfterPage => r.page = Pg(f.Address)
  /\ f.pc = "prog_count_hi" => r.baseCount[0] = Lo(CountReg(t))
  /\ f.pc = "prog_store" => r.baseCount = Bytes(CountReg(t))
  /\ f.pc = "start_unmask" => DmaChannels[c].Count # 0

(* The channel's record and its registers, between calls.                  *)
Good(c) ==
  /\ Programmed(c) /\ ~Reprogramming(c) => Loaded(c)
  /\ c # 4 /\ ~ch[c].mask => DmaChannels[c].Count # 0
  /\ DmaChannels[c].Count # 0 => Programmed(c)

(* What a step of a call of t needs of the others: that channels in use    *)
(* belong to their callers.                                                *)
Owners == \A t \in Tpl : frame[t].pc # "idle" => frame[t].Channel \in Owns[t]

Local(t) == TypeInv /\ Owners /\ Progress(t) /\ Good(frame[t].Channel)

SafetyInv ==
  /\ TypeInv
  /\ \A t \in Tpl : Progress(t)
  /\ \A c \in Chan : Good(c)

(* Nothing the invariant speaks of changes at channel c, but that it may   *)
(* become masked.                                                          *)
Kept(c) ==
  /\ ch'[c].mode = ch[c].mode /\ ch'[c].page = ch[c].page
  /\ ch'[c].baseAddr = ch[c].baseAddr /\ ch'[c].baseCount = ch[c].baseCount
  /\ ch[c].mask => ch'[c].mask
  /\ DmaChannels'[c] = DmaChannels[c]

LEMMA GoodKept ==
  ASSUME NEW c \in Chan, Good(c), Kept(c), Reprogramming(c) => Reprogramming(c)'
  PROVE  Good(c)'
BY DEF Good, Kept, Programmed, Loaded

LEMMA ProgressKept ==
  ASSUME NEW t \in Tpl, Progress(t), frame'[t] = frame[t],
         frame[t].pc # "idle" => Kept(frame[t].Channel),
         frame[t].pc \in Rewriting => ff'[Of(frame[t].Channel)] = ff[Of(frame[t].Channel)]
  PROVE  Progress(t)'
<1>1. CASE frame[t].pc = "idle"
  BY <1>1 DEF Progress, Rewriting, AfterMode, AfterAddr, AfterPage, LowNext, HighNext
<1>2. CASE frame[t].pc \in Rewriting
  <2>1. frame[t].pc # "idle"
    BY <1>2 DEF Rewriting
  <2>2. QED
    BY <1>2, <2>1 DEF Progress, Kept, CountReg
<1>3. CASE frame[t].pc # "idle" /\ frame[t].pc \notin Rewriting
  BY <1>3 DEF Progress, Kept, Rewriting, AfterMode, AfterAddr, AfterPage, LowNext, HighNext
<1>4. QED
  BY <1>1, <1>2, <1>3

(* A step of a call of t on its channel: nothing else changes, except for  *)
(* terminal-count bits of the same controller.                             *)
OnlyIts(t) ==
  LET c == frame[t].Channel IN
  /\ frame[t].pc # "idle"
  /\ \A d \in Chan \ {c} : Kept(d)
  /\ \A k \in Ctrl \ {Of(c)} : ff'[k] = ff[k]
  /\ \A u \in Tpl \ {t} : frame'[u] = frame[u]
  /\ frame'[t].pc # "idle" => frame'[t].Channel = c

LEMMA OtherProgressKept ==
  ASSUME Exclusive, TypeInv, Owners, NEW t \in Tpl, OnlyIts(t), NEW u \in Tpl \ {t}, Progress(u)
  PROVE  Progress(u)'
<1> DEFINE c == frame[t].Channel
<1>1. c \in Owns[t] /\ frame'[u] = frame[u]
  BY DEF Owners, OnlyIts
<1>2. ASSUME frame[u].pc # "idle"
      PROVE  Kept(frame[u].Channel) /\ ff'[Of(frame[u].Channel)] = ff[Of(frame[u].Channel)]
  <2>1. frame[u].Channel \in Owns[u] /\ frame[u].Channel \in Chan
    BY <1>2, FrameTypes DEF Owners, Frame
  <2>2. Of(frame[u].Channel) # Of(c)
    BY <1>1, <2>1 DEF Exclusive
  <2>3. frame[u].Channel # c /\ Of(frame[u].Channel) \in Ctrl
    BY <2>2 DEF Of, Ctrl
  <2>4. QED
    BY <2>1, <2>2, <2>3 DEF OnlyIts
<1>3. frame[u].pc \in Rewriting => frame[u].pc # "idle"
  BY DEF Rewriting
<1>4. QED
  BY <1>1, <1>2, <1>3, ProgressKept

LEMMA OtherGoodKept ==
  ASSUME NEW t \in Tpl, OnlyIts(t), NEW d \in Chan \ {frame[t].Channel}, Good(d)
  PROVE  Good(d)'
<1>1. Reprogramming(d) => Reprogramming(d)'
  BY DEF Reprogramming, OnlyIts
<1>2. QED
  BY <1>1, GoodKept DEF OnlyIts

-----------------------------------------------------------------------------
(* The writes, register by register.                                       *)

Others(c) == \A d \in Chan \ {c} : ch'[d] = ch[d]
Flipped(c) == ff' = [ff EXCEPT ![Of(c)] = 1 - @]

LEMMA AddrWritten ==
  ASSUME DmaTypeOK, NEW c \in Chan, NEW v, WriteAddr(c, v)
  PROVE  /\ Others(c) /\ Flipped(c)
         /\ ch'[c].baseAddr = [ch[c].baseAddr EXCEPT ![ff[Of(c)]] = v]
         /\ ch'[c].mask = ch[c].mask /\ ch'[c].mode = ch[c].mode
         /\ ch'[c].page = ch[c].page /\ ch'[c].baseCount = ch[c].baseCount
BY DEF WriteAddr, Toggle, Others, Flipped, DmaTypeOK, Channel

LEMMA CountWritten ==
  ASSUME DmaTypeOK, NEW c \in Chan, NEW v, WriteCount(c, v)
  PROVE  /\ Others(c) /\ Flipped(c)
         /\ ch'[c].baseCount = [ch[c].baseCount EXCEPT ![ff[Of(c)]] = v]
         /\ ch'[c].mask = ch[c].mask /\ ch'[c].mode = ch[c].mode
         /\ ch'[c].page = ch[c].page /\ ch'[c].baseAddr = ch[c].baseAddr
BY DEF WriteCount, Toggle, Others, Flipped, DmaTypeOK, Channel

LEMMA PageWritten ==
  ASSUME DmaTypeOK, NEW c \in Chan, NEW v, WritePage(c, v)
  PROVE  /\ Others(c) /\ ff' = ff
         /\ ch'[c].page = v
         /\ ch'[c].mask = ch[c].mask /\ ch'[c].mode = ch[c].mode
         /\ ch'[c].baseAddr = ch[c].baseAddr /\ ch'[c].baseCount = ch[c].baseCount
BY DEF WritePage, Others, DmaTypeOK, Channel

LEMMA ModeWritten ==
  ASSUME DmaTypeOK, NEW c \in Chan, NEW v \in Nat, v % 4 = c % 4, WriteMode(Of(c), v)
  PROVE  /\ Others(c) /\ ff' = ff
         /\ ch'[c].mode = v
         /\ ch'[c].mask = ch[c].mask /\ ch'[c].page = ch[c].page
         /\ ch'[c].baseAddr = ch[c].baseAddr /\ ch'[c].baseCount = ch[c].baseCount
<1>1. Named(Of(c), v) = c
  BY DEF Named, Of, Chan
<1>2. ch' = [ch EXCEPT ![c] = [ch[c] EXCEPT !.mode = v]] /\ ff' = ff
  BY <1>1 DEF WriteMode
<1>3. QED
  BY <1>2 DEF Others, DmaTypeOK, Channel

(* The driver's two mask bytes: 4 + (c % 4) masks, c % 4 unmasks.          *)
LEMMA MaskWritten ==
  ASSUME DmaTypeOK, NEW c \in Chan, NEW set \in {0, 4}, WriteMask(Of(c), set + (c % 4))
  PROVE  /\ Others(c) /\ ff' = ff
         /\ ch'[c].mask <=> set = 4
         /\ ch'[c].mode = ch[c].mode /\ ch'[c].page = ch[c].page
         /\ ch'[c].baseAddr = ch[c].baseAddr /\ ch'[c].baseCount = ch[c].baseCount
<1>1. Named(Of(c), set + (c % 4)) = c
  BY DEF Named, Of, Chan
<1>2. (((set + (c % 4)) \div 4) % 2 = 1) <=> set = 4
  BY DEF Chan
<1>3. PICK b \in BOOLEAN : /\ b <=> set = 4
                           /\ ch' = [ch EXCEPT ![c].mask = b] /\ ff' = ff
  <2>1. (((set + (c % 4)) \div 4) % 2 = 1) \in BOOLEAN
    OBVIOUS
  <2>2. QED
    BY <1>1, <1>2, <2>1, Zenon DEF WriteMask
<1>4. QED
  BY <1>3 DEF Others, DmaTypeOK, Channel

-----------------------------------------------------------------------------
(* One lemma per kind of step.                                             *)

LEMMA OutFrame ==
  ASSUME NEW t \in Tpl, Local(t), NEW port, NEW value, NEW pc \in Pc, Out(t, port, value, pc)
  PROVE  /\ frame'[t].pc = pc /\ frame'[t].Channel = frame[t].Channel
         /\ frame'[t].Address = frame[t].Address /\ frame'[t].Count = frame[t].Count
         /\ frame'[t].Mode = frame[t].Mode
         /\ \A u \in Tpl \ {t} : frame'[u] = frame[u]
         /\ DmaChannels' = DmaChannels /\ CountReg(t)' = CountReg(t)
<1>1. frame' = [frame EXCEPT ![t] = [frame[t] EXCEPT !.pc = pc]] /\ DmaChannels' = DmaChannels
  BY DEF Out, Goto
<1>2. frame[t] \in Frame /\ frame \in [Tpl -> Frame]
  BY DEF Local, TypeInv, TypeOK
<1>3. /\ frame'[t].pc = pc /\ frame'[t].Channel = frame[t].Channel
      /\ frame'[t].Address = frame[t].Address /\ frame'[t].Count = frame[t].Count
      /\ frame'[t].Mode = frame[t].Mode
      /\ \A u \in Tpl \ {t} : frame'[u] = frame[u]
  BY <1>1, <1>2 DEF Frame
<1>4. QED
  BY <1>1, <1>3 DEF CountReg

(* A port write of a call changes only its channel and its controller.     *)
LEMMA OutOnlyIts ==
  ASSUME NEW t \in Tpl, Local(t), NEW port, NEW value, NEW pc \in Pc, Out(t, port, value, pc),
         frame[t].pc # "idle",
         Others(frame[t].Channel),
         ff' = ff \/ Flipped(frame[t].Channel) \/ ff' = [ff EXCEPT ![Of(frame[t].Channel)] = 0]
  PROVE  OnlyIts(t)
<1> DEFINE c == frame[t].Channel
<1>1. /\ DmaChannels' = DmaChannels /\ frame'[t].Channel = c
      /\ \A u \in Tpl \ {t} : frame'[u] = frame[u]
  BY OutFrame
<1>2. \A d \in Chan \ {c} : Kept(d)
  BY <1>1 DEF Others, Kept
<1>3. \A k \in Ctrl \ {Of(c)} : ff'[k] = ff[k]
  BY DEF Flipped, Local, TypeInv, TypeOK, DmaTypeOK
<1>4. QED
  BY <1>1, <1>2, <1>3 DEF OnlyIts

(* While its registers are rewritten a channel owes them nothing but the   *)
(* mask.                                                                   *)
LEMMA GoodWhileRewritten ==
  ASSUME NEW t \in Tpl, NEW c \in Chan, Good(c), DmaChannels' = DmaChannels,
         frame'[t].pc \in Rewriting, frame'[t].Channel = c, ch'[c].mask
  PROVE  Good(c)'
<1>1. Reprogramming(c)'
  BY DEF Reprogramming
<1>2. QED
  BY <1>1 DEF Good, Programmed

LEMMA CallFacts ==
  ASSUME NEW t \in Tpl, Local(t)
  PROVE  /\ DmaTypeOK /\ frame[t].Channel \in Chan /\ Progress(t) /\ Good(frame[t].Channel)
         /\ frame[t].Mode \in Nat /\ Of(frame[t].Channel) \in Ctrl
         /\ frame[t].Address \in Int /\ CountReg(t) \in Int
         /\ ff[Of(frame[t].Channel)] \in Flip /\ ff \in [Ctrl -> Flip]
         /\ ch[frame[t].Channel].baseAddr \in Pair /\ ch[frame[t].Channel].baseCount \in Pair
<1>1. DmaTypeOK /\ frame[t] \in Frame
  BY DEF Local, TypeInv, TypeOK
<1>2. frame[t].Channel \in Chan /\ frame[t].Mode \in Nat /\ frame[t].Address \in Int /\ frame[t].Count \in 0 .. Word - 1
  BY <1>1 DEF Frame
<1>3. CountReg(t) \in Int
  <2>1. frame[t].Count \in Int
    BY <1>2
  <2>2. TransferCount(frame[t].Channel, frame[t].Count) \in Int
    BY <2>1 DEF TransferCount
  <2>3. QED
    BY <2>2 DEF CountReg
<1>4. Of(frame[t].Channel) \in Ctrl /\ ff[Of(frame[t].Channel)] \in Flip
  BY <1>1 DEF DmaTypeOK, Of, Ctrl
<1>5. QED
  BY <1>1, <1>2, <1>3, <1>4 DEF Local, DmaTypeOK, Channel

LEMMA StepProgMask ==
  ASSUME Exclusive, TypeInv', NEW t \in Tpl, Local(t), ProgMask(t),
         NEW c, c = frame[t].Channel
  PROVE  Progress(t)' /\ Good(c)' /\ OnlyIts(t)
<1> DEFINE pc == "prog_clear"
<1>1. At(t, "prog_mask") /\ Out(t, MaskPort(c), 4 + (c % 4), pc) /\ pc \in Pc /\ pc \in Rewriting
  BY DEF ProgMask, Pc, Rewriting
<1>2. WriteMask(Of(c), 4 + (c % 4))
  BY <1>1, CallFacts, WriteRouted DEF Out
<1>3. Others(c) /\ ff' = ff /\ ch'[c].mask
  BY <1>2, CallFacts, MaskWritten
<1>4. Progress(t)'
  BY <1>1, <1>3, CallFacts, OutFrame, SMTT(40)
  DEF Progress, At, AfterMode, AfterAddr, AfterPage, LowNext, HighNext
<1>5. Good(c)'
  BY <1>1, <1>3, CallFacts, OutFrame, GoodWhileRewritten
<1>6. OnlyIts(t)
  BY <1>1, <1>3, OutOnlyIts DEF At
<1>7. QED
  BY <1>4, <1>5, <1>6

LEMMA StepProgClear ==
  ASSUME Exclusive, TypeInv', NEW t \in Tpl, Local(t), ProgClear(t),
         NEW c, c = frame[t].Channel
  PROVE  Progress(t)' /\ Good(c)' /\ OnlyIts(t)
<1> DEFINE pc == "prog_mode"
<1>1. At(t, "prog_clear") /\ Out(t, ClearPort(c), 255, pc) /\ pc \in Pc /\ pc \in Rewriting
  BY DEF ProgClear, Pc, Rewriting
<1>2. ClearFlipFlop(Of(c))
  BY <1>1, CallFacts, WriteRouted DEF Out
<1>3. Others(c) /\ ch' = ch /\ ff' = [ff EXCEPT ![Of(c)] = 0] /\ ff'[Of(c)] = 0 /\ ch[c].mask
  BY <1>1, <1>2, CallFacts DEF ClearFlipFlop, Others, Progress, At, Rewriting
<1>4. Progress(t)'
  BY <1>1, <1>3, CallFacts, OutFrame, SMTT(40)
  DEF Progress, At, AfterMode, AfterAddr, AfterPage, LowNext, HighNext, Rewriting
<1>5. Good(c)'
  BY <1>1, <1>3, CallFacts, OutFrame, GoodWhileRewritten
<1>6. OnlyIts(t)
  BY <1>1, <1>3, OutOnlyIts DEF At
<1>7. QED
  BY <1>4, <1>5, <1>6

LEMMA StepProgMode ==
  ASSUME Exclusive, TypeInv', NEW t \in Tpl, Local(t), ProgMode(t),
         NEW c, c = frame[t].Channel
  PROVE  Progress(t)' /\ Good(c)' /\ OnlyIts(t)
<1> DEFINE pc == "prog_addr_lo"
<1>1. At(t, "prog_mode") /\ Out(t, ModePort(c), frame[t].Mode, pc) /\ pc \in Pc /\ pc \in Rewriting
  BY DEF ProgMode, Pc, Rewriting
<1>2. WriteMode(Of(c), frame[t].Mode)
  BY <1>1, CallFacts, WriteRouted DEF Out
<1>3. /\ frame[t].Mode # 0 /\ frame[t].Mode % 4 = c % 4
      /\ ch[c].mask /\ ff[Of(c)] = 0
  BY <1>1, CallFacts DEF Progress, At, Rewriting, LowNext
<1>4. Others(c) /\ ff' = ff /\ ch'[c].mode = frame[t].Mode /\ ch'[c].mask
  BY <1>2, <1>3, CallFacts, ModeWritten
<1>5. Progress(t)'
  BY <1>1, <1>3, <1>4, CallFacts, OutFrame, SMTT(40)
  DEF Progress, At, AfterMode, AfterAddr, AfterPage, LowNext, HighNext, Rewriting
<1>6. Good(c)'
  BY <1>1, <1>4, CallFacts, OutFrame, GoodWhileRewritten
<1>7. OnlyIts(t)
  BY <1>1, <1>4, OutOnlyIts DEF At
<1>8. QED
  BY <1>5, <1>6, <1>7

(* The two bytes of a register pair, low byte first.                       *)
LEMMA PairWritten ==
  ASSUME NEW p \in Pair, NEW n \in Int
  PROVE  /\ [p EXCEPT ![0] = Lo(n)][0] = Lo(n)
         /\ p[0] = Lo(n) => [p EXCEPT ![1] = Hi(n)] = Bytes(n)
<1>1. p \in [{0, 1} -> Data] /\ Flip = {0, 1}
  BY DEF Pair, Flip
<1>2. [p EXCEPT ![0] = Lo(n)][0] = Lo(n)
  BY <1>1
<1>3. ASSUME p[0] = Lo(n) PROVE [p EXCEPT ![1] = Hi(n)] = Bytes(n)
  <2> DEFINE q == [p EXCEPT ![1] = Hi(n)]
  <2>1. q = [i \in {0, 1} |-> IF i = 1 THEN Hi(n) ELSE p[i]]
    BY <1>1
  <2>2. Bytes(n) = [i \in {0, 1} |-> IF i = 0 THEN Lo(n) ELSE Hi(n)]
    BY <1>1 DEF Bytes
  <2>3. QED
    BY <1>3, <2>1, <2>2
<1>4. QED
  BY <1>2, <1>3

LEMMA StepProgAddrLo ==
  ASSUME Exclusive, TypeInv', NEW t \in Tpl, Local(t), ProgAddrLo(t),
         NEW c, c = frame[t].Channel
  PROVE  Progress(t)' /\ Good(c)' /\ OnlyIts(t)
<1> DEFINE pc == "prog_addr_hi"  a == frame[t].Address
<1>1. At(t, "prog_addr_lo") /\ Out(t, AddrPort(c), Lo(a), pc) /\ pc \in Pc /\ pc \in Rewriting
  BY DEF ProgAddrLo, Pc, Rewriting
<1>2. WriteAddr(c, Lo(a))
  BY <1>1, CallFacts, WriteRouted DEF Out
<1>3. /\ frame[t].Mode # 0 /\ frame[t].Mode % 4 = c % 4 /\ ch[c].mode = frame[t].Mode
      /\ ch[c].mask /\ ff[Of(c)] = 0
  BY <1>1, CallFacts DEF Progress, At, Rewriting, LowNext, AfterMode
<1>4. /\ Others(c) /\ Flipped(c) /\ ch'[c].baseAddr = [ch[c].baseAddr EXCEPT ![0] = Lo(a)]
      /\ ch'[c].mode = ch[c].mode /\ ch'[c].mask
  BY <1>2, <1>3, CallFacts, AddrWritten
<1>5. ff'[Of(c)] = 1 /\ ch'[c].baseAddr[0] = Lo(a)
  BY <1>3, <1>4, CallFacts, PairWritten DEF Flipped
<1>6. Progress(t)'
  <2>1. /\ frame'[t].pc = pc /\ frame'[t].Channel = c /\ frame'[t].Address = a
        /\ frame'[t].Mode = frame[t].Mode /\ c \in Owns[t]
    BY <1>1, CallFacts, OutFrame DEF Progress, At
  <2>2. QED
    BY <1>3, <1>4, <1>5, <2>1
    DEF Progress, AfterMode, AfterAddr, AfterPage, LowNext, HighNext, Rewriting
<1>7. Good(c)'
  BY <1>1, <1>4, CallFacts, OutFrame, GoodWhileRewritten
<1>8. OnlyIts(t)
  BY <1>1, <1>4, OutOnlyIts DEF At
<1>9. QED
  BY <1>6, <1>7, <1>8

LEMMA StepProgAddrHi ==
  ASSUME Exclusive, TypeInv', NEW t \in Tpl, Local(t), ProgAddrHi(t),
         NEW c, c = frame[t].Channel
  PROVE  Progress(t)' /\ Good(c)' /\ OnlyIts(t)
<1> DEFINE pc == "prog_page"  a == frame[t].Address
<1>1. At(t, "prog_addr_hi") /\ Out(t, AddrPort(c), Hi(a), pc) /\ pc \in Pc /\ pc \in Rewriting
  BY DEF ProgAddrHi, Pc, Rewriting
<1>2. WriteAddr(c, Hi(a))
  BY <1>1, CallFacts, WriteRouted DEF Out
<1>3. /\ frame[t].Mode # 0 /\ frame[t].Mode % 4 = c % 4 /\ ch[c].mode = frame[t].Mode
      /\ ch[c].mask /\ ff[Of(c)] = 1 /\ ch[c].baseAddr[0] = Lo(a)
  BY <1>1, CallFacts DEF Progress, At, Rewriting, HighNext, AfterMode
<1>4. /\ Others(c) /\ Flipped(c) /\ ch'[c].baseAddr = [ch[c].baseAddr EXCEPT ![1] = Hi(a)]
      /\ ch'[c].mode = ch[c].mode /\ ch'[c].mask
  BY <1>2, <1>3, CallFacts, AddrWritten
<1>5. ff'[Of(c)] = 0 /\ ch'[c].baseAddr = Bytes(a)
  BY <1>3, <1>4, CallFacts, PairWritten DEF Flipped
<1>f. /\ frame'[t].pc = pc /\ frame'[t].Channel = c /\ frame'[t].Address = a
      /\ frame'[t].Mode = frame[t].Mode /\ CountReg(t)' = CountReg(t)
  BY <1>1, OutFrame
<1>o. c \in Owns[t]
  BY <1>1, CallFacts DEF Progress, At
<1>6. Progress(t)'
  BY <1>3, <1>4, <1>5, <1>f, <1>o
  DEF Progress, At, AfterMode, AfterAddr, AfterPage, LowNext, HighNext, Rewriting
<1>7. Good(c)'
  BY <1>1, <1>4, CallFacts, OutFrame, GoodWhileRewritten
<1>8. OnlyIts(t)
  BY <1>1, <1>4, OutOnlyIts DEF At
<1>9. QED
  BY <1>6, <1>7, <1>8

LEMMA StepProgPage ==
  ASSUME Exclusive, TypeInv', NEW t \in Tpl, Local(t), ProgPage(t),
         NEW c, c = frame[t].Channel
  PROVE  Progress(t)' /\ Good(c)' /\ OnlyIts(t)
<1> DEFINE pc == "prog_count_lo"  a == frame[t].Address
<1>1. At(t, "prog_page") /\ Out(t, PagePort(c), Pg(a), pc) /\ pc \in Pc /\ pc \in Rewriting
  BY DEF ProgPage, Pc, Rewriting
<1>2. WritePage(c, Pg(a))
  BY <1>1, CallFacts, WriteRouted DEF Out
<1>3. /\ frame[t].Mode # 0 /\ frame[t].Mode % 4 = c % 4 /\ ch[c].mode = frame[t].Mode
      /\ ch[c].mask /\ ff[Of(c)] = 0 /\ ch[c].baseAddr = Bytes(a)
  BY <1>1, CallFacts DEF Progress, At, Rewriting, LowNext, AfterMode, AfterAddr
<1>4. /\ Others(c) /\ ff' = ff /\ ch'[c].page = Pg(a) /\ ch'[c].baseAddr = ch[c].baseAddr
      /\ ch'[c].mode = ch[c].mode /\ ch'[c].mask
  BY <1>2, <1>3, CallFacts, PageWritten
<1>f. /\ frame'[t].pc = pc /\ frame'[t].Channel = c /\ frame'[t].Address = a
      /\ frame'[t].Mode = frame[t].Mode /\ CountReg(t)' = CountReg(t)
  BY <1>1, OutFrame
<1>o. c \in Owns[t]
  BY <1>1, CallFacts DEF Progress, At
<1>6. Progress(t)'
  BY <1>3, <1>4, <1>f, <1>o
  DEF Progress, At, AfterMode, AfterAddr, AfterPage, LowNext, HighNext, Rewriting
<1>7. Good(c)'
  BY <1>1, <1>4, CallFacts, OutFrame, GoodWhileRewritten
<1>8. OnlyIts(t)
  BY <1>1, <1>4, OutOnlyIts DEF At
<1>9. QED
  BY <1>6, <1>7, <1>8

LEMMA StepProgCountLo ==
  ASSUME Exclusive, TypeInv', NEW t \in Tpl, Local(t), ProgCountLo(t),
         NEW c, c = frame[t].Channel
  PROVE  Progress(t)' /\ Good(c)' /\ OnlyIts(t)
<1> DEFINE pc == "prog_count_hi"  a == frame[t].Address  n == CountReg(t)
<1>1. At(t, "prog_count_lo") /\ Out(t, CountPort(c), Lo(n), pc) /\ pc \in Pc /\ pc \in Rewriting
  BY DEF ProgCountLo, Pc, Rewriting
<1>2. WriteCount(c, Lo(n))
  BY <1>1, CallFacts, WriteRouted DEF Out
<1>3. /\ frame[t].Mode # 0 /\ frame[t].Mode % 4 = c % 4 /\ ch[c].mode = frame[t].Mode
      /\ ch[c].mask /\ ff[Of(c)] = 0 /\ ch[c].baseAddr = Bytes(a) /\ ch[c].page = Pg(a)
  BY <1>1, CallFacts DEF Progress, At, Rewriting, LowNext, AfterMode, AfterAddr, AfterPage
<1>4. /\ Others(c) /\ Flipped(c) /\ ch'[c].baseCount = [ch[c].baseCount EXCEPT ![0] = Lo(n)]
      /\ ch'[c].mode = ch[c].mode /\ ch'[c].mask
      /\ ch'[c].page = ch[c].page /\ ch'[c].baseAddr = ch[c].baseAddr
  BY <1>2, <1>3, CallFacts, CountWritten
<1>5. ff'[Of(c)] = 1 /\ ch'[c].baseCount[0] = Lo(n) /\ n' = n
  BY <1>1, <1>3, <1>4, CallFacts, PairWritten, OutFrame DEF Flipped
<1>6. Progress(t)'
  <2>1. /\ frame'[t].pc = pc /\ frame'[t].Channel = c /\ frame'[t].Address = a
        /\ frame'[t].Mode = frame[t].Mode /\ c \in Owns[t]
    BY <1>1, CallFacts, OutFrame DEF Progress, At
  <2>2. QED
    BY <1>3, <1>4, <1>5, <2>1
    DEF Progress, AfterMode, AfterAddr, AfterPage, LowNext, HighNext, Rewriting
<1>7. Good(c)'
  BY <1>1, <1>4, CallFacts, OutFrame, GoodWhileRewritten
<1>8. OnlyIts(t)
  BY <1>1, <1>4, OutOnlyIts DEF At
<1>9. QED
  BY <1>6, <1>7, <1>8

LEMMA StepProgCountHi ==
  ASSUME Exclusive, TypeInv', NEW t \in Tpl, Local(t), ProgCountHi(t),
         NEW c, c = frame[t].Channel
  PROVE  Progress(t)' /\ Good(c)' /\ OnlyIts(t)
<1> DEFINE pc == "prog_store"  a == frame[t].Address  n == CountReg(t)
<1>1. At(t, "prog_count_hi") /\ Out(t, CountPort(c), Hi(n), pc) /\ pc \in Pc /\ pc \in Rewriting
  BY DEF ProgCountHi, Pc, Rewriting
<1>2. WriteCount(c, Hi(n))
  BY <1>1, CallFacts, WriteRouted DEF Out
<1>3. /\ frame[t].Mode # 0 /\ frame[t].Mode % 4 = c % 4 /\ ch[c].mode = frame[t].Mode
      /\ ch[c].mask /\ ff[Of(c)] = 1 /\ ch[c].baseAddr = Bytes(a) /\ ch[c].page = Pg(a)
      /\ ch[c].baseCount[0] = Lo(n)
  BY <1>1, CallFacts DEF Progress, At, Rewriting, HighNext, AfterMode, AfterAddr, AfterPage
<1>4. /\ Others(c) /\ Flipped(c) /\ ch'[c].baseCount = [ch[c].baseCount EXCEPT ![1] = Hi(n)]
      /\ ch'[c].mode = ch[c].mode /\ ch'[c].mask
      /\ ch'[c].page = ch[c].page /\ ch'[c].baseAddr = ch[c].baseAddr
  BY <1>2, <1>3, CallFacts, CountWritten
<1>5. ff'[Of(c)] = 0 /\ ch'[c].baseCount = Bytes(n) /\ n' = n
  BY <1>1, <1>3, <1>4, CallFacts, PairWritten, OutFrame DEF Flipped
<1>f. /\ frame'[t].pc = pc /\ frame'[t].Channel = c /\ frame'[t].Address = a
      /\ frame'[t].Mode = frame[t].Mode /\ CountReg(t)' = CountReg(t)
  BY <1>1, OutFrame
<1>o. c \in Owns[t]
  BY <1>1, CallFacts DEF Progress, At
<1>6. Progress(t)'
  BY <1>3, <1>4, <1>5, <1>f, <1>o
  DEF Progress, At, AfterMode, AfterAddr, AfterPage, LowNext, HighNext, Rewriting
<1>7. Good(c)'
  BY <1>1, <1>4, CallFacts, OutFrame, GoodWhileRewritten
<1>8. OnlyIts(t)
  BY <1>1, <1>4, OutOnlyIts DEF At
<1>9. QED
  BY <1>6, <1>7, <1>8

(* A caller outside the driver owes nothing.                               *)
LEMMA ProgressOutside ==
  ASSUME NEW t \in Tpl, frame'[t].pc = "idle"
  PROVE  Progress(t)'
BY DEF Progress, AfterMode, AfterAddr, AfterPage, LowNext, HighNext, Rewriting

LEMMA ReturnFrame ==
  ASSUME TypeInv, NEW t \in Tpl, NEW s, Return(t, s)
  PROVE  frame'[t].pc = "idle" /\ \A u \in Tpl \ {t} : frame'[u] = frame[u]
BY DEF Return, Returned, TypeInv, TypeOK

(* Another caller does not reprogram the channel of this one.              *)
LEMMA SoleProgrammer ==
  ASSUME Exclusive, NEW t \in Tpl, Local(t), NEW c, c = frame[t].Channel, frame[t].pc # "idle"
  PROVE  Reprogramming(c) => frame[t].pc \in Rewriting
<1> SUFFICES ASSUME NEW u \in Tpl, frame[u].pc \in Rewriting, frame[u].Channel = c, u # t PROVE FALSE
  BY DEF Reprogramming
<1>1. c \in Owns[t] /\ c \in Owns[u]
  BY DEF Local, Owners, Rewriting
<1>2. QED
  BY <1>1 DEF Exclusive

LEMMA StepProgStore ==
  ASSUME Exclusive, TypeInv', NEW t \in Tpl, Local(t), ProgStore(t),
         NEW c, c = frame[t].Channel
  PROVE  Progress(t)' /\ Good(c)' /\ OnlyIts(t)
<1> DEFINE f == frame[t]
           d == [Mode |-> f.Mode, Count |-> f.Count, Address |-> f.Address, IsActive |-> FALSE]
<1>1. /\ At(t, "prog_store") /\ Return(t, "SUCCESS") /\ ch' = ch /\ ff' = ff
      /\ DmaChannels' = [DmaChannels EXCEPT ![c] = d]
  BY DEF ProgStore
<1>2. frame'[t].pc = "idle" /\ \A u \in Tpl \ {t} : frame'[u] = frame[u]
  BY <1>1, ReturnFrame DEF Local
<1>3. /\ f.Mode # 0 /\ ch[c].mode = f.Mode /\ ch[c].mask
      /\ ch[c].baseAddr = Bytes(f.Address) /\ ch[c].page = Pg(f.Address)
      /\ ch[c].baseCount = Bytes(CountReg(t))
  BY <1>1, CallFacts DEF Progress, At, Rewriting, AfterMode, AfterAddr, AfterPage
<1>4. DmaChannels'[c] = d /\ \A e \in Chan \ {c} : DmaChannels'[e] = DmaChannels[e]
  BY <1>1, CallFacts DEF Local, TypeInv, TypeOK
<1>5. Progress(t)'
  BY <1>2, ProgressOutside
<1>6. Good(c)'
  BY <1>1, <1>3, <1>4, CallFacts, SMTT(40) DEF Good, Loaded, Programmed, CountReg
<1>7. OnlyIts(t)
  BY <1>1, <1>2, <1>4 DEF OnlyIts, Kept, At
<1>8. QED
  BY <1>5, <1>6, <1>7

LEMMA StepStopMask ==
  ASSUME Exclusive, TypeInv', NEW t \in Tpl, Local(t), StopMask(t),
         NEW c, c = frame[t].Channel
  PROVE  Progress(t)' /\ Good(c)' /\ OnlyIts(t)
<1> DEFINE pc == "stop_mark"
<1>1. At(t, "stop_mask") /\ Out(t, MaskPort(c), 4 + (c % 4), pc) /\ pc \in Pc
  BY DEF StopMask, Pc
<1>2. WriteMask(Of(c), 4 + (c % 4))
  BY <1>1, CallFacts, WriteRouted DEF Out
<1>3. Others(c) /\ ff' = ff /\ Kept(c)
  BY <1>1, <1>2, CallFacts, MaskWritten, OutFrame DEF Kept
<1>4. Progress(t)'
  BY <1>1, CallFacts, OutFrame, SMTT(40)
  DEF Progress, At, AfterMode, AfterAddr, AfterPage, LowNext, HighNext, Rewriting
<1>5. Good(c)'
  <2>1. ~Reprogramming(c)
    BY <1>1, SoleProgrammer DEF At, Rewriting
  <2>2. QED
    BY <1>3, <2>1, CallFacts, GoodKept
<1>6. OnlyIts(t)
  BY <1>1, <1>3, OutOnlyIts DEF At
<1>7. QED
  BY <1>4, <1>5, <1>6

LEMMA StepStartUnmask ==
  ASSUME Exclusive, TypeInv', NEW t \in Tpl, Local(t), StartUnmask(t),
         NEW c, c = frame[t].Channel
  PROVE  Progress(t)' /\ Good(c)' /\ OnlyIts(t)
<1> DEFINE pc == "start_mark"
<1>1. At(t, "start_unmask") /\ Out(t, MaskPort(c), 0 + (c % 4), pc) /\ pc \in Pc
  BY CallFacts DEF StartUnmask, Pc, Chan
<1>2. WriteMask(Of(c), 0 + (c % 4))
  BY <1>1, CallFacts, WriteRouted DEF Out
<1>3. /\ Others(c) /\ ff' = ff /\ DmaChannels' = DmaChannels
      /\ ch'[c].mode = ch[c].mode /\ ch'[c].page = ch[c].page
      /\ ch'[c].baseAddr = ch[c].baseAddr /\ ch'[c].baseCount = ch[c].baseCount
  BY <1>1, <1>2, CallFacts, MaskWritten, OutFrame
<1>4. DmaChannels[c].Count # 0
  BY <1>1, CallFacts DEF Progress, At
<1>5. Progress(t)'
  BY <1>1, CallFacts, OutFrame
  DEF Progress, At, AfterMode, AfterAddr, AfterPage, LowNext, HighNext, Rewriting
<1>6. Good(c)'
  <2>1. ~Reprogramming(c)
    BY <1>1, SoleProgrammer DEF At, Rewriting
  <2>2. QED
    BY <1>3, <1>4, <2>1, CallFacts DEF Good, Loaded, Programmed
<1>7. OnlyIts(t)
  BY <1>1, <1>3, OutOnlyIts DEF At
<1>8. QED
  BY <1>5, <1>6, <1>7

(* Start, Stop and Status end by recording IsActive, which is no part of   *)
(* what the invariant says.                                                *)
LEMMA StepMark ==
  ASSUME Exclusive, TypeInv', NEW t \in Tpl, Local(t), NEW pc, NEW b \in BOOLEAN, Mark(t, pc, b),
         pc \notin Rewriting, pc # "idle", NEW c, c = frame[t].Channel
  PROVE  Progress(t)' /\ Good(c)' /\ OnlyIts(t)
<1>1. /\ At(t, pc) /\ Return(t, "SUCCESS") /\ ch' = ch /\ ff' = ff
      /\ DmaChannels' = [DmaChannels EXCEPT ![c] = [DmaChannels[c] EXCEPT !.IsActive = b]]
  BY DEF Mark
<1>2. frame'[t].pc = "idle" /\ \A u \in Tpl \ {t} : frame'[u] = frame[u]
  BY <1>1, ReturnFrame DEF Local
<1>3. c \in Chan /\ DmaChannels \in [Chan -> ChannelInfo]
  BY CallFacts DEF Local, TypeInv, TypeOK
<1>4. \A e \in Chan \ {c} : DmaChannels'[e] = DmaChannels[e]
  BY <1>1, <1>3
<1>5. /\ DmaChannels'[c].Mode = DmaChannels[c].Mode /\ DmaChannels'[c].Count = DmaChannels[c].Count
      /\ DmaChannels'[c].Address = DmaChannels[c].Address
  BY <1>1, <1>3 DEF ChannelInfo
<1>6. Progress(t)'
  BY <1>2, ProgressOutside
<1>7. Good(c)'
  <2>1. ~Reprogramming(c)
    BY <1>1, SoleProgrammer DEF At
  <2>2. QED
    BY <1>1, <1>5, <2>1, CallFacts DEF Good, Loaded, Programmed
<1>8. OnlyIts(t)
  BY <1>1, <1>2, <1>4 DEF OnlyIts, Kept, At
<1>9. QED
  BY <1>6, <1>7, <1>8

(* The steps of a status call that access ports: they write no register    *)
(* but terminal-count bits and flip-flops.                                 *)
LEMMA StepStatus ==
  ASSUME Exclusive, TypeInv', NEW t \in Tpl, Local(t),
         StatRead(t) \/ StatClear(t) \/ StatCountLo(t) \/ StatCountHi(t),
         NEW c, c = frame[t].Channel
  PROVE  Progress(t)' /\ Good(c)' /\ OnlyIts(t)
<1>1. /\ frame[t].pc \in {"stat_read", "stat_clear", "stat_lo", "stat_hi"} /\ c \in Owns[t] /\ c \in Chan
      /\ frame[t] \in Frame /\ frame \in [Tpl -> Frame]
  BY CallFacts DEF StatRead, StatClear, StatCountLo, StatCountHi, At, Progress, Local, TypeInv, TypeOK
<1>2. /\ frame'[t].pc \in {"stat_clear", "stat_lo", "stat_hi", "stat_store"} /\ frame'[t].Channel = c
      /\ \A u \in Tpl \ {t} : frame'[u] = frame[u]
  <2>1. CASE StatRead(t)
    <3>1. PICK b : frame' = [frame EXCEPT ![t].pc = "stat_clear", ![t].Done = b]
      BY <2>1, Zenon DEF StatRead
    <3>2. QED
      BY <1>1, <3>1 DEF Frame
  <2>2. CASE StatClear(t)
    BY <1>1, <2>2 DEF StatClear, Out, Goto, Frame
  <2>3. CASE StatCountLo(t)
    <3>1. PICK v \in Data : frame' = [frame EXCEPT ![t].pc = "stat_hi", ![t].Count = v]
      BY <2>3 DEF StatCountLo
    <3>2. QED
      BY <1>1, <3>1 DEF Frame
  <2>4. CASE StatCountHi(t)
    <3>1. PICK n : frame' = [frame EXCEPT ![t].pc = "stat_store", ![t].Count = n]
      BY <2>4, Zenon DEF StatCountHi
    <3>2. QED
      BY <1>1, <3>1 DEF Frame
  <2>5. QED
    BY <2>1, <2>2, <2>3, <2>4
<1>3. DmaChannels' = DmaChannels
  BY DEF StatRead, StatClear, StatCountLo, StatCountHi, Out
<1>4. DmaTypeOK /\ Of(c) \in Ctrl /\ StatPort(c) = IoReg(Of(c), StatReg) /\ CountPort(c) = IoCount(c)
  BY <1>1, CallFacts, PortTable
<1>5. /\ \A d \in Chan : Kept(d)
      /\ \A k \in Ctrl \ {Of(c)} : ff'[k] = ff[k]
  <2>1. CASE StatRead(t)
    <3>1. PICK k \in Ctrl :
            /\ ch' = [d \in Chan |-> IF Of(d) = k THEN [ch[d] EXCEPT !.tc = FALSE] ELSE ch[d]]
            /\ ff' = ff
      BY <2>1 DEF StatRead, StatusRead
    <3>2. ASSUME NEW d \in Chan PROVE Kept(d)
      <4>1. ch[d] \in Channel /\ (ch'[d] = ch[d] \/ ch'[d] = [ch[d] EXCEPT !.tc = FALSE])
        BY <1>4, <3>1 DEF DmaTypeOK
      <4>2. QED
        BY <1>3, <4>1 DEF Kept, Channel
    <3>3. QED
      BY <3>1, <3>2
  <2>2. CASE StatClear(t)
    <3>1. ClearFlipFlop(Of(c))
      BY <1>1, <2>2, WriteRouted DEF StatClear, Out
    <3>2. QED
      BY <1>3, <1>4, <3>1 DEF ClearFlipFlop, Kept, DmaTypeOK
  <2>3. CASE StatCountLo(t) \/ StatCountHi(t)
    <3>1. PICK v : PortRead(CountPort(c), v)
      BY <2>3, Zenon DEF StatCountLo, StatCountHi
    <3>2. ch' = ch /\ ff' = [ff EXCEPT ![Of(c)] = 1 - ff[Of(c)]]
      BY <1>1, <1>4, <3>1, PortsDistinct DEF PortRead, Toggle
    <3>3. QED
      BY <1>3, <1>4, <3>2 DEF Kept, DmaTypeOK
  <2>4. QED
    BY <2>1, <2>2, <2>3
<1>6. Progress(t)'
  BY <1>1, <1>2 DEF Progress, AfterMode, AfterAddr, AfterPage, LowNext, HighNext, Rewriting
<1>7. Good(c)'
  <2>1. ~Reprogramming(c)
    BY <1>1, SoleProgrammer DEF Rewriting
  <2>2. QED
    BY <1>1, <1>5, <2>1, CallFacts, GoodKept
<1>8. OnlyIts(t)
  BY <1>1, <1>2, <1>5 DEF OnlyIts
<1>9. QED
  BY <1>6, <1>7, <1>8

-----------------------------------------------------------------------------
(* Steps outside the calls, and the theorems.                              *)

LEMMA StepProceedLocal ==
  ASSUME Exclusive, TypeInv', NEW t \in Tpl, Local(t), Proceed(t),
         NEW c, c = frame[t].Channel
  PROVE  Progress(t)' /\ Good(c)' /\ OnlyIts(t)
<1>1. IsActive(t) \in BOOLEAN
  BY DEF IsActive
<1>2. CASE StartMark(t) \/ StopMark(t) \/ StatStore(t)
  BY <1>1, <1>2, StepMark DEF StartMark, StopMark, StatStore, Rewriting
<1>3. QED
  BY <1>2, StepProgMask, StepProgClear, StepProgMode, StepProgAddrLo, StepProgAddrHi,
     StepProgPage, StepProgCountLo, StepProgCountHi, StepProgStore, StepStartUnmask,
     StepStopMask, StepStatus
  DEF Proceed, Program, Start, Stop, GetStatus

(* A call begins: it touches neither the controllers nor the records, and  *)
(* no other call.                                                          *)
LEMMA CallBegins ==
  ASSUME TypeInv, NEW t \in Tpl, Call(t)
  PROVE  /\ ch' = ch /\ ff' = ff /\ DmaChannels' = DmaChannels /\ frame[t].pc = "idle"
         /\ \A u \in Tpl \ {t} : frame'[u] = frame[u]
         /\ frame'[t].pc \notin Rewriting
         /\ Progress(t)'
<1>2. ch' = ch /\ ff' = ff /\ DmaChannels' = DmaChannels /\ frame[t].pc = "idle"
  BY DEF Call, RefuseChannel, AllocateDmaBuffer, FreeDmaBuffer, ProgramDmaChannel,
         StartDma, GetDmaStatus, StopDma, Free
<1>3. frame \in [Tpl -> Frame]
  BY DEF TypeInv, TypeOK
<1> DEFINE Begun == /\ \A u \in Tpl \ {t} : frame'[u] = frame[u]
                    /\ frame'[t].pc \notin Rewriting
                    /\ Progress(t)'
<1>4. ASSUME NEW s, Return(t, s) PROVE Begun
  BY <1>4, ReturnFrame, ProgressOutside DEF Rewriting
<1>5. ASSUME NEW c \in Owns[t], NEW Mode \in Modes, NEW n \in Counts, NEW auto \in Autos,
             NEW a \in {buf[b].Buffer : b \in Buffers} \cup ClientAddrs,
             ProgramDmaChannel(t, c, Mode, a, n, auto)
      PROVE Begun
  <2>1. CASE Refused(c, a, n)
    BY <1>4, <1>5, <2>1 DEF ProgramDmaChannel
  <2>2. CASE ~Refused(c, a, n)
    <3> DEFINE A == Truncate(a)  N == RoundDown(c, n)  M == DmaMode(c, Mode, auto)
    <3>1. frame' = [frame EXCEPT ![t] = [frame[t] EXCEPT !.pc = "prog_mask", !.Channel = c,
                      !.Address = A, !.Count = N, !.Mode = M]]
      BY <1>5, <2>2 DEF ProgramDmaChannel
    <3>2. M # 0 /\ M % 4 = c % 4
      <4>1. c \in Chan /\ Mode \in 0 .. 255 /\ auto \in BOOLEAN
        BY ConstantAssumption
      <4>2. QED
        BY <4>1, ModeByte, ZenonT(40)
    <3> HIDE DEF A, N, M
    <3>3. frame'[t].pc = "prog_mask" /\ frame'[t].Channel = c /\ frame'[t].Mode = M
      BY <1>3, <3>1 DEF Frame
    <3>4. \A u \in Tpl \ {t} : frame'[u] = frame[u]
      BY <1>3, <3>1
    <3>5. QED
      BY <3>2, <3>3, <3>4
      DEF Progress, AfterMode, AfterAddr, AfterPage, LowNext, HighNext, Rewriting
  <2>3. QED
    BY <2>1, <2>2
<1>6. ASSUME NEW c \in Owns[t], NEW pc, frame' = [frame EXCEPT ![t].pc = pc, ![t].Channel = c],
             pc \in {"start_unmask", "stat_read", "stop_mask"},
             pc = "start_unmask" => DmaChannels[c].Count # 0
      PROVE Begun
  <2>1. frame'[t].pc = pc /\ frame'[t].Channel = c /\ \A u \in Tpl \ {t} : frame'[u] = frame[u]
    BY <1>3, <1>6 DEF Frame
  <2>2. QED
    BY <1>2, <1>6, <2>1
    DEF Progress, AfterMode, AfterAddr, AfterPage, LowNext, HighNext, Rewriting
<1>7. Begun
  <2>1. CASE \E s : Return(t, s)
    BY <1>4, <2>1
  <2>2. ASSUME NEW c \in Owns[t], StartDma(t, c) \/ GetDmaStatus(t, c) \/ StopDma(t, c) PROVE Begun
    BY <1>4, <1>6, <2>2, Zenon DEF StartDma, GetDmaStatus, StopDma
  <2>3. QED
    BY <1>5, <2>1, <2>2, Zenon DEF Call, RefuseChannel, AllocateDmaBuffer, FreeDmaBuffer
<1>8. QED
  BY <1>2, <1>7

(* A bus cycle may mask its channel, and touches no base register.         *)
LEMMA CycleKeeps ==
  ASSUME TypeInv, NEW c \in Chan, BusCycle(c)
  PROVE  /\ TypeInv' /\ frame' = frame /\ ff' = ff /\ DmaChannels' = DmaChannels
         /\ \A d \in Chan : Kept(d)
<1>1. TypeInv'
  BY TransferTypes DEF BusCycle, TypeInv, TypeOK
<1>2. /\ frame' = frame /\ DmaChannels' = DmaChannels /\ ff' = ff
      /\ ch' = [ch EXCEPT ![c] = Cycle(ch[c])] /\ ~ch[c].mask
  BY DEF BusCycle, Transfer, Granted
<1>3. ch \in [Chan -> Channel]
  BY DEF TypeInv, TypeOK, DmaTypeOK
<1>4. /\ Cycle(ch[c]).mode = ch[c].mode /\ Cycle(ch[c]).page = ch[c].page
      /\ Cycle(ch[c]).baseAddr = ch[c].baseAddr /\ Cycle(ch[c]).baseCount = ch[c].baseCount
  BY <1>3 DEF Cycle, Channel
<1>5. ASSUME NEW d \in Chan PROVE Kept(d)
  BY <1>2, <1>3, <1>4 DEF Kept
<1>6. QED
  BY <1>1, <1>2, <1>5

LEMMA SafetyLocal ==
  ASSUME SafetyInv
  PROVE  Owners /\ \A t \in Tpl : Local(t) /\ frame[t].Channel \in Chan
<1>1. Owners
  BY DEF SafetyInv, Owners, Progress
<1>2. \A t \in Tpl : frame[t].Channel \in Chan
  BY DEF SafetyInv, TypeInv, TypeOK, Frame
<1>3. QED
  BY <1>1, <1>2 DEF SafetyInv, Local

LEMMA StepProceed ==
  ASSUME Exclusive, SafetyInv, NEW t \in Tpl, Proceed(t)
  PROVE  SafetyInv'
<1> DEFINE c == frame[t].Channel
<1>1. TypeInv'
  BY ProceedTypes DEF SafetyInv
<1>0. Local(t) /\ c \in Chan
  BY SafetyLocal
<1>2. Progress(t)' /\ OnlyIts(t) /\ \A d : d = c => Good(d)'
  BY <1>0, <1>1, StepProceedLocal
<1>3. ASSUME NEW u \in Tpl PROVE Progress(u)'
  BY <1>2, SafetyLocal, OtherProgressKept DEF SafetyInv
<1>4. ASSUME NEW d \in Chan PROVE Good(d)'
  BY <1>2, OtherGoodKept DEF SafetyInv
<1>5. QED
  BY <1>1, <1>3, <1>4 DEF SafetyInv

LEMMA StepCall ==
  ASSUME Exclusive, SafetyInv, NEW t \in Tpl, Call(t)
  PROVE  SafetyInv'
<1>1. TypeInv'
  BY CallTypes DEF SafetyInv
<1>2. TypeInv
  BY DEF SafetyInv
<1>3. ASSUME NEW d \in Chan PROVE Kept(d) /\ (Reprogramming(d) => Reprogramming(d)')
  BY <1>2, CallBegins DEF Kept, Reprogramming, Rewriting
<1>4. \A u \in Tpl \ {t} : Progress(u)'
  BY <1>2, <1>3, CallBegins, SafetyLocal, ProgressKept DEF SafetyInv
<1>5. \A d \in Chan : Good(d)'
  BY <1>3, GoodKept DEF SafetyInv
<1>6. QED
  BY <1>1, <1>2, <1>4, <1>5, CallBegins DEF SafetyInv

LEMMA StepBusCycle ==
  ASSUME Exclusive, SafetyInv, NEW c \in Chan, BusCycle(c)
  PROVE  SafetyInv'
<1>1. TypeInv
  BY DEF SafetyInv
<1>2. \A t \in Tpl : Progress(t)'
  BY <1>1, CycleKeeps, SafetyLocal, ProgressKept DEF SafetyInv
<1>3. \A d \in Chan : Good(d)'
  BY <1>1, CycleKeeps, GoodKept DEF SafetyInv, Reprogramming
<1>4. QED
  BY <1>1, <1>2, <1>3, CycleKeeps DEF SafetyInv

LEMMA SafetyInit == Init => SafetyInv
<1> SUFFICES ASSUME Init PROVE SafetyInv
  OBVIOUS
<1>1. \A t \in Tpl : frame[t].pc = "idle"
  BY DEF Init, Returned
<1>2. \A t \in Tpl : Progress(t)
  BY <1>1 DEF Progress, AfterMode, AfterAddr, AfterPage, LowNext, HighNext, Rewriting
<1>3. \A c \in Chan : DmaChannels[c].Count = 0 /\ DmaChannels[c].Mode = 0
  BY DEF Init
<1>4. \A c \in Chan : c # 4 => ch[c].mask
  BY ControllersStart DEF Init
<1>5. \A c \in Chan : Good(c)
  BY <1>3, <1>4 DEF Good, Programmed
<1>6. QED
  BY <1>2, <1>5, InitTypes DEF SafetyInv

LEMMA SafetyStep == Exclusive /\ SafetyInv /\ [Next]_vars => SafetyInv'
<1> SUFFICES ASSUME Exclusive, SafetyInv, [Next]_vars PROVE SafetyInv'
  OBVIOUS
<1>1. CASE UNCHANGED vars
  <2>1. /\ frame' = frame /\ DmaChannels' = DmaChannels /\ ff' = ff /\ ch' = ch /\ buf' = buf
    BY <1>1 DEF vars
  <2>2. TypeInv'
    BY <2>1 DEF SafetyInv, TypeInv, TypeOK, DmaTypeOK
  <2>3. \A t \in Tpl : Progress(t)'
    BY <2>1, ProgressKept DEF SafetyInv, Kept
  <2>4. \A d \in Chan : Good(d)'
    BY <2>1 DEF SafetyInv, Good, Programmed, Loaded, Reprogramming
  <2>5. QED
    BY <2>2, <2>3, <2>4 DEF SafetyInv
<1>2. QED
  BY <1>1, StepCall, StepProceed, StepBusCycle DEF Next

(* The invariant holds in every execution.                                 *)
THEOREM SafetyInvariant == ASSUME Exclusive PROVE Spec => []SafetyInv
BY SafetyInit, SafetyStep, PTL DEF Spec

(* For any number of callers that keep to controllers of their own, any    *)
(* width of the registers and any arguments: between calls, every register *)
(* of a programmed channel holds what the driver recorded.  No preemption, *)
(* bus cycle or status read puts a byte into the wrong half of a register. *)
THEOREM RegistersMatch == ASSUME Exclusive PROVE Spec => []RegistersMatchRecord
<1>1. SafetyInv => RegistersMatchRecord
  BY DEF SafetyInv, Good, RegistersMatchRecord
<1>2. QED
  BY <1>1, SafetyInvariant, PTL

(* LegacyDmaProgramChannel never exposes a half-written channel.           *)
THEOREM NeverHalfWritten == ASSUME Exclusive PROVE Spec => []MaskedWhileRewritten
<1>1. SafetyInv => MaskedWhileRewritten
  BY DEF SafetyInv, Progress, MaskedWhileRewritten, Reprogramming
<1>2. QED
  BY <1>1, SafetyInvariant, PTL

(* No channel the driver has not programmed with a transfer is enabled.    *)
THEOREM EnabledIsProgrammed == ASSUME Exclusive PROVE Spec => []EnabledOnlyIfProgrammed
<1>1. SafetyInv => EnabledOnlyIfProgrammed
  BY DEF SafetyInv, Good, EnabledOnlyIfProgrammed
<1>2. QED
  BY <1>1, SafetyInvariant, PTL

-----------------------------------------------------------------------------
(* What a step of a call may never do to other channels, and which steps   *)
(* may enable a channel.  First, whose step it is.                         *)

(* A step of u's changes no other caller's call.                           *)
LEMMA OthersCallsKept ==
  ASSUME TypeInv, NEW t \in Tpl, NEW u \in Tpl \ {t}, Call(u) \/ Proceed(u)
  PROVE  frame'[t] = frame[t]
<1>1. frame \in [Tpl -> Frame]
  BY DEF TypeInv, TypeOK
<1>2. ASSUME NEW s, Return(u, s) PROVE frame'[t] = frame[t]
  BY <1>1, <1>2 DEF Return
<1>3. ASSUME NEW pc, Goto(u, pc) PROVE frame'[t] = frame[t]
  BY <1>1, <1>3 DEF Goto
<1>4. CASE Call(u)
  <2>1. ASSUME NEW c, NEW Mode, NEW a, NEW n, NEW auto, ProgramDmaChannel(u, c, Mode, a, n, auto)
        PROVE  frame'[t] = frame[t]
    <3>1. CASE Refused(c, a, n)
      BY <1>2, <2>1, <3>1, Zenon DEF ProgramDmaChannel
    <3>2. CASE ~Refused(c, a, n)
      <4>1. PICK f : frame' = [frame EXCEPT ![u] = f]
        BY <2>1, <3>2, Zenon DEF ProgramDmaChannel
      <4>2. QED
        BY <1>1, <4>1
    <3>3. QED
      BY <3>1, <3>2
  <2>2. ASSUME NEW c, StartDma(u, c) \/ GetDmaStatus(u, c) \/ StopDma(u, c) PROVE frame'[t] = frame[t]
    BY <1>1, <1>2, <2>2 DEF StartDma, GetDmaStatus, StopDma
  <2>3. ASSUME NEW b, NEW n, AllocateDmaBuffer(u, b, n) \/ FreeDmaBuffer(u, b) PROVE frame'[t] = frame[t]
    BY <1>2, <2>3, Zenon DEF AllocateDmaBuffer, FreeDmaBuffer
  <2>4. QED
    BY <1>2, <1>4, <2>1, <2>2, <2>3, Zenon DEF Call, RefuseChannel
<1>5. CASE Program(u) \/ Start(u) \/ Stop(u)
  BY <1>2, <1>3, <1>5, Zenon
  DEF Program, Start, Stop, ProgMask, ProgClear, ProgMode, ProgAddrLo, ProgAddrHi, ProgPage,
      ProgCountLo, ProgCountHi, ProgStore, StartUnmask, StartMark, StopMask, StopMark, Out, Mark
<1>6. CASE GetStatus(u)
  <2>1. CASE StatClear(u) \/ StatStore(u)
    BY <1>2, <1>3, <2>1, Zenon DEF StatClear, StatStore, Out, Mark
  <2>2. CASE StatRead(u) \/ StatCountLo(u) \/ StatCountHi(u)
    BY <1>1, <2>2 DEF StatRead, StatCountLo, StatCountHi
  <2>3. QED
    BY <1>6, <2>1, <2>2 DEF GetStatus
<1>7. QED
  BY <1>4, <1>5, <1>6 DEF Proceed

(* A call changes by a step of its own; it begins outside the driver, so   *)
(* that one in progress proceeds.                                          *)
LEMMA ChangedIsOwn ==
  ASSUME TypeInv, [Next]_vars, NEW t \in Tpl, frame'[t] # frame[t]
  PROVE  Call(t) \/ Proceed(t)
<1>1. PICK u \in Tpl : Call(u) \/ Proceed(u)
  BY DEF Next, vars, BusCycle
<1>2. QED
  BY <1>1, OthersCallsKept

LEMMA ChangedProceeds ==
  ASSUME TypeInv, [Next]_vars, NEW t \in Tpl, frame[t].pc # "idle", frame'[t] # frame[t]
  PROVE  Proceed(t)
<1>1. ~Call(t)
  BY Zenon DEF Call, RefuseChannel, AllocateDmaBuffer, FreeDmaBuffer, ProgramDmaChannel,
               StartDma, GetDmaStatus, StopDma, Free
<1>2. QED
  BY <1>1, ChangedIsOwn

-----------------------------------------------------------------------------
(* What a step may change of other channels.                               *)

Programming(t) == frame[t].pc \in Rewriting \cup {"prog_mask"}

(* The mode byte a call carries names its channel: all that routing needs  *)
(* of the past, and true however callers share controllers.                *)
RouteInv ==
  /\ TypeInv
  /\ \A t \in Tpl : Programming(t) => frame[t].Mode % 4 = frame[t].Channel % 4

Same(t) == \A d \in Chan \ {frame[t].Channel} : ch'[d] = ch[d] /\ DmaChannels'[d] = DmaChannels[d]

Untouched(t) ==
  \A c \in Chan \ {frame[t].Channel} :
    /\ DmaChannels'[c] = DmaChannels[c]
    /\ ch'[c] = [ch[c] EXCEPT !.tc = ch'[c].tc]
    /\ ch'[c].tc # ch[c].tc => Of(c) = Of(frame[t].Channel)

LEMMA SameUntouched ==
  ASSUME TypeInv, NEW t \in Tpl, Same(t)
  PROVE  Untouched(t)
<1>1. ch \in [Chan -> Channel]
  BY DEF TypeInv, TypeOK, DmaTypeOK
<1>2. ASSUME NEW r \in Channel PROVE r = [r EXCEPT !.tc = r.tc]
  BY DEF Channel
<1>3. QED
  BY <1>1, <1>2 DEF Same, Untouched

(* Every port write of the driver lands on its own channel or controller.  *)
LEMMA WritesSame ==
  ASSUME RouteInv, NEW t \in Tpl, Program(t) \/ Start(t) \/ Stop(t) \/ StatClear(t) \/ StatStore(t)
  PROVE  Same(t)
<1> DEFINE c == frame[t].Channel
<1>1. /\ c \in Chan /\ frame[t].Mode \in Nat /\ DmaTypeOK /\ DmaChannels \in [Chan -> ChannelInfo]
      /\ 4 \in {0, 4} /\ 0 + (c % 4) = c % 4
  BY DEF RouteInv, TypeInv, TypeOK, Frame, Chan
<1> HIDE DEF c
<1>2. ASSUME Others(c), DmaChannels' = DmaChannels PROVE Same(t)
  BY <1>2 DEF Same, Others, c
<1>3. ASSUME NEW pc, NEW set \in {0, 4}, Out(t, MaskPort(c), set + (c % 4), pc) PROVE Same(t)
  <2>1. WriteMask(Of(c), set + (c % 4))
    BY <1>1, <1>3, WriteRouted DEF Out
  <2>2. QED
    BY <1>1, <1>2, <1>3, <2>1, MaskWritten DEF Out
<1>4. CASE ProgMask(t) \/ StopMask(t)
  BY <1>1, <1>3, <1>4, Zenon DEF ProgMask, StopMask, c
<1>5. CASE StartUnmask(t)
  BY <1>1, <1>3, <1>5 DEF StartUnmask, c
<1>6. CASE ProgClear(t) \/ StatClear(t)
  <2>1. PICK pc : Out(t, ClearPort(c), 255, pc)
    BY <1>6, Zenon DEF ProgClear, StatClear, c
  <2>2. ClearFlipFlop(Of(c))
    BY <1>1, <2>1, WriteRouted DEF Out
  <2>3. QED
    BY <1>2, <2>1, <2>2 DEF ClearFlipFlop, Others, Out
<1>7. CASE ProgMode(t)
  <2>1. At(t, "prog_mode") /\ Out(t, ModePort(c), frame[t].Mode, "prog_addr_lo")
    BY <1>7, Zenon DEF ProgMode, c
  <2>2. frame[t].Mode % 4 = c % 4
    BY <2>1 DEF At, RouteInv, Programming, Rewriting, c
  <2>3. WriteMode(Of(c), frame[t].Mode)
    BY <1>1, <2>1, WriteRouted DEF Out
  <2>4. QED
    BY <1>1, <1>2, <2>1, <2>2, <2>3, ModeWritten DEF Out
<1>8. CASE ProgAddrLo(t) \/ ProgAddrHi(t)
  <2>1. PICK v, pc : Out(t, AddrPort(c), v, pc)
    BY <1>8, Zenon DEF ProgAddrLo, ProgAddrHi, c
  <2>2. QED
    BY <1>1, <1>2, <2>1, WriteRouted, AddrWritten DEF Out
<1>9. CASE ProgPage(t)
  <2>1. PICK v, pc : Out(t, PagePort(c), v, pc)
    BY <1>9, Zenon DEF ProgPage, c
  <2>2. QED
    BY <1>1, <1>2, <2>1, WriteRouted, PageWritten DEF Out
<1>10. CASE ProgCountLo(t) \/ ProgCountHi(t)
  <2>1. PICK v, pc : Out(t, CountPort(c), v, pc)
    BY <1>10, Zenon DEF ProgCountLo, ProgCountHi, c
  <2>2. QED
    BY <1>1, <1>2, <2>1, WriteRouted, CountWritten DEF Out
<1>11. CASE ProgStore(t) \/ StartMark(t) \/ StopMark(t) \/ StatStore(t)
  <2>1. ch' = ch /\ \E d : DmaChannels' = [DmaChannels EXCEPT ![c] = d]
    BY <1>11, Zenon DEF ProgStore, StartMark, StopMark, StatStore, Mark, c
  <2>2. QED
    BY <1>1, <2>1 DEF Same, c
<1>12. QED
  BY <1>4, <1>5, <1>6, <1>7, <1>8, <1>9, <1>10, <1>11 DEF Program, Start, Stop

(* The reads of a status call: only the first changes the channels, and of *)
(* them only the terminal-count bits of the controller it asks.            *)
LEMMA ReadsUntouched ==
  ASSUME RouteInv, NEW t \in Tpl, StatRead(t) \/ StatCountLo(t) \/ StatCountHi(t)
  PROVE  Untouched(t)
<1> DEFINE c == frame[t].Channel
<1>1. c \in Chan /\ ch \in [Chan -> Channel] /\ DmaChannels' = DmaChannels
  BY DEF RouteInv, TypeInv, TypeOK, DmaTypeOK, Frame, StatRead, StatCountLo, StatCountHi
<1>2. CASE StatCountLo(t) \/ StatCountHi(t)
  <2>1. ch' = ch
    BY <1>2, Zenon DEF StatCountLo, StatCountHi, PortRead
  <2>2. QED
    BY <1>1, <2>1, SameUntouched DEF Same, RouteInv
<1>3. CASE StatRead(t)
  <2>1. PICK bits : StatusRead(StatPort(c), bits)
    BY <1>3, Zenon DEF StatRead
  <2>2. PICK k \in Ctrl : StatPort(c) = IoReg(k, StatReg)
                          /\ ch' = [d \in Chan |-> IF Of(d) = k THEN [ch[d] EXCEPT !.tc = FALSE] ELSE ch[d]]
    BY <2>1 DEF StatusRead
  <2>3. k = Of(c)
    BY <1>1, <2>2, PortTable DEF IoReg, StatReg, Of, Ctrl
  <2>4. ASSUME NEW d \in Chan
        PROVE  /\ ch'[d] = [ch[d] EXCEPT !.tc = ch'[d].tc]
               /\ ch'[d].tc # ch[d].tc => Of(d) = Of(c)
    <3>1. CASE Of(d) = k
      <4>1. ch'[d] = [ch[d] EXCEPT !.tc = FALSE] /\ ch[d] \in Channel
        BY <1>1, <2>2, <3>1
      <4>2. ch'[d].tc = FALSE
        BY <4>1 DEF Channel
      <4>3. QED
        BY <2>3, <3>1, <4>1, <4>2
    <3>2. CASE Of(d) # k
      <4>1. ch'[d] = ch[d] /\ ch[d] \in Channel
        BY <1>1, <2>2, <3>2
      <4>2. QED
        BY <4>1 DEF Channel
    <3>3. QED
      BY <3>1, <3>2
  <2>5. QED
    BY <1>1, <2>4 DEF Untouched
<1>4. QED
  BY <1>2, <1>3

(* A programming begins with the mode byte LegacyDmaProgramChannel makes.  *)
LEMMA ProgramBegins ==
  ASSUME TypeInv, NEW t \in Tpl, Call(t), Programming(t)'
  PROVE  \E c \in Chan, Mode \in 0 .. 255, auto \in BOOLEAN :
           frame'[t].Channel = c /\ frame'[t].Mode = DmaMode(c, Mode, auto)
<1>1. frame \in [Tpl -> Frame] /\ frame[t] \in Frame
  BY DEF TypeInv, TypeOK
<1>2. \A s : ~Return(t, s)
  BY <1>1 DEF Return, Returned, Rewriting, Programming
<1>3. \A c : ~StartDma(t, c) /\ ~GetDmaStatus(t, c) /\ ~StopDma(t, c)
  <2> SUFFICES ASSUME NEW c, NEW pc \in {"start_unmask", "stat_read", "stop_mask"},
                      frame' = [frame EXCEPT ![t].pc = pc, ![t].Channel = c]
               PROVE  FALSE
    BY <1>2, Zenon DEF StartDma, GetDmaStatus, StopDma
  <2>1. frame'[t].pc = pc
    BY <1>1 DEF Frame
  <2>2. QED
    BY <2>1 DEF Rewriting, Programming
<1>4. PICK c \in Owns[t], Mode \in Modes, n \in Counts, auto \in Autos,
           a \in {buf[b].Buffer : b \in Buffers} \cup ClientAddrs :
         ProgramDmaChannel(t, c, Mode, a, n, auto)
  BY <1>2, <1>3, Zenon DEF Call, RefuseChannel, AllocateDmaBuffer, FreeDmaBuffer
<1>5. ~Refused(c, a, n)
  BY <1>2, <1>4, Zenon DEF ProgramDmaChannel
<1> DEFINE A == Truncate(a)  N == RoundDown(c, n)  M == DmaMode(c, Mode, auto)
<1>6. frame' = [frame EXCEPT ![t] = [frame[t] EXCEPT !.pc = "prog_mask", !.Channel = c,
                  !.Address = A, !.Count = N, !.Mode = M]]
  BY <1>4, <1>5 DEF ProgramDmaChannel
<1>7. c \in Chan /\ Mode \in 0 .. 255 /\ auto \in BOOLEAN
  BY ConstantAssumption
<1>8. frame'[t].Channel = c /\ frame'[t].Mode = M
  <2> HIDE DEF A, N, M
  <2>1. QED
    BY <1>1, <1>6 DEF Frame
<1>9. QED
  BY <1>7, <1>8

(* It goes on with the mode byte and the channel it has.                   *)
LEMMA ProgramGoesOn ==
  ASSUME TypeInv, NEW t \in Tpl, Proceed(t), Programming(t)'
  PROVE  Programming(t) /\ frame'[t].Mode = frame[t].Mode /\ frame'[t].Channel = frame[t].Channel
<1>1. frame \in [Tpl -> Frame] /\ frame[t] \in Frame
  BY DEF TypeInv, TypeOK
<1>2. \A s : ~Return(t, s)
  BY <1>1 DEF Return, Returned, Rewriting, Programming
<1>3. ASSUME NEW pc, Goto(t, pc)
      PROVE  frame'[t].pc = pc /\ frame'[t].Mode = frame[t].Mode /\ frame'[t].Channel = frame[t].Channel
  BY <1>1, <1>3 DEF Goto, Frame
<1>4. CASE Program(t)
  <2>1. PICK pc \in Pc : Goto(t, pc) /\ frame[t].pc \in Rewriting \cup {"prog_mask"}
    BY <1>2, <1>4 DEF Program, ProgMask, ProgClear, ProgMode, ProgAddrLo, ProgAddrHi, ProgPage,
         ProgCountLo, ProgCountHi, ProgStore, Out, At, Rewriting, Pc
  <2>2. QED
    BY <1>3, <2>1 DEF Programming
<1>5. ~Start(t) /\ ~Stop(t) /\ ~StatClear(t) /\ ~StatStore(t)
  BY <1>2, <1>3 DEF Start, Stop, StartUnmask, StartMark, StopMask, StopMark, StatClear, StatStore,
       Mark, Out, Rewriting, Programming
<1>6. ~StatRead(t) /\ ~StatCountLo(t) /\ ~StatCountHi(t)
  BY <1>1 DEF StatRead, StatCountLo, StatCountHi, Frame, Rewriting, Programming
<1>7. QED
  BY <1>4, <1>5, <1>6 DEF Proceed, GetStatus

LEMMA RouteInit == Init => RouteInv
BY InitTypes DEF Init, RouteInv, Returned, Programming, Rewriting

LEMMA TypeStep == TypeInv /\ [Next]_vars => TypeInv'
<1> SUFFICES ASSUME TypeInv, [Next]_vars PROVE TypeInv'
  OBVIOUS
<1>1. ASSUME NEW c \in Chan, BusCycle(c) PROVE TypeInv'
  BY <1>1, TransferTypes DEF BusCycle, TypeInv, TypeOK
<1>2. CASE UNCHANGED vars
  BY <1>2 DEF vars, TypeInv, TypeOK, DmaTypeOK
<1>3. QED
  BY <1>1, <1>2, CallTypes, ProceedTypes DEF Next

LEMMA RouteStep == RouteInv /\ [Next]_vars => RouteInv'
<1> SUFFICES ASSUME RouteInv, [Next]_vars PROVE RouteInv'
  OBVIOUS
<1>1. TypeInv'
  BY TypeStep DEF RouteInv
<1>2. ASSUME NEW t \in Tpl, Programming(t)' PROVE frame'[t].Mode % 4 = frame'[t].Channel % 4
  <2>1. CASE frame'[t] = frame[t]
    BY <1>2, <2>1 DEF RouteInv, Programming
  <2>2. CASE frame'[t] # frame[t]
    <3>1. Call(t) \/ Proceed(t)
      BY <2>2, ChangedIsOwn DEF RouteInv
    <3>2. CASE Call(t)
      <4>1. PICK c \in Chan, Mode \in 0 .. 255, auto \in BOOLEAN :
              frame'[t].Channel = c /\ frame'[t].Mode = DmaMode(c, Mode, auto)
        BY <1>2, <3>2, ProgramBegins DEF RouteInv
      <4>2. DmaMode(c, Mode, auto) % 4 = c % 4
        BY ModeByte, ZenonT(40)
      <4>3. QED
        BY <4>1, <4>2
    <3>3. CASE Proceed(t)
      BY <1>2, <3>3, ProgramGoesOn DEF RouteInv
    <3>4. QED
      BY <3>1, <3>2, <3>3
  <2>3. QED
    BY <2>1, <2>2
<1>3. QED
  BY <1>1, <1>2 DEF RouteInv

(* Whatever channels the callers use, share or fight over, a step of a call*)
(* changes no record and no register of another channel than its own, but  *)
(* for terminal-count bits of the controller a status call asks.           *)
THEOREM OthersUntouched == Spec => OtherChannelsUntouched
<1>1. RouteInv /\ [Next]_vars =>
        [\A t \in Tpl : frame[t].pc # "idle" /\ frame'[t] # frame[t] =>
           \A c \in Chan \ {frame[t].Channel} :
             /\ DmaChannels'[c] = DmaChannels[c]
             /\ ch'[c] = [ch[c] EXCEPT !.tc = ch'[c].tc]
             /\ ch'[c].tc # ch[c].tc => Of(c) = Of(frame[t].Channel)]_vars
  <2> SUFFICES ASSUME RouteInv, [Next]_vars, NEW t \in Tpl, frame[t].pc # "idle", frame'[t] # frame[t]
               PROVE  Untouched(t)
    BY DEF Untouched
  <2>1. Proceed(t)
    BY ChangedProceeds DEF RouteInv
  <2>2. QED
    BY <2>1, WritesSame, SameUntouched, ReadsUntouched DEF Proceed, GetStatus, RouteInv
<1>2. QED
  BY <1>1, RouteInit, RouteStep, PTL DEF Spec, OtherChannelsUntouched

-----------------------------------------------------------------------------
(* Which steps may enable a channel.                                       *)

(* A step that is no StartUnmask opens no channel.                         *)
LEMMA OnlyUnmaskOpens ==
  ASSUME RouteInv, [Next]_vars, NEW c \in Chan, ch[c].mask, ~ch'[c].mask
  PROVE  \E t \in Tpl : StartUnmask(t) /\ frame[t].Channel = c
<1>1. ch \in [Chan -> Channel] /\ DmaTypeOK
  BY DEF RouteInv, TypeInv, TypeOK, DmaTypeOK
<1>2. ch' # ch
  OBVIOUS
<1>3. \A d \in Chan : ~BusCycle(d)
  BY <1>1 DEF BusCycle, Transfer, Granted, Cycle
<1>4. PICK t \in Tpl : Proceed(t)
  <2>1. ~UNCHANGED vars
    BY <1>2 DEF vars
  <2>2. PICK t \in Tpl : Call(t) \/ Proceed(t)
    BY <1>3, <2>1, Zenon DEF Next
  <2>3. Call(t) => UNCHANGED ch
    BY Zenon DEF Call, RefuseChannel, AllocateDmaBuffer, FreeDmaBuffer,
         ProgramDmaChannel, StartDma, GetDmaStatus, StopDma
  <2>4. QED
    BY <1>2, <2>2, <2>3, Zenon
<1> DEFINE e == frame[t].Channel
<1>5. e \in Chan /\ frame[t].Mode \in Nat /\ 4 \in {0, 4}
  BY DEF RouteInv, TypeInv, TypeOK, Frame
<1> HIDE DEF e
<1>6. ~StatRead(t)
  <2> SUFFICES ASSUME StatRead(t) PROVE FALSE
    OBVIOUS
  <2>1. PICK k \in Ctrl : ch' = [d \in Chan |-> IF Of(d) = k THEN [ch[d] EXCEPT !.tc = FALSE] ELSE ch[d]]
    BY Zenon DEF StatRead, StatusRead
  <2>2. QED
    BY <1>1, <2>1 DEF Channel
<1>7. ~StatCountLo(t) /\ ~StatCountHi(t)
  BY <1>2, Zenon DEF StatCountLo, StatCountHi, PortRead
<1>8. Program(t) \/ Start(t) \/ Stop(t) \/ StatClear(t) \/ StatStore(t)
  BY <1>4, <1>6, <1>7 DEF Proceed, GetStatus
<1>9. e = c
  BY <1>2, <1>8, WritesSame DEF Same, e
<1>10. ASSUME NEW pc, Out(t, MaskPort(e), 4 + (e % 4), pc) PROVE FALSE
  <2>1. WriteMask(Of(e), 4 + (e % 4))
    BY <1>5, <1>10, WriteRouted DEF Out
  <2>2. QED
    BY <1>1, <1>5, <1>9, <2>1, MaskWritten
<1>11. ~ProgMask(t) /\ ~StopMask(t)
  BY <1>10, Zenon DEF ProgMask, StopMask, e
<1>12. ~ProgClear(t) /\ ~StatClear(t)
  <2> SUFFICES ASSUME NEW pc, Out(t, ClearPort(e), 255, pc) PROVE FALSE
    BY Zenon DEF ProgClear, StatClear, e
  <2>1. ClearFlipFlop(Of(e))
    BY <1>5, WriteRouted DEF Out
  <2>2. QED
    BY <1>2, <2>1 DEF ClearFlipFlop
<1>13. ~ProgMode(t)
  <2> SUFFICES ASSUME ProgMode(t) PROVE FALSE
    OBVIOUS
  <2>1. At(t, "prog_mode") /\ Out(t, ModePort(e), frame[t].Mode, "prog_addr_lo")
    BY Zenon DEF ProgMode, e
  <2>2. frame[t].Mode % 4 = e % 4
    BY <2>1 DEF At, RouteInv, Programming, Rewriting, e
  <2>3. WriteMode(Of(e), frame[t].Mode)
    BY <1>5, <2>1, WriteRouted DEF Out
  <2>4. QED
    BY <1>1, <1>5, <1>9, <2>2, <2>3, ModeWritten
<1>14. ~ProgAddrLo(t) /\ ~ProgAddrHi(t)
  <2> SUFFICES ASSUME NEW v, NEW pc, Out(t, AddrPort(e), v, pc) PROVE FALSE
    BY Zenon DEF ProgAddrLo, ProgAddrHi, e
  <2>1. QED
    BY <1>1, <1>5, <1>9, WriteRouted, AddrWritten DEF Out
<1>15. ~ProgPage(t)
  <2> SUFFICES ASSUME NEW v, NEW pc, Out(t, PagePort(e), v, pc) PROVE FALSE
    BY Zenon DEF ProgPage, e
  <2>1. QED
    BY <1>1, <1>5, <1>9, WriteRouted, PageWritten DEF Out
<1>16. ~ProgCountLo(t) /\ ~ProgCountHi(t)
  <2> SUFFICES ASSUME NEW v, NEW pc, Out(t, CountPort(e), v, pc) PROVE FALSE
    BY Zenon DEF ProgCountLo, ProgCountHi, e
  <2>1. QED
    BY <1>1, <1>5, <1>9, WriteRouted, CountWritten DEF Out
<1>17. ~ProgStore(t) /\ ~StartMark(t) /\ ~StopMark(t) /\ ~StatStore(t)
  BY <1>2, Zenon DEF ProgStore, StartMark, StopMark, StatStore, Mark
<1>18. QED
  BY <1>8, <1>9, <1>11, <1>12, <1>13, <1>14, <1>15, <1>16, <1>17 DEF Program, Start, Stop, e

(* If no two callers share a controller, a channel is only ever enabled by *)
(* LegacyDmaStart, and at its mask write the record it checked on entry    *)
(* still holds a programmed transfer.                                      *)
THEOREM OnlyStart == ASSUME Exclusive PROVE Spec => OnlyStartEnables
<1>1. RouteInv /\ SafetyInv /\ [Next]_vars =>
        [\A c \in Chan : ch[c].mask /\ ~ch'[c].mask =>
           /\ DmaChannels[c].Count # 0
           /\ \E t \in Tpl : frame[t].pc = "start_unmask" /\ frame[t].Channel = c]_vars
  <2> SUFFICES ASSUME RouteInv, SafetyInv, [Next]_vars, NEW c \in Chan, ch[c].mask, ~ch'[c].mask
               PROVE  /\ DmaChannels[c].Count # 0
                      /\ \E t \in Tpl : frame[t].pc = "start_unmask" /\ frame[t].Channel = c
    OBVIOUS
  <2>1. PICK t \in Tpl : StartUnmask(t) /\ frame[t].Channel = c
    BY OnlyUnmaskOpens
  <2>2. frame[t].pc = "start_unmask"
    BY <2>1 DEF StartUnmask, At
  <2>3. QED
    BY <2>1, <2>2 DEF SafetyInv, Progress
<1>2. QED
  BY <1>1, RouteInit, RouteStep, SafetyInvariant, PTL DEF Spec, OnlyStartEnables

-----------------------------------------------------------------------------
(* Open channels are served.                                               *)

(* The hypothesis: no caller uses channel 4, through which controller 0    *)
(* reaches the bus.                                                        *)
CascadeUnused == \A t \in Tpl : 4 \notin Owns[t]

(* The mode bytes of the driver ask for single mode, and channel 4 stays   *)
(* as the firmware left it.                                                *)
SingleMode == 64 .. 127
ServeInv ==
  /\ \A t \in Tpl : Programming(t) => frame[t].Mode \in SingleMode
  /\ \A c \in Chan : DmaChannels[c].Mode \in SingleMode \cup {0}
  /\ ~ch[4].mask /\ Cascaded(ch[4])

LEMMA ModeSingle ==
  ASSUME NEW c \in Chan, NEW Mode \in 0 .. 255, NEW auto \in BOOLEAN
  PROVE  DmaMode(c, Mode, auto) \in SingleMode
<1>1. (Mode \div 4) % 4 \in 0 .. 3 /\ c % 4 \in 0 .. 3
  BY DEF Chan
<1>2. QED
  BY <1>1 DEF DmaMode, SingleMode

(* DmaChannels changes where a programming or a mark stores it.            *)
LEMMA RecordMode ==
  ASSUME TypeInv, [Next]_vars, NEW c \in Chan
  PROVE  \/ DmaChannels'[c].Mode = DmaChannels[c].Mode
         \/ \E t \in Tpl : Programming(t) /\ DmaChannels'[c].Mode = frame[t].Mode
<1>1. DmaChannels \in [Chan -> ChannelInfo] /\ \A t \in Tpl : frame[t].Channel \in Chan
  BY DEF TypeInv, TypeOK, Frame
<1>2. ASSUME NEW t \in Tpl, NEW pc, NEW b, Mark(t, pc, b) PROVE DmaChannels'[c].Mode = DmaChannels[c].Mode
  BY <1>1, <1>2 DEF Mark, ChannelInfo
<1>3. ASSUME NEW t \in Tpl, ProgStore(t)
      PROVE  \/ DmaChannels'[c].Mode = DmaChannels[c].Mode
             \/ Programming(t) /\ DmaChannels'[c].Mode = frame[t].Mode
  BY <1>1, <1>3 DEF ProgStore, At, Programming, Rewriting
<1>4. CASE DmaChannels' = DmaChannels
  BY <1>4
<1>5. ASSUME DmaChannels' # DmaChannels
      PROVE  \E t \in Tpl : ProgStore(t) \/ \E pc, b : Mark(t, pc, b)
  <2>0. \A t \in Tpl : ~Call(t)
    <3> SUFFICES ASSUME NEW t \in Tpl, Call(t) PROVE DmaChannels' = DmaChannels
      BY <1>5
    <3>1. /\ RefuseChannel(t) => DmaChannels' = DmaChannels
          /\ \A x, y : AllocateDmaBuffer(t, x, y) => DmaChannels' = DmaChannels
          /\ \A x : FreeDmaBuffer(t, x) => DmaChannels' = DmaChannels
      BY Zenon DEF RefuseChannel, AllocateDmaBuffer, FreeDmaBuffer
    <3>2. \A c2, m, a, n, x : ProgramDmaChannel(t, c2, m, a, n, x) => DmaChannels' = DmaChannels
      BY Zenon DEF ProgramDmaChannel
    <3>3. \A c2 : StartDma(t, c2) \/ GetDmaStatus(t, c2) \/ StopDma(t, c2) => DmaChannels' = DmaChannels
      BY Zenon DEF StartDma, GetDmaStatus, StopDma
    <3>4. QED
      BY <3>1, <3>2, <3>3, Zenon DEF Call
  <2>1. PICK t \in Tpl : Proceed(t)
    BY <1>5, <2>0 DEF Next, vars, BusCycle
  <2>2. ~(\E port, value, pc : Out(t, port, value, pc))
    BY <1>5, Zenon DEF Out
  <2>3. ~StatRead(t) /\ ~StatCountLo(t) /\ ~StatCountHi(t)
    BY <1>5, Zenon DEF StatRead, StatCountLo, StatCountHi
  <2>4. QED
    BY <2>1, <2>2, <2>3, Zenon DEF Proceed, Program, Start, Stop, GetStatus, ProgMask, ProgClear, ProgMode,
       ProgAddrLo, ProgAddrHi, ProgPage, ProgCountLo, ProgCountHi, StartUnmask, StopMask, StatClear,
       StartMark, StopMark, StatStore
<1>6. QED
  BY <1>2, <1>3, <1>4, <1>5

LEMMA ServeStep ==
  ASSUME CascadeUnused, RouteInv, ServeInv, \A t \in Tpl : Progress(t), [Next]_vars
  PROVE  ServeInv'
<1>1. ASSUME NEW t \in Tpl, Programming(t)' PROVE frame'[t].Mode \in SingleMode
  <2>1. CASE frame'[t] = frame[t]
    BY <1>1, <2>1 DEF ServeInv, Programming
  <2>2. CASE frame'[t] # frame[t]
    <3>1. Call(t) \/ Proceed(t)
      BY <2>2, ChangedIsOwn DEF RouteInv
    <3>2. QED
      BY <1>1, <3>1, ProgramBegins, ModeSingle, ProgramGoesOn DEF RouteInv, ServeInv
  <2>3. QED
    BY <2>1, <2>2
<1>2. ASSUME NEW c \in Chan PROVE DmaChannels'[c].Mode \in SingleMode \cup {0}
  BY RecordMode DEF RouteInv, ServeInv
<1>3. ch'[4].mask = ch[4].mask /\ ch'[4].mode = ch[4].mode
  <2>1. 4 \in Chan /\ ch \in [Chan -> Channel]
    BY DEF Chan, RouteInv, TypeInv, TypeOK, DmaTypeOK
  <2>2. ASSUME NEW c \in Chan, BusCycle(c) PROVE ch'[4] = ch[4]
    <3>1. c # 4
      BY <2>2 DEF BusCycle, Transfer, Granted, ServeInv
    <3>2. QED
      BY <2>1, <2>2, <3>1 DEF BusCycle, Transfer
  <2>3. ASSUME NEW t \in Tpl, Proceed(t) PROVE ch'[4].mask = ch[4].mask /\ ch'[4].mode = ch[4].mode
    <3>1. frame[t].pc # "idle"
      BY <2>3, Zenon DEF Proceed, Program, Start, Stop, GetStatus, ProgMask, ProgClear, ProgMode,
         ProgAddrLo, ProgAddrHi, ProgPage, ProgCountLo, ProgCountHi, ProgStore, StartUnmask, StopMask,
         StatRead, StatClear, StatCountLo, StatCountHi, StartMark, StopMark, StatStore, Mark, At
    <3>2. frame[t].Channel # 4
      BY <3>1 DEF Progress, CascadeUnused
    <3>3. Untouched(t)
      BY <2>3, WritesSame, SameUntouched, ReadsUntouched DEF Proceed, GetStatus, RouteInv
    <3>4. ch'[4] = [ch[4] EXCEPT !.tc = ch'[4].tc]
      BY <2>1, <3>2, <3>3 DEF Untouched
    <3>5. QED
      BY <2>1, <3>4 DEF Channel
  <2>4. ASSUME NEW t \in Tpl, Call(t) PROVE ch' = ch
    BY <2>4, Zenon DEF Call, RefuseChannel, AllocateDmaBuffer, FreeDmaBuffer,
       ProgramDmaChannel, StartDma, GetDmaStatus, StopDma
  <2>5. QED
    BY <2>2, <2>3, <2>4 DEF Next, vars
<1>4. QED
  BY <1>1, <1>2, <1>3 DEF ServeInv, Cascaded

LEMMA ServeInit == Init => ServeInv
<1> SUFFICES ASSUME Init PROVE ServeInv
  OBVIOUS
<1>1. ~ch[4].mask /\ ch[4].mode = 192
  BY ControllersStart DEF Init
<1>2. QED
  BY <1>1 DEF Init, ServeInv, Cascaded, Programming, Returned, Rewriting

(* If no two callers share a controller and none uses channel 4, every     *)
(* channel that is open is served, whatever Mode bytes the callers pass.   *)
THEOREM OpenServed == ASSUME Exclusive, CascadeUnused PROVE Spec => []OpenIsServed
<1>1. SafetyInv /\ ServeInv => OpenIsServed
  <2> SUFFICES ASSUME SafetyInv, ServeInv, NEW c \in Chan \ {4}, ~ch[c].mask PROVE Granted(c)
    BY DEF OpenIsServed
  <2>1. Programmed(c) /\ ch[c].mode = DmaChannels[c].Mode
    BY DEF SafetyInv, Good, Progress, Reprogramming, Loaded
  <2>2. ch[c].mode \in SingleMode
    BY <2>1 DEF ServeInv, Programmed
  <2>3. QED
    BY <2>2 DEF ServeInv, Granted, Cascaded, SingleMode
<1>2. SafetyInv => \A t \in Tpl : Progress(t)
  BY DEF SafetyInv
<1>3. RouteInv /\ ServeInv /\ (\A t \in Tpl : Progress(t)) /\ [Next]_vars => ServeInv'
  BY ServeStep
<1>4. QED
  BY <1>1, <1>2, <1>3, RouteInit, RouteStep, ServeInit, SafetyInvariant, PTL DEF Spec

-----------------------------------------------------------------------------
(* Arithmetic of register pairs, for every width of a byte.                *)

LEMMA WordFacts == Byte \in Nat /\ Byte > 1 /\ Word \in Nat /\ Word > 1 /\ Word = Byte * Byte
<1>1. Byte \in Nat /\ Byte > 1
  BY ByteAssumption
<1>2. Byte * Byte \in Nat /\ Byte * Byte >= 2 * Byte
  BY <1>1
<1>3. QED
  BY <1>1, <1>2 DEF Word

LEMMA DivMod ==
  ASSUME NEW n \in Int, NEW m \in Nat, m > 0
  PROVE  n \div m \in Int /\ n % m \in 0 .. m - 1 /\ n = m * (n \div m) + (n % m)
OBVIOUS

(* Quotient and remainder are unique.                                      *)
LEMMA DivModUnique ==
  ASSUME NEW m \in Nat, m > 0, NEW q \in Int, NEW r \in 0 .. m - 1
  PROVE  (m * q + r) % m = r /\ (m * q + r) \div m = q
<1> DEFINE n == m * q + r
<1>1. n \in Int /\ n \div m \in Int /\ n % m \in 0 .. m - 1 /\ n = m * (n \div m) + (n % m)
  <2>1. n \in Int
    OBVIOUS
  <2> HIDE DEF n
  <2>2. QED
    BY <2>1, DivMod
<1> DEFINE p == n \div m  s == n % m
<1>2. p \in Int /\ s \in 0 .. m - 1 /\ m * q + r = m * p + s
  BY <1>1
<1> HIDE DEF p, s
<1>3. ASSUME NEW x \in Int, NEW y \in Int, x > y PROVE m * x >= m * y + m
  <2>1. x - y >= 1 /\ x - y \in Nat
    BY <1>3
  <2>2. m * (x - y) >= m
    BY <2>1
  <2>3. m * (x - y) = m * x - m * y
    OBVIOUS
  <2>4. QED
    BY <2>2, <2>3
<1>4. p = q
  <2>1. ~(p > q)
    BY <1>2, <1>3
  <2>2. ~(q > p)
    BY <1>2, <1>3
  <2>3. QED
    BY <1>2, <2>1, <2>2
<1>5. s = r
  BY <1>2, <1>4
<1>6. QED
  BY <1>4, <1>5 DEF p, s

LEMMA Congruent ==
  ASSUME NEW m \in Nat, m > 0, NEW a \in Int, NEW b \in Int, NEW k \in Int, a = b + m * k
  PROVE  a % m = b % m
<1> DEFINE q == b \div m  r == b % m
<1>1. q \in Int /\ r \in 0 .. m - 1 /\ b = m * q + r
  BY DivMod
<1> HIDE DEF q, r
<1>2. a = m * (q + k) + r /\ q + k \in Int
  BY <1>1
<1>3. a % m = r
  BY <1>1, <1>2, DivModUnique
<1>4. QED
  BY <1>3 DEF r

LEMMA ModWord ==
  /\ \A x \in Int, q \in Int, r \in 0 .. Word - 1 : x = Word * q + r => x % Word = r
  /\ \A a \in Int, b \in Int, k \in Int : a = b + Word * k => a % Word = b % Word
<1>1. Word \in Nat /\ Word > 0
  BY WordFacts
<1>2. QED
  BY <1>1, DivModUnique, Congruent

(* What the bytes of a pair are worth, and what counting does to it.       *)
LEMMA ValRange ==
  ASSUME NEW p \in Pair
  PROVE  /\ p[0] \in Data /\ p[1] \in Data
         /\ Val(p) \in 0 .. Word - 1
         /\ (p = Zero <=> Val(p) = 0)
<1>1. p[0] \in Data /\ p[1] \in Data
  BY DEF Pair, Flip
<1>2. Val(p) \in 0 .. Word - 1
  BY <1>1, TwoByteCount DEF Val
<1>3. Val(p) = 0 => p[0] = 0 /\ p[1] = 0
  <2>1. p[0] >= 0 /\ p[1] >= 0 /\ p[0] \in Int /\ p[1] \in Int /\ Byte \in Nat /\ Byte > 1
    BY <1>1, WordFacts DEF Data
  <2>2. p[1] # 0 => Byte * p[1] >= Byte
    BY <2>1
  <2>3. p[1] = 0 => Byte * p[1] = 0
    BY <2>1
  <2>4. QED
    BY <2>1, <2>2, <2>3 DEF Val
<1>4. p[0] = 0 /\ p[1] = 0 => p = Zero
  BY DEF Pair, Flip, Zero
<1>5. p = Zero => Val(p) = 0
  BY WordFacts DEF Zero, Val, Flip
<1>6. QED
  BY <1>1, <1>2, <1>3, <1>4, <1>5

LEMMA ValInc ==
  ASSUME NEW p \in Pair
  PROVE  /\ Inc(p) \in Pair
         /\ Val(Inc(p)) = Val(p) + 1 \/ Val(Inc(p)) = Val(p) + 1 - Word
<1> DEFINE x == p[0]  y == p[1]
<1>1. x \in Int /\ y \in Int /\ x >= 0 /\ y >= 0 /\ x <= Byte - 1 /\ y <= Byte - 1 /\ Byte \in Nat
  BY ValRange, WordFacts DEF Data
<1>2. Inc(p)[0] = IF x < Byte - 1 THEN x + 1 ELSE 0
  BY DEF Inc, Pair, Flip
<1>3. Inc(p)[1] = IF x < Byte - 1 THEN y ELSE IF y < Byte - 1 THEN y + 1 ELSE 0
  BY DEF Inc, Pair, Flip
<1> HIDE DEF x, y
<1>0. Inc(p) \in Pair
  BY CountingTypes
<1>4. Byte * (y + 1) = Byte * y + Byte /\ Byte * 0 = 0 /\ Byte * (Byte - 1) = Byte * Byte - Byte
  BY <1>1
<1>5. Val(p) = x + Byte * y /\ Val(Inc(p)) = Inc(p)[0] + Byte * Inc(p)[1]
  BY DEF Val, x, y
<1>6. Byte * y \in Int /\ Byte * Byte \in Int
  BY <1>1
<1>7. CASE x < Byte - 1
  BY <1>0, <1>1, <1>2, <1>3, <1>5, <1>6, <1>7
<1>8. CASE ~(x < Byte - 1) /\ y < Byte - 1
  BY <1>0, <1>1, <1>2, <1>3, <1>4, <1>5, <1>6, <1>8
<1>9. CASE ~(x < Byte - 1) /\ ~(y < Byte - 1)
  <2>1. x = Byte - 1 /\ y = Byte - 1
    BY <1>1, <1>9
  <2>2. Val(p) = Byte - 1 + (Byte * Byte - Byte) /\ Val(Inc(p)) = 0
    BY <1>1, <1>2, <1>3, <1>4, <1>5, <2>1
  <2>3. QED
    BY <1>0, <1>1, <1>6, <2>2, WordFacts
<1>10. QED
  BY <1>7, <1>8, <1>9

LEMMA ValDec ==
  ASSUME NEW p \in Pair
  PROVE  /\ Dec(p) \in Pair
         /\ Val(Dec(p)) = Val(p) - 1 \/ Val(Dec(p)) = Val(p) - 1 + Word
<1> DEFINE x == p[0]  y == p[1]
<1>1. x \in Int /\ y \in Int /\ x >= 0 /\ y >= 0 /\ x <= Byte - 1 /\ y <= Byte - 1 /\ Byte \in Nat
  BY ValRange, WordFacts DEF Data
<1>2. Dec(p)[0] = IF x > 0 THEN x - 1 ELSE Byte - 1
  BY DEF Dec, Pair, Flip
<1>3. Dec(p)[1] = IF x > 0 THEN y ELSE IF y > 0 THEN y - 1 ELSE Byte - 1
  BY DEF Dec, Pair, Flip
<1> HIDE DEF x, y
<1>0. Dec(p) \in Pair
  BY CountingTypes
<1>4. Byte * (y - 1) = Byte * y - Byte /\ Byte * 0 = 0 /\ Byte * (Byte - 1) = Byte * Byte - Byte
  BY <1>1
<1>5. Val(p) = x + Byte * y /\ Val(Dec(p)) = Dec(p)[0] + Byte * Dec(p)[1]
  BY DEF Val, x, y
<1>6. Byte * y \in Int /\ Byte * Byte \in Int
  BY <1>1
<1>7. CASE x > 0
  BY <1>0, <1>1, <1>2, <1>3, <1>5, <1>6, <1>7
<1>8. CASE ~(x > 0) /\ y > 0
  BY <1>0, <1>1, <1>2, <1>3, <1>4, <1>5, <1>6, <1>8
<1>9. CASE ~(x > 0) /\ ~(y > 0)
  <2>1. x = 0 /\ y = 0
    BY <1>1, <1>9
  <2>2. Val(p) = 0 /\ Val(Dec(p)) = Byte - 1 + (Byte * Byte - Byte)
    BY <1>1, <1>2, <1>3, <1>4, <1>5, <2>1
  <2>3. QED
    BY <1>0, <1>1, <1>6, <2>2, WordFacts
<1>10. QED
  BY <1>7, <1>8, <1>9

(* A register gets the low half of a value and loses its multiples of Word.*)
LEMMA ValBytes ==
  ASSUME NEW n \in Int
  PROVE  /\ Bytes(n) \in Pair
         /\ n \div Word \in Int /\ n = Val(Bytes(n)) + Word * (n \div Word)
<1> DEFINE q == n \div Byte  h == q \div Byte
<1>1. Byte \in Nat /\ Byte > 0 /\ q \in Int /\ h \in Int
  <2>1. Byte \in Nat /\ Byte > 0
    BY WordFacts
  <2>2. q \in Int
    BY <2>1, DivMod
  <2>3. h \in Int
    BY <2>1, <2>2, DivMod
  <2>4. QED
    BY <2>1, <2>2, <2>3
<1>2. n = Byte * q + Lo(n) /\ Lo(n) \in 0 .. Byte - 1
  BY <1>1, DivMod DEF Lo
<1>3. q = Byte * h + Hi(n) /\ Hi(n) \in 0 .. Byte - 1
  BY <1>1, DivMod DEF Hi
<1>4. Bytes(n)[0] = Lo(n) /\ Bytes(n)[1] = Hi(n)
  BY DEF Bytes, Flip
<1>5. Bytes(n) \in Pair
  BY ByteRanges
<1> HIDE DEF q, h
<1>6. Byte * q = Byte * (Byte * h) + Byte * Hi(n)
  BY <1>1, <1>3
<1>7. Byte * (Byte * h) = Word * h
  BY <1>1 DEF Word
<1>8. n = Word * h + Val(Bytes(n))
  BY <1>1, <1>2, <1>3, <1>4, <1>6, <1>7 DEF Val
<1>9. Val(Bytes(n)) \in 0 .. Word - 1
  BY <1>5, ValRange
<1>10. n \div Word = h
  BY <1>1, <1>8, <1>9, WordFacts, DivModUnique
<1>11. Word * h \in Int /\ Val(Bytes(n)) \in Int
  BY <1>1, <1>9, WordFacts
<1>12. n = Val(Bytes(n)) + Word * h
  BY <1>8, <1>11
<1>13. QED
  BY <1>1, <1>5, <1>10, <1>12

(* Values that fit come back whole: a count from its register, a 24-bit    *)
(* address from its register and its page.                                 *)
LEMMA CountWhole ==
  ASSUME NEW n \in 0 .. Word - 1
  PROVE  Val(Bytes(n)) = n
<1>1. n = Val(Bytes(n)) + Word * (n \div Word) /\ n \div Word \in Int /\ Val(Bytes(n)) \in 0 .. Word - 1
  <2>1. n \in Int
    BY WordFacts
  <2>2. QED
    BY <2>1, ValBytes, ValRange
<1>2. n = Word * 0 + n
  BY WordFacts
<1>3. n \div Word = 0
  BY <1>2, WordFacts, DivModUnique
<1>4. QED
  BY <1>1, <1>3, WordFacts

LEMMA AddressWhole ==
  ASSUME NEW a \in Nat, a < BusSize
  PROVE  Pg(a) * Word + Val(Bytes(a)) = a
<1> DEFINE q == a \div Word
<1>1. a = Val(Bytes(a)) + Word * q /\ q \in Int /\ Val(Bytes(a)) \in 0 .. Word - 1
  BY ValBytes, ValRange
<1>2. Byte \in Nat /\ Byte > 1 /\ Word \in Nat /\ Word > 1
  BY WordFacts
<1> HIDE DEF q
<1>3. q >= 0
  <2>1. q <= -1 => Word * q <= -Word
    <3>1. ASSUME q <= -1 PROVE Word * q <= -Word
      <4>1. -q - 1 \in Nat
        BY <1>1, <3>1
      <4>2. Word * (-q - 1) >= 0
        BY <1>2, <4>1
      <4>3. Word * (-q - 1) = -(Word * q) - Word
        BY <1>1, <1>2
      <4>4. QED
        BY <1>1, <1>2, <4>2, <4>3
    <3>2. QED
      BY <3>1
  <2>2. QED
    BY <1>1, <1>2, <2>1
<1>4. q < Byte
  <2>1. ASSUME q >= Byte PROVE FALSE
    <3>1. q - Byte \in Nat
      BY <1>1, <1>2, <2>1
    <3>2. Word * (q - Byte) >= 0
      BY <1>2, <3>1
    <3>3. Word * (q - Byte) = Word * q - Word * Byte
      BY <1>1, <1>2
    <3>4. QED
      BY <1>1, <1>2, <3>2, <3>3 DEF BusSize
  <2>2. QED
    BY <1>1, <1>2, <2>1
<1>5. q % Byte = q
  <2>1. q = Byte * 0 + q
    BY <1>1, <1>2
  <2>2. QED
    BY <1>1, <1>2, <1>3, <1>4, <2>1, DivModUnique
<1>6. Pg(a) = q
  BY <1>5 DEF Pg, q
<1>7. QED
  BY <1>1, <1>2, <1>6

-----------------------------------------------------------------------------
(* The working registers.                                                  *)

(* What a call that programs its channel has achieved of them at its pc,   *)
(* and what it checked before it began.                                    *)
Counting(t) ==
  LET f == frame[t]  r == ch[f.Channel] IN
  /\ Programming(t) => f.Address < BusSize /\ (f.Channel \in Narrow => f.Count # 0)
  /\ f.pc = "prog_addr_hi" => r.addr[0] = Lo(f.Address)
  /\ f.pc \in AfterAddr => r.addr = Bytes(f.Address)
  /\ f.pc = "prog_count_hi" => r.count[0] = Lo(CountReg(t))
  /\ f.pc = "prog_store" => r.count = Bytes(CountReg(t))

EndsRight(c) ==
  Programmed(c) /\ ~Reprogramming(c) =>
    (Val(ch[c].addr) + Val(ch[c].count)) % Word
      = (DmaChannels[c].Address + TransferCount(c, DmaChannels[c].Count) - 1) % Word

Ends(c) == EndsRight(c) /\ DmaChannels[c].Address < BusSize

CountInv == SafetyInv /\ (\A t \in Tpl : Counting(t)) /\ (\A c \in Chan : Ends(c))

CountersKept(c) == ch'[c].addr = ch[c].addr /\ ch'[c].count = ch[c].count

(* Only the four writes of register bytes touch them, beside bus cycles.   *)
WritesCounter(t) == ProgAddrLo(t) \/ ProgAddrHi(t) \/ ProgCountLo(t) \/ ProgCountHi(t)

LEMMA CountersOnlyWritten ==
  ASSUME TypeInv, NEW t \in Tpl, Proceed(t), ~WritesCounter(t), NEW e \in Chan
  PROVE  CountersKept(e)
<1> DEFINE c == frame[t].Channel
<1>1. c \in Chan /\ ch \in [Chan -> Channel]
  BY DEF TypeInv, TypeOK, Frame, DmaTypeOK
<1> HIDE DEF c
<1>2. ASSUME NEW v, NEW pc, Out(t, MaskPort(c), v, pc) \/ Out(t, ModePort(c), v, pc)
      PROVE CountersKept(e)
  <2>1. WriteMask(Of(c), v) \/ WriteMode(Of(c), v)
    BY <1>1, <1>2, WriteRouted DEF Out
  <2>2. PICK d, b : ch' = [ch EXCEPT ![d].mask = b] \/ ch' = [ch EXCEPT ![d].mode = b]
    BY <2>1, Zenon DEF WriteMask, WriteMode
  <2>3. QED
    BY <1>1, <2>2 DEF CountersKept, Channel
<1>3. CASE ProgMask(t) \/ ProgMode(t) \/ StartUnmask(t) \/ StopMask(t)
  BY <1>2, <1>3, Zenon DEF ProgMask, ProgMode, StartUnmask, StopMask, c
<1>4. CASE ProgClear(t) \/ StatClear(t)
  <2>1. PICK pc : Out(t, ClearPort(c), 255, pc)
    BY <1>4, Zenon DEF ProgClear, StatClear, c
  <2>2. ClearFlipFlop(Of(c))
    BY <1>1, <2>1, WriteRouted DEF Out
  <2>3. QED
    BY <2>2 DEF ClearFlipFlop, CountersKept
<1>5. CASE ProgPage(t)
  <2>1. PICK v, pc : Out(t, PagePort(c), v, pc)
    BY <1>5, Zenon DEF ProgPage, c
  <2>2. ch' = [ch EXCEPT ![c].page = v]
    BY <1>1, <2>1, WriteRouted DEF Out, WritePage
  <2>3. QED
    BY <1>1, <2>2 DEF CountersKept, Channel
<1>6. CASE ProgStore(t) \/ StartMark(t) \/ StopMark(t) \/ StatStore(t)
  BY <1>6 DEF ProgStore, StartMark, StopMark, StatStore, Mark, CountersKept
<1>7. CASE StatCountLo(t) \/ StatCountHi(t)
  BY <1>7, Zenon DEF StatCountLo, StatCountHi, PortRead, CountersKept
<1>8. CASE StatRead(t)
  <2>1. PICK k \in Ctrl :
          ch' = [d \in Chan |-> IF Of(d) = k THEN [ch[d] EXCEPT !.tc = FALSE] ELSE ch[d]]
    BY <1>8 DEF StatRead, StatusRead
  <2>2. QED
    BY <1>1, <2>1 DEF CountersKept, Channel
<1>9. QED
  BY <1>3, <1>4, <1>5, <1>6, <1>7, <1>8
  DEF Proceed, Program, Start, Stop, GetStatus, WritesCounter

LEMMA CounterWrites ==
  ASSUME DmaTypeOK, NEW c \in Chan, NEW v
  PROVE  /\ WriteAddr(c, v) => /\ ch'[c].addr = [ch[c].addr EXCEPT ![ff[Of(c)]] = v]
                               /\ ch'[c].count = ch[c].count
         /\ WriteCount(c, v) => /\ ch'[c].count = [ch[c].count EXCEPT ![ff[Of(c)]] = v]
                                /\ ch'[c].addr = ch[c].addr
BY DEF WriteAddr, WriteCount, DmaTypeOK, Channel

(* A caller that is not programming owes the working registers nothing.    *)
LEMMA CountingOutside ==
  ASSUME NEW t \in Tpl, frame'[t].pc \notin Rewriting \cup {"prog_mask"}
  PROVE  Counting(t)'
BY DEF Counting, Programming, Rewriting, AfterAddr

LEMMA CountingKept ==
  ASSUME NEW t \in Tpl, Counting(t), frame'[t] = frame[t],
         frame[t].pc \in Rewriting => CountersKept(frame[t].Channel)
  PROVE  Counting(t)'
<1>1. CASE frame[t].pc \in Rewriting
  BY <1>1 DEF Counting, CountersKept, CountReg, Programming
<1>2. CASE frame[t].pc \notin Rewriting
  BY <1>2 DEF Counting, Programming, Rewriting, AfterAddr
<1>3. QED
  BY <1>1, <1>2

(* A call that begins has checked its region and, on a narrow channel, a   *)
(* count that is not rounded to zero.                                      *)
LEMMA CallCounts ==
  ASSUME TypeInv, NEW t \in Tpl, Call(t)
  PROVE  Counting(t)'
<1>1. frame \in [Tpl -> Frame]
  BY DEF TypeInv, TypeOK
<1>2. ASSUME NEW s, Return(t, s) PROVE Counting(t)'
  BY <1>2, ReturnFrame, CountingOutside DEF Rewriting
<1>3. ASSUME NEW c \in Owns[t], NEW Mode \in Modes, NEW n \in Counts, NEW auto \in Autos,
             NEW a \in {buf[b].Buffer : b \in Buffers} \cup ClientAddrs,
             ProgramDmaChannel(t, c, Mode, a, n, auto)
      PROVE Counting(t)'
  <2>1. CASE Refused(c, a, n)
    BY <1>2, <1>3, <2>1 DEF ProgramDmaChannel
  <2>2. CASE ~Refused(c, a, n)
    <3> DEFINE A == Truncate(a)  N == RoundDown(c, n)  M == DmaMode(c, Mode, auto)
    <3>1. frame' = [frame EXCEPT ![t] = [frame[t] EXCEPT !.pc = "prog_mask", !.Channel = c,
                      !.Address = A, !.Count = N, !.Mode = M]]
      BY <1>3, <2>2 DEF ProgramDmaChannel
    <3>2. A < BusSize /\ (c \in Narrow => N # 0)
      <4>1. A < BusSize
        <5>1. A \in Int /\ BusSize \in Int
          <6>1. a \in Nat
            <7>1. \A b \in Buffers : buf[b].Buffer \in Nat
              BY DEF TypeInv, TypeOK, Descriptor
            <7>2. ClientAddrs \subseteq Nat
              BY ConstantAssumption
            <7>3. QED
              BY <1>3, <7>1, <7>2
          <6>2. Word * Word \in Nat /\ Word * Word > 0 /\ BusSize \in Int
            BY WordFacts DEF BusSize
          <6>3. QED
            BY <6>1, <6>2, DivMod DEF Truncate
        <5>2. ~(A >= BusSize)
          BY <2>2 DEF Refused
        <5> HIDE DEF A
        <5>3. QED
          BY <5>1, <5>2
      <4>2. c \in Narrow => N # 0
        BY <2>2 DEF Refused, RoundDown, Wide, Narrow
      <4>3. QED
        BY <4>1, <4>2
    <3> HIDE DEF A, N, M
    <3>3. /\ frame'[t].pc = "prog_mask" /\ frame'[t].Channel = c
          /\ frame'[t].Address = A /\ frame'[t].Count = N
      BY <1>1, <3>1 DEF Frame
    <3>4. QED
      BY <3>2, <3>3 DEF Counting, AfterAddr
  <2>3. QED
    BY <2>1, <2>2
<1>4. ASSUME NEW c \in Owns[t], StartDma(t, c) \/ GetDmaStatus(t, c) \/ StopDma(t, c) PROVE Counting(t)'
  <2>1. CASE \E s : Return(t, s)
    BY <1>2, <2>1
  <2>2. ASSUME NEW pc \in {"start_unmask", "stat_read", "stop_mask"},
               frame' = [frame EXCEPT ![t].pc = pc, ![t].Channel = c]
        PROVE  Counting(t)'
    <3>1. frame'[t].pc = pc
      BY <1>1, <2>2 DEF Frame
    <3>2. QED
      BY <3>1, CountingOutside DEF Rewriting
  <2>3. QED
    BY <1>4, <2>1, <2>2, Zenon DEF StartDma, GetDmaStatus, StopDma
<1>5. CASE \E s : Return(t, s)
  BY <1>2, <1>5
<1>6. QED
  BY <1>3, <1>4, <1>5, Zenon DEF Call, RefuseChannel, AllocateDmaBuffer, FreeDmaBuffer

(* The four writes, low byte first.                                        *)
LEMMA WriterCounts ==
  ASSUME NEW t \in Tpl, Local(t), Counting(t), WritesCounter(t)
  PROVE  Counting(t)'
<1> DEFINE c == frame[t].Channel  a == frame[t].Address  n == CountReg(t)
<1>1. /\ c \in Chan /\ DmaTypeOK /\ a \in Int /\ n \in Int
      /\ ch[c].addr \in Pair /\ ch[c].count \in Pair
  BY CallFacts DEF DmaTypeOK, Channel
<1>2. ASSUME NEW pc \in Pc, NEW port, NEW v, Out(t, port, v, pc), Programming(t)
      PROVE  /\ frame'[t].pc = pc /\ frame'[t].Channel = c /\ frame'[t].Address = a
             /\ frame'[t].Count = frame[t].Count /\ n' = n
             /\ a < BusSize /\ (c \in Narrow => frame[t].Count # 0)
  BY <1>2, OutFrame DEF Counting
<1>3. CASE ProgAddrLo(t)
  <2>1. At(t, "prog_addr_lo") /\ Out(t, AddrPort(c), Lo(a), "prog_addr_hi") /\ "prog_addr_hi" \in Pc
    BY <1>3 DEF ProgAddrLo, Pc, Rewriting
  <2>2. ff[Of(c)] = 0 /\ Programming(t)
    BY <2>1 DEF Local, Progress, At, LowNext, Programming, Rewriting
  <2>3. WriteAddr(c, Lo(a))
    BY <1>1, <2>1, WriteRouted DEF Out
  <2>w. ch'[c].addr = [ch[c].addr EXCEPT ![0] = Lo(a)] /\ ch'[c].count = ch[c].count
    <3> HIDE DEF a, n, c
    <3>1. DmaTypeOK /\ c \in Chan
      BY <1>1
    <3>2. ch'[c].addr = [ch[c].addr EXCEPT ![ff[Of(c)]] = Lo(a)] /\ ch'[c].count = ch[c].count
      BY <2>3, <3>1, CounterWrites
    <3>3. QED
      BY <2>2, <3>2
  <2>4. ch'[c].addr[0] = Lo(a)
    BY <1>1, <2>2, <2>w, PairWritten
  <2>5. QED
    BY <1>2, <2>1, <2>2, <2>4 DEF Counting, AfterAddr
<1>4. CASE ProgAddrHi(t)
  <2>1. At(t, "prog_addr_hi") /\ Out(t, AddrPort(c), Hi(a), "prog_page") /\ "prog_page" \in Pc
    BY <1>4 DEF ProgAddrHi, Pc, Rewriting
  <2>2. ff[Of(c)] = 1 /\ Programming(t) /\ ch[c].addr[0] = Lo(a)
    BY <2>1 DEF Local, Progress, At, HighNext, Programming, Rewriting, Counting
  <2>3. WriteAddr(c, Hi(a))
    BY <1>1, <2>1, WriteRouted DEF Out
  <2>w. ch'[c].addr = [ch[c].addr EXCEPT ![1] = Hi(a)] /\ ch'[c].count = ch[c].count
    <3> HIDE DEF a, n, c
    <3>1. DmaTypeOK /\ c \in Chan
      BY <1>1
    <3>2. ch'[c].addr = [ch[c].addr EXCEPT ![ff[Of(c)]] = Hi(a)] /\ ch'[c].count = ch[c].count
      BY <2>3, <3>1, CounterWrites
    <3>3. QED
      BY <2>2, <3>2
  <2>4. ch'[c].addr = Bytes(a)
    BY <1>1, <2>2, <2>w, PairWritten
  <2>5. QED
    BY <1>2, <2>1, <2>2, <2>4 DEF Counting, AfterAddr
<1>5. CASE ProgCountLo(t)
  <2>1. At(t, "prog_count_lo") /\ Out(t, CountPort(c), Lo(n), "prog_count_hi") /\ "prog_count_hi" \in Pc
    BY <1>5 DEF ProgCountLo, Pc, Rewriting
  <2>2. ff[Of(c)] = 0 /\ Programming(t) /\ ch[c].addr = Bytes(a)
    BY <2>1 DEF Local, Progress, At, LowNext, Programming, Rewriting, Counting, AfterAddr
  <2>3. WriteCount(c, Lo(n))
    BY <1>1, <2>1, WriteRouted DEF Out
  <2>w. ch'[c].count = [ch[c].count EXCEPT ![0] = Lo(n)] /\ ch'[c].addr = ch[c].addr
    <3> HIDE DEF a, n, c
    <3>1. DmaTypeOK /\ c \in Chan
      BY <1>1
    <3>2. ch'[c].count = [ch[c].count EXCEPT ![ff[Of(c)]] = Lo(n)] /\ ch'[c].addr = ch[c].addr
      BY <2>3, <3>1, CounterWrites
    <3>3. QED
      BY <2>2, <3>2
  <2>4. ch'[c].count[0] = Lo(n) /\ ch'[c].addr = Bytes(a)
    BY <1>1, <2>2, <2>w, PairWritten
  <2>5. QED
    BY <1>2, <2>1, <2>2, <2>4 DEF Counting, AfterAddr
<1>6. CASE ProgCountHi(t)
  <2>1. At(t, "prog_count_hi") /\ Out(t, CountPort(c), Hi(n), "prog_store") /\ "prog_store" \in Pc
    BY <1>6 DEF ProgCountHi, Pc, Rewriting
  <2>2. ff[Of(c)] = 1 /\ Programming(t) /\ ch[c].addr = Bytes(a) /\ ch[c].count[0] = Lo(n)
    BY <2>1 DEF Local, Progress, At, HighNext, Programming, Rewriting, Counting, AfterAddr
  <2>3. WriteCount(c, Hi(n))
    BY <1>1, <2>1, WriteRouted DEF Out
  <2>w. ch'[c].count = [ch[c].count EXCEPT ![1] = Hi(n)] /\ ch'[c].addr = ch[c].addr
    <3> HIDE DEF a, n, c
    <3>1. DmaTypeOK /\ c \in Chan
      BY <1>1
    <3>2. ch'[c].count = [ch[c].count EXCEPT ![ff[Of(c)]] = Hi(n)] /\ ch'[c].addr = ch[c].addr
      BY <2>3, <3>1, CounterWrites
    <3>3. QED
      BY <2>2, <3>2
  <2>4. ch'[c].count = Bytes(n) /\ ch'[c].addr = Bytes(a)
    BY <1>1, <2>2, <2>w, PairWritten
  <2>5. QED
    BY <1>2, <2>1, <2>2, <2>4 DEF Counting, AfterAddr
<1>7. QED
  BY <1>3, <1>4, <1>5, <1>6 DEF WritesCounter

(* Every step of a call, on its own channel.                               *)
LEMMA ProceedCounts ==
  ASSUME NEW t \in Tpl, Local(t), Counting(t), Proceed(t)
  PROVE  Counting(t)'
<1> DEFINE c == frame[t].Channel
<1>1. TypeInv /\ c \in Chan
  BY CallFacts DEF Local
<1>2. CASE WritesCounter(t)
  BY <1>2, WriterCounts
<1>3. CASE ~WritesCounter(t)
  <2>1. CountersKept(c)
    BY <1>1, <1>3, CountersOnlyWritten
  <2> HIDE DEF c
  <2>2. ASSUME NEW pc \in Pc, NEW port, NEW v, Out(t, port, v, pc), Programming(t),
               pc \in AfterAddr => frame[t].pc = "prog_page",
               pc \notin {"prog_addr_hi", "prog_count_hi", "prog_store"}
        PROVE  Counting(t)'
    <3>1. /\ frame'[t].pc = pc /\ frame'[t].Channel = c
          /\ frame'[t].Address = frame[t].Address /\ frame'[t].Count = frame[t].Count
      BY <2>2, OutFrame DEF c
    <3>2. pc \in AfterAddr => ch[c].addr = Bytes(frame[t].Address)
      BY <2>2 DEF Counting, AfterAddr, c
    <3>3. QED
      BY <2>1, <2>2, <3>1, <3>2 DEF Counting, CountersKept, c
  <2>3. CASE ProgMask(t) \/ ProgClear(t) \/ ProgMode(t) \/ ProgPage(t)
    <3>1. PICK pc \in {"prog_clear", "prog_mode", "prog_addr_lo", "prog_count_lo"} : \E port, v :
            Out(t, port, v, pc) /\ (pc = "prog_count_lo" <=> ProgPage(t))
      BY <2>3, Zenon DEF ProgMask, ProgClear, ProgMode, ProgPage, At
    <3>2. Programming(t) /\ (ProgPage(t) => frame[t].pc = "prog_page")
      BY <2>3, Zenon DEF ProgMask, ProgClear, ProgMode, ProgPage, At, Programming, Rewriting
    <3>3. pc \in Pc /\ (pc \in AfterAddr <=> pc = "prog_count_lo")
      BY DEF Pc, Rewriting, AfterAddr
    <3>4. QED
      BY <2>2, <3>1, <3>2, <3>3
  <2>4. ASSUME NEW pc \in Pc \ (Rewriting \cup {"prog_mask"}), frame'[t].pc = pc
        PROVE Counting(t)'
    BY <2>4, CountingOutside
  <2>5. CASE ProgStore(t) \/ StartMark(t) \/ StopMark(t) \/ StatStore(t)
    <3>1. Return(t, "SUCCESS")
      BY <2>5, Zenon DEF ProgStore, StartMark, StopMark, StatStore, Mark
    <3>2. QED
      BY <1>1, <3>1, ReturnFrame, CountingOutside DEF Rewriting
  <2>6. CASE StartUnmask(t) \/ StopMask(t) \/ StatClear(t)
    <3>1. PICK pc \in {"start_mark", "stop_mark", "stat_lo"} : \E port, v : Out(t, port, v, pc)
      BY <2>6, Zenon DEF StartUnmask, StopMask, StatClear
    <3>2. pc \in Pc \ (Rewriting \cup {"prog_mask"})
      BY DEF Pc, Rewriting
    <3>3. QED
      BY <2>4, <3>1, <3>2, OutFrame
  <2>7. CASE StatRead(t) \/ StatCountLo(t) \/ StatCountHi(t)
    <3>1. frame \in [Tpl -> Frame]
      BY <1>1 DEF TypeInv, TypeOK
    <3>2. frame'[t].pc \in {"stat_clear", "stat_hi", "stat_store"}
      BY <2>7, <3>1 DEF StatRead, StatCountLo, StatCountHi, Frame
    <3>3. QED
      BY <3>2, CountingOutside DEF Rewriting
  <2>8. QED
    BY <1>3, <2>3, <2>5, <2>6, <2>7 DEF Proceed, Program, Start, Stop, GetStatus, WritesCounter
<1>4. QED
  BY <1>2, <1>3

-----------------------------------------------------------------------------
(* Where a channel ends.                                                   *)

(* Nothing of the sum changes, or it changes by a multiple of Word.        *)
LEMMA EndsKept ==
  ASSUME NEW c \in Chan, Ends(c),
         /\ DmaChannels'[c].Mode = DmaChannels[c].Mode
         /\ DmaChannels'[c].Count = DmaChannels[c].Count
         /\ DmaChannels'[c].Address = DmaChannels[c].Address,
         Reprogramming(c) => Reprogramming(c)',
         CountersKept(c)
  PROVE  Ends(c)'
BY DEF Ends, EndsRight, Programmed, CountersKept

LEMMA SumCongruent ==
  ASSUME NEW p \in Pair, NEW q \in Pair, NEW n \in Int, NEW k \in Int,
         Val(p) + Val(q) = n + Word * k
  PROVE  (Val(p) + Val(q)) % Word = n % Word
<1>1. Val(p) + Val(q) \in Int
  BY ValRange, WordFacts
<1> DEFINE s == Val(p) + Val(q)
<1> HIDE DEF s
<1>2. s % Word = n % Word
  <2>1. s \in Int /\ s = n + Word * k
    BY <1>1 DEF s
  <2>2. Word \in Nat /\ Word > 0
    BY WordFacts
  <2>3. QED
    BY <2>1, <2>2, Congruent
<1>3. QED
  BY <1>2 DEF s

(* The registers just programmed, or reloaded from the base registers.     *)
LEMMA BytesEnd ==
  ASSUME NEW a \in Int, NEW n \in Int
  PROVE  (Val(Bytes(a)) + Val(Bytes(n))) % Word = (a + n) % Word
<1> DEFINE x == Val(Bytes(a))  y == Val(Bytes(n))  h == a \div Word  k == n \div Word
<1>1. /\ x \in Int /\ y \in Int /\ h \in Int /\ k \in Int
      /\ a = x + Word * h /\ n = y + Word * k
  <2>1. \A m \in Int : Val(Bytes(m)) \in Int
    BY ValBytes, ValRange
  <2>2. QED
    BY <2>1, ValBytes
<1>2. Bytes(a) \in Pair /\ Bytes(n) \in Pair
  BY ValBytes
<1> HIDE DEF x, y, h, k
<1>3. x + y = (a + n) + Word * (-(h + k))
  <2>1. Word * (-(h + k)) = -(Word * h) - Word * k
    BY <1>1, WordFacts
  <2>2. Word * h \in Int /\ Word * k \in Int
    BY <1>1, WordFacts
  <2>3. QED
    BY <1>1, <2>1, <2>2
<1>4. a + n \in Int /\ -(h + k) \in Int
  BY <1>1
<1>5. QED
  BY <1>2, <1>3, <1>4, SumCongruent DEF x, y

(* A unit moves the address up and the count down.                         *)
LEMMA CountdownSum ==
  ASSUME NEW p \in Pair, NEW q \in Pair
  PROVE  (Val(Inc(p)) + Val(Dec(q))) % Word = (Val(p) + Val(q)) % Word
<1>1. Inc(p) \in Pair /\ Dec(q) \in Pair /\ Val(p) \in Int /\ Val(q) \in Int
  BY ValInc, ValDec, ValRange, WordFacts
<1>2. PICK i \in {0, -1} : Val(Inc(p)) = Val(p) + 1 + Word * i
  <2>1. Word * 0 = 0 /\ Word * (-1) = -Word
    BY WordFacts
  <2>2. CASE Val(Inc(p)) = Val(p) + 1
    <3>1. Val(Inc(p)) = Val(p) + 1 + Word * 0
      BY <1>1, <2>1, <2>2
    <3>2. QED
      BY <3>1
  <2>3. CASE Val(Inc(p)) = Val(p) + 1 - Word
    <3>1. Val(Inc(p)) = Val(p) + 1 + Word * (-1)
      BY <1>1, <2>1, <2>3, WordFacts
    <3>2. QED
      BY <3>1
  <2>4. QED
    BY <2>2, <2>3, ValInc
<1>3. PICK j \in {0, 1} : Val(Dec(q)) = Val(q) - 1 + Word * j
  <2>1. Word * 0 = 0 /\ Word * 1 = Word
    BY WordFacts
  <2>2. CASE Val(Dec(q)) = Val(q) - 1
    <3>1. Val(Dec(q)) = Val(q) - 1 + Word * 0
      BY <1>1, <2>1, <2>2
    <3>2. QED
      BY <3>1
  <2>3. CASE Val(Dec(q)) = Val(q) - 1 + Word
    <3>1. Val(Dec(q)) = Val(q) - 1 + Word * 1
      BY <1>1, <2>1, <2>3, WordFacts
    <3>2. QED
      BY <3>1
  <2>4. QED
    BY <2>2, <2>3, ValDec
<1>4. i \in Int /\ j \in Int
  OBVIOUS
<1> DEFINE x == Val(p)  y == Val(q)  u == Val(Inc(p))  v == Val(Dec(q))
<1> HIDE DEF x, y, u, v
<1>5. u + v = (x + y) + Word * (i + j)
  <2>1. u = x + 1 + Word * i /\ v = y - 1 + Word * j /\ x \in Int /\ y \in Int
    BY <1>1, <1>2, <1>3 DEF x, y, u, v
  <2>2. Word * i \in Int /\ Word * j \in Int /\ Word * (i + j) = Word * i + Word * j
    BY <1>4, WordFacts
  <2>3. QED
    BY <2>1, <2>2
<1>6. x + y \in Int /\ i + j \in Int
  BY <1>1, <1>4 DEF x, y
<1>7. QED
  BY <1>1, <1>5, <1>6, SumCongruent DEF x, y, u, v

LEMMA ProceedEnds ==
  ASSUME Exclusive, NEW t \in Tpl, Local(t), Counting(t), Ends(frame[t].Channel), Proceed(t),
         NEW c, c = frame[t].Channel
  PROVE  Ends(c)'
<1>1. /\ TypeInv /\ c \in Chan /\ DmaChannels \in [Chan -> ChannelInfo]
      /\ frame[t].Address \in Nat /\ CountReg(t) \in Int
  BY CallFacts DEF Local, TypeInv, TypeOK, Frame
<1>2. CASE ProgStore(t)
  <2> DEFINE f == frame[t]
             d == [Mode |-> f.Mode, Count |-> f.Count, Address |-> f.Address, IsActive |-> FALSE]
  <2>1. At(t, "prog_store") /\ ch' = ch /\ DmaChannels' = [DmaChannels EXCEPT ![c] = d]
    BY <1>2 DEF ProgStore
  <2>2. f.Address < BusSize /\ ch[c].addr = Bytes(f.Address) /\ ch[c].count = Bytes(CountReg(t))
    BY <2>1 DEF Counting, Programming, At, Rewriting, AfterAddr
  <2>3. DmaChannels'[c].Address = f.Address /\ DmaChannels'[c].Count = f.Count
    BY <1>1, <2>1
  <2>4. (Val(ch[c].addr) + Val(ch[c].count)) % Word = (f.Address + CountReg(t)) % Word
    BY <1>1, <2>2, BytesEnd
  <2>5. f.Address + CountReg(t) = f.Address + TransferCount(c, f.Count) - 1
    <3>1. CountReg(t) = TransferCount(c, f.Count) - 1 /\ TransferCount(c, f.Count) \in Int
      BY <1>1 DEF CountReg, TransferCount, TypeInv, TypeOK, Frame
    <3>2. QED
      BY <1>1, <3>1
  <2>6. QED
    BY <2>1, <2>2, <2>3, <2>4, <2>5 DEF Ends, EndsRight
<1>3. CASE /\ Program(t) /\ ~ProgStore(t)
  <2>1. PICK pc \in Rewriting : \E port, v : Out(t, port, v, pc)
    <3>1. {"prog_clear", "prog_mode", "prog_addr_lo", "prog_addr_hi", "prog_page", "prog_count_lo",
           "prog_count_hi", "prog_store"} \subseteq Rewriting
      BY DEF Rewriting
    <3>2. QED
      BY <1>3, <3>1, Zenon DEF Program, ProgMask, ProgClear, ProgMode, ProgAddrLo, ProgAddrHi,
            ProgPage, ProgCountLo, ProgCountHi
  <2>2. frame'[t].pc = pc /\ frame'[t].Channel = c /\ DmaChannels' = DmaChannels
    BY <2>1, OutFrame DEF Pc
  <2>3. Reprogramming(c)'
    BY <2>2 DEF Reprogramming
  <2>4. QED
    BY <2>2, <2>3 DEF Ends, EndsRight
<1>4. CASE ~Program(t)
  <2>1. frame[t].pc \notin Rewriting /\ frame[t].pc # "idle"
    BY <1>4 DEF Proceed, Start, Stop, GetStatus, StartUnmask, StartMark, StopMask, StopMark, Mark,
                StatRead, StatClear, StatCountLo, StatCountHi, StatStore, At, Rewriting
  <2>2. ~Reprogramming(c)
    BY <2>1, SoleProgrammer
  <2>3. CountersKept(c)
    BY <1>1, <1>4, CountersOnlyWritten DEF Program, WritesCounter
  <2>4. \/ DmaChannels' = DmaChannels
        \/ \E b : DmaChannels' = [DmaChannels EXCEPT ![c] = [DmaChannels[c] EXCEPT !.IsActive = b]]
    BY <1>4, Zenon DEF Proceed, Start, Stop, GetStatus, StartUnmask, StartMark, StopMask, StopMark, Mark,
                StatRead, StatClear, StatCountLo, StatCountHi, StatStore, Out
  <2>5. /\ DmaChannels'[c].Mode = DmaChannels[c].Mode
        /\ DmaChannels'[c].Count = DmaChannels[c].Count
        /\ DmaChannels'[c].Address = DmaChannels[c].Address
    <3>1. ASSUME NEW b, DmaChannels' = [DmaChannels EXCEPT ![c] = [DmaChannels[c] EXCEPT !.IsActive = b]]
          PROVE  DmaChannels'[c] = [DmaChannels[c] EXCEPT !.IsActive = b]
      BY <1>1, <3>1
    <3>2. ASSUME NEW b, NEW r \in ChannelInfo
          PROVE  LET q == [r EXCEPT !.IsActive = b] IN
                 q.Mode = r.Mode /\ q.Count = r.Count /\ q.Address = r.Address
      BY DEF ChannelInfo
    <3>3. DmaChannels[c] \in ChannelInfo
      BY <1>1
    <3>4. CASE DmaChannels' = DmaChannels
      BY <3>4
    <3>5. ASSUME NEW b, DmaChannels' = [DmaChannels EXCEPT ![c] = [DmaChannels[c] EXCEPT !.IsActive = b]]
          PROVE  /\ DmaChannels'[c].Mode = DmaChannels[c].Mode
                 /\ DmaChannels'[c].Count = DmaChannels[c].Count
                 /\ DmaChannels'[c].Address = DmaChannels[c].Address
      BY <3>1, <3>2, <3>3, <3>5
    <3>6. QED
      BY <2>4, <3>4, <3>5
  <2>6. QED
    BY <1>1, <2>2, <2>3, <2>5, EndsKept
<1>5. QED
  BY <1>2, <1>3, <1>4

LEMMA CycleEnds ==
  ASSUME TypeInv, NEW c \in Chan, BusCycle(c), Good(c), Ends(c)
  PROVE  Ends(c)' /\ \A e \in Chan \ {c} : CountersKept(e)
<1> DEFINE r == ch[c]  d == DmaChannels[c]
<1>1. /\ ch \in [Chan -> Channel] /\ DmaChannels \in [Chan -> ChannelInfo]
      /\ r.addr \in Pair /\ r.count \in Pair /\ r \in Channel
  BY DEF TypeInv, TypeOK, DmaTypeOK, Channel
<1>2. /\ frame' = frame /\ DmaChannels' = DmaChannels /\ ch' = [ch EXCEPT ![c] = Cycle(r)]
      /\ ch'[c] = Cycle(r)
  BY <1>1 DEF BusCycle, Transfer
<1>3. \A e \in Chan \ {c} : CountersKept(e)
  BY <1>1, <1>2 DEF CountersKept
<1>4. \/ Cycle(r).addr = Inc(r.addr) /\ Cycle(r).count = Dec(r.count)
      \/ Cycle(r).addr = r.baseAddr /\ Cycle(r).count = r.baseCount
  BY <1>1 DEF Cycle, Channel
<1>5. CASE Cycle(r).addr = Inc(r.addr) /\ Cycle(r).count = Dec(r.count)
  <2>1. (Val(ch'[c].addr) + Val(ch'[c].count)) % Word = (Val(r.addr) + Val(r.count)) % Word
    BY <1>1, <1>2, <1>5, CountdownSum
  <2>2. QED
    BY <1>2, <1>3, <2>1 DEF Ends, EndsRight, Programmed, Reprogramming
<1>6. CASE Cycle(r).addr = r.baseAddr /\ Cycle(r).count = r.baseCount
  <2> SUFFICES ASSUME Programmed(c), ~Reprogramming(c)
               PROVE  (Val(ch'[c].addr) + Val(ch'[c].count)) % Word
                        = (d.Address + TransferCount(c, d.Count) - 1) % Word
    BY <1>2, <1>3 DEF Ends, EndsRight, Programmed, Reprogramming
  <2>1. r.baseAddr = Bytes(d.Address) /\ r.baseCount = Bytes(TransferCount(c, d.Count) - 1)
    BY DEF Good, Loaded
  <2>2. d.Address \in Int /\ TransferCount(c, d.Count) \in Int
    BY <1>1 DEF ChannelInfo, TransferCount
  <2> DEFINE n == TransferCount(c, d.Count)  a == d.Address
  <2>3. (Val(Bytes(a)) + Val(Bytes(n - 1))) % Word = (a + (n - 1)) % Word
    <3>1. a \in Int /\ n - 1 \in Int
      BY <2>2
    <3> HIDE DEF a, n
    <3>2. QED
      BY <3>1, BytesEnd
  <2>4. a + (n - 1) = a + n - 1
    BY <2>2
  <2>5. QED
    BY <1>2, <1>6, <2>1, <2>3, <2>4
<1>7. QED
  BY <1>4, <1>5, <1>6

LEMMA OthersExact ==
  ASSUME RouteInv, NEW t \in Tpl, Proceed(t)
  PROVE  Untouched(t)
BY WritesSame, SameUntouched, ReadsUntouched DEF Proceed, GetStatus, RouteInv

LEMMA UntouchedCounters ==
  ASSUME TypeInv, NEW t \in Tpl, Untouched(t), NEW d \in Chan \ {frame[t].Channel}
  PROVE  CountersKept(d) /\ ch'[d].mask = ch[d].mask /\ ch'[d].page = ch[d].page
<1>1. ch[d] \in Channel /\ ch'[d] = [ch[d] EXCEPT !.tc = ch'[d].tc]
  BY DEF Untouched, TypeInv, TypeOK, DmaTypeOK
<1>2. QED
  BY <1>1 DEF CountersKept, Channel

LEMMA CountStep ==
  ASSUME Exclusive, RouteInv, CountInv, [Next]_vars
  PROVE  CountInv'
<1>1. SafetyInv' /\ SafetyInv /\ TypeInv /\ TypeInv' /\ Owners
  BY SafetyStep, SafetyLocal DEF CountInv, SafetyInv
<1>2. ASSUME ch' = ch, DmaChannels' = DmaChannels,
             NEW t \in Tpl, Counting(t)', \A u \in Tpl \ {t} : frame'[u] = frame[u],
             frame[t].pc \notin Rewriting
      PROVE  CountInv'
  <2>1. ASSUME NEW u \in Tpl PROVE Counting(u)'
    BY <1>2, CountingKept DEF CountInv, CountersKept
  <2>2. ASSUME NEW d \in Chan PROVE Ends(d)'
    BY <1>2, EndsKept DEF CountInv, CountersKept, Reprogramming
  <2>3. QED
    BY <1>1, <2>1, <2>2 DEF CountInv
<1>3. ASSUME NEW t \in Tpl, Call(t) PROVE CountInv'
  BY <1>1, <1>2, <1>3, CallBegins, CallCounts DEF Rewriting
<1>4. ASSUME NEW t \in Tpl, Proceed(t) PROVE CountInv'
  <2>0. PICK c \in Chan : c = frame[t].Channel
    BY <1>1, SafetyLocal
  <2>1. Local(t) /\ Counting(t) /\ Ends(c) /\ Ends(frame[t].Channel)
    BY <1>1, <2>0, SafetyLocal DEF CountInv
  <2>2. OnlyIts(t)
    BY <1>1, <1>4, <2>1, <2>0, StepProceedLocal
  <2>3. \A d \in Chan \ {c} : CountersKept(d)
    BY <1>1, <1>4, <2>0, OthersExact, UntouchedCounters
  <2>4. Counting(t)' /\ Ends(c)'
    BY <1>4, <2>0, <2>1, ProceedCounts, ProceedEnds
  <2>5. ASSUME NEW u \in Tpl \ {t} PROVE Counting(u)'
    <3>1. frame[u].pc \in Rewriting => frame[u].Channel \in Chan \ {c}
      <4>1. frame[t].pc # "idle"
        BY <2>2 DEF OnlyIts
      <4>2. frame[u].Channel \in Chan
        BY <1>1 DEF TypeInv, TypeOK, Frame
      <4>3. QED
        BY <1>1, <2>0, <4>1, <4>2 DEF Owners, Exclusive, Rewriting
    <3>2. frame'[u] = frame[u] /\ Counting(u)
      BY <2>2 DEF OnlyIts, CountInv
    <3>3. QED
      BY <2>3, <3>1, <3>2, CountingKept
  <2>6. ASSUME NEW d \in Chan \ {c} PROVE Ends(d)'
    <3>1. Reprogramming(d) => Reprogramming(d)'
      BY <2>0, <2>2 DEF Reprogramming, OnlyIts
    <3>2. QED
      BY <2>0, <2>2, <2>3, <3>1, EndsKept DEF OnlyIts, Kept, CountInv
  <2>7. QED
    BY <1>1, <2>4, <2>5, <2>6 DEF CountInv
<1>5. ASSUME NEW c \in Chan, BusCycle(c) PROVE CountInv'
  <2>1. frame' = frame /\ DmaChannels' = DmaChannels /\ ~ch[c].mask
    BY <1>5 DEF BusCycle, Transfer, Granted
  <2>2. Ends(c)' /\ \A d \in Chan \ {c} : CountersKept(d)
    BY <1>1, <1>5, CycleEnds DEF CountInv, SafetyInv
  <2>3. ASSUME NEW d \in Chan \ {c} PROVE Ends(d)'
    BY <2>1, <2>2, EndsKept DEF CountInv, Reprogramming
  <2>4. ASSUME NEW u \in Tpl PROVE Counting(u)'
    <3>1. frame[u].pc \in Rewriting => frame[u].Channel \in Chan \ {c}
      BY <1>1, <2>1 DEF SafetyInv, Progress, TypeInv, TypeOK, Frame
    <3>2. QED
      BY <2>1, <2>2, <3>1, CountingKept DEF CountInv
  <2>5. QED
    BY <1>1, <2>2, <2>3, <2>4 DEF CountInv
<1>6. CASE UNCHANGED vars
  <2>1. ch' = ch /\ DmaChannels' = DmaChannels /\ frame' = frame
    BY <1>6 DEF vars
  <2>2. ASSUME NEW u \in Tpl PROVE Counting(u)'
    BY <2>1, CountingKept DEF CountInv, CountersKept
  <2>3. ASSUME NEW d \in Chan PROVE Ends(d)'
    BY <2>1, EndsKept DEF CountInv, CountersKept, Reprogramming
  <2>4. QED
    BY <1>1, <2>2, <2>3 DEF CountInv
<1>7. QED
  BY <1>3, <1>4, <1>5, <1>6 DEF Next

LEMMA CountInit == Init => CountInv
<1> SUFFICES ASSUME Init PROVE CountInv
  OBVIOUS
<1>1. \A t \in Tpl : Counting(t)
  BY DEF Init, Returned, Counting, Programming, Rewriting, AfterAddr
<1>2. 0 < BusSize
  <2>1. Word * Byte >= Word
    BY WordFacts
  <2>2. QED
    BY <2>1, WordFacts DEF BusSize
<1>3. \A c \in Chan : DmaChannels[c].Address = 0 /\ DmaChannels[c].Mode = 0
  BY DEF Init
<1>4. \A c \in Chan : Ends(c)
  BY <1>2, <1>3 DEF Ends, EndsRight, Programmed
<1>5. QED
  BY <1>1, <1>4, SafetyInit DEF CountInv

(* The invariant holds in every execution.                                 *)
THEOREM CountInvariant == ASSUME Exclusive PROVE Spec => []CountInv
BY CountInit, CountStep, RouteInit, RouteStep, PTL DEF Spec

(* For any width of the registers: however far a channel has run, through  *)
(* wrap-around, auto-initialization, status polls, stops and restarts, its *)
(* address and its count still end where the programmed region ends.       *)
THEOREM CountdownEnds == ASSUME Exclusive PROVE Spec => []CountdownKeepsEnd
<1>1. CountInv => CountdownKeepsEnd
  BY DEF CountInv, Ends, EndsRight, CountdownKeepsEnd
<1>2. QED
  BY <1>1, CountInvariant, PTL

-----------------------------------------------------------------------------
(* The refinement, channel by channel.                                     *)

(* What DmaTasks sees of a channel.                                        *)
TaskOf(c) == [Address |-> DmaChannels[c].Address,
              Count |-> DmaChannels[c].Count,
              Auto |-> AutoInit([mode |-> DmaChannels[c].Mode])]
On(c) == ~ch[c].mask
Left(c) == IF Holds(c) THEN (Val(ch[c].count) + 1) % Word ELSE 0
AtAddress(c) == IF Holds(c) THEN ch[c].page * Word + Val(ch[c].addr) ELSE 0

SameTask(c) ==
  TaskOf(c)' = TaskOf(c) /\ On(c)' = On(c) /\ Left(c)' = Left(c) /\ AtAddress(c)' = AtAddress(c)

(* The operations of DmaTasks, at one channel.                             *)
Voids(c) == TaskOf(c)' = TaskOf(c) /\ ~On(c)' /\ Left(c)' = 0 /\ AtAddress(c)' = 0
Commits(c) ==
  /\ ~On(c) /\ ~On(c)' /\ Left(c) = 0
  /\ TaskOf(c)' \in Tasks!Task /\ TaskOf(c)'.Count # 0
  /\ Left(c)' = TaskOf(c)'.Count /\ AtAddress(c)' = TaskOf(c)'.Address
Enables(c) ==
  /\ TaskOf(c).Count # 0 /\ On(c)'
  /\ TaskOf(c)' = TaskOf(c) /\ Left(c)' = Left(c) /\ AtAddress(c)' = AtAddress(c)
Disables(c) ==
  ~On(c)' /\ TaskOf(c)' = TaskOf(c) /\ Left(c)' = Left(c) /\ AtAddress(c)' = AtAddress(c)
Moves(c) ==
  /\ On(c) /\ TaskOf(c)' = TaskOf(c)
  /\ IF Left(c) = 1 /\ TaskOf(c).Auto
     THEN Left(c)' = TaskOf(c).Count /\ AtAddress(c)' = TaskOf(c).Address
     ELSE /\ Left(c)' = (Left(c) - 1) % Word
          /\ AtAddress(c)' = Tasks!NextAddress(AtAddress(c))
  /\ On(c)' <=> Left(c) # 1 \/ TaskOf(c).Auto

TaskStep(c) == SameTask(c) \/ Voids(c) \/ Commits(c) \/ Enables(c) \/ Disables(c) \/ Moves(c)

(* A step at one channel, all others the same, is a step of DmaTasks.      *)
LEMMA Pointwise ==
  ASSUME NEW c \in Narrow, TaskStep(c), \A d \in Narrow \ {c} : SameTask(d)
  PROVE  [Tasks!Next]_(Tasks!vars)
<1> DEFINE task == [d \in Narrow |-> TaskOf(d)]
           on == [d \in Narrow |-> On(d)]
           left == [d \in Narrow |-> Left(d)]
           at == [d \in Narrow |-> AtAddress(d)]
<1>1. /\ task' = [task EXCEPT ![c] = TaskOf(c)'] /\ on' = [on EXCEPT ![c] = On(c)']
      /\ left' = [left EXCEPT ![c] = Left(c)'] /\ at' = [at EXCEPT ![c] = AtAddress(c)']
  BY DEF SameTask
<1>2. /\ task[c] = TaskOf(c) /\ on[c] = On(c) /\ left[c] = Left(c) /\ at[c] = AtAddress(c)
      /\ task'[c] = TaskOf(c)'
  OBVIOUS
<1>3. /\ (TaskOf(c)' = TaskOf(c) => task' = task) /\ (On(c)' = On(c) => on' = on)
      /\ (Left(c)' = Left(c) => left' = left) /\ (AtAddress(c)' = AtAddress(c) => at' = at)
  BY DEF SameTask
<1>4. CASE SameTask(c)
  BY <1>3, <1>4 DEF SameTask, Tasks!vars, TaskOf, On, Left, AtAddress
<1>5. CASE Voids(c)
  <2>1. task' = task /\ on' = [on EXCEPT ![c] = FALSE] /\ left' = [left EXCEPT ![c] = 0] /\ at' = [at EXCEPT ![c] = 0]
    <3>1. on' = [d \in Narrow |-> IF d = c THEN FALSE ELSE On(d)]
      BY <1>5 DEF Voids, SameTask, On
    <3>2. QED
      BY <1>1, <1>3, <1>5, <3>1 DEF Voids
  <2>2. Tasks!Void(c)
    BY <2>1 DEF Tasks!Void, TaskOf, On, Left, AtAddress
  <2>3. QED
    BY <2>2 DEF Tasks!Next
<1>6. CASE Commits(c)
  <2>1. on' = on
    BY <1>3, <1>6 DEF Commits, On
  <2>2. /\ ~on[c] /\ left[c] = 0 /\ task'[c] \in Tasks!Task /\ task'[c].Count # 0
        /\ task' = [task EXCEPT ![c] = task'[c]]
        /\ left' = [left EXCEPT ![c] = task'[c].Count]
        /\ at' = [at EXCEPT ![c] = task'[c].Address]
    BY <1>1, <1>2, <1>6 DEF Commits
  <2>3. Tasks!Commit(c)
    BY <2>1, <2>2 DEF Tasks!Commit, TaskOf, On, Left, AtAddress
  <2>4. QED
    BY <2>3 DEF Tasks!Next
<1>7. CASE Enables(c)
  <2>1. on' = [on EXCEPT ![c] = TRUE]
    <3>1. on' = [d \in Narrow |-> IF d = c THEN TRUE ELSE On(d)]
      BY <1>7 DEF Enables, SameTask, On
    <3>2. QED
      BY <3>1
  <2>2. task[c].Count # 0 /\ task' = task /\ left' = left /\ at' = at
    BY <1>2, <1>3, <1>7 DEF Enables
  <2>3. Tasks!Enable(c)
    BY <2>1, <2>2 DEF Tasks!Enable, TaskOf, On, Left, AtAddress
  <2>4. QED
    BY <2>3 DEF Tasks!Next
<1>8. CASE Disables(c)
  <2>1. on' = [on EXCEPT ![c] = FALSE]
    <3>1. on' = [d \in Narrow |-> IF d = c THEN FALSE ELSE On(d)]
      BY <1>8 DEF Disables, SameTask, On
    <3>2. QED
      BY <3>1
  <2>2. task' = task /\ left' = left /\ at' = at
    BY <1>3, <1>8 DEF Disables
  <2>3. Tasks!Disable(c)
    BY <2>1, <2>2 DEF Tasks!Disable, TaskOf, On, Left, AtAddress
  <2>4. QED
    BY <2>3 DEF Tasks!Next
<1>9. CASE Moves(c)
  <2>1. on' = [on EXCEPT ![c] = left[c] # 1 \/ task[c].Auto]
    <3> DEFINE b == left[c] # 1 \/ task[c].Auto
    <3>1. On(c)' <=> b
      BY <1>2, <1>9 DEF Moves
    <3> HIDE DEF b
    <3>2. on' = [d \in Narrow |-> IF d = c THEN On(c)' ELSE On(d)]
      BY <1>1
    <3>3. b \in BOOLEAN /\ On(c)' \in BOOLEAN
      BY DEF b, On
    <3>4. On(c)' = b
      BY <3>1, <3>3
    <3>5. QED
      BY <1>1, <3>4 DEF b
  <2>2. on[c] /\ task' = task
    BY <1>2, <1>3, <1>9 DEF Moves
  <2>3. IF left[c] = 1 /\ task[c].Auto
        THEN /\ left' = [left EXCEPT ![c] = task[c].Count]
             /\ at' = [at EXCEPT ![c] = task[c].Address]
        ELSE /\ left' = [left EXCEPT ![c] = (left[c] - 1) % Word]
             /\ at' = [at EXCEPT ![c] = Tasks!NextAddress(at[c])]
    BY <1>1, <1>2, <1>9 DEF Moves
  <2>4. Tasks!Unit(c)
    BY <2>1, <2>2, <2>3 DEF Tasks!Unit, TaskOf, On, Left, AtAddress
  <2>5. QED
    BY <2>4 DEF Tasks!Next
<1>10. QED
  BY <1>4, <1>5, <1>6, <1>7, <1>8, <1>9 DEF TaskStep

-----------------------------------------------------------------------------
(* Which step of the driver is which operation of DmaTasks.                *)

(* A step changes no other call, and moves none to another channel.        *)
LEMMA ProceedFrame ==
  ASSUME TypeInv, NEW t \in Tpl, Proceed(t)
  PROVE  /\ \A u \in Tpl \ {t} : frame'[u] = frame[u]
         /\ frame[t].pc # "idle"
         /\ frame'[t].pc \in Rewriting => frame'[t].Channel = frame[t].Channel
<1>1. \A u \in Tpl \ {t} : frame'[u] = frame[u]
  BY OthersCallsKept
<1>2. frame[t].pc # "idle"
  BY Zenon DEF Proceed, Program, Start, Stop, GetStatus, ProgMask, ProgClear, ProgMode,
     ProgAddrLo, ProgAddrHi, ProgPage, ProgCountLo, ProgCountHi, ProgStore, StartUnmask, StopMask,
     StatRead, StatClear, StatCountLo, StatCountHi, StartMark, StopMark, StatStore, Mark, At
<1>3. QED
  BY <1>1, <1>2, ProgramGoesOn DEF Programming

LEMMA ChannelStays ==
  ASSUME TypeInv, NEW t \in Tpl, Proceed(t)
  PROVE  frame'[t].pc # "idle" => frame'[t].Channel = frame[t].Channel
<1>1. frame \in [Tpl -> Frame] /\ frame[t] \in Frame
  BY DEF TypeInv, TypeOK
<1>2. ASSUME NEW pc, Goto(t, pc) PROVE frame'[t].Channel = frame[t].Channel
  BY <1>1, <1>2 DEF Goto, Frame
<1>3. ASSUME Return(t, "SUCCESS") PROVE frame'[t].pc = "idle"
  BY <1>1, <1>3 DEF Return, Returned
<1>4. CASE Program(t) \/ Start(t) \/ Stop(t) \/ StatClear(t) \/ StatStore(t)
  BY <1>2, <1>3, <1>4, Zenon
  DEF Program, Start, Stop, ProgMask, ProgClear, ProgMode, ProgAddrLo, ProgAddrHi, ProgPage,
      ProgCountLo, ProgCountHi, ProgStore, StartUnmask, StartMark, StopMask, StopMark,
      StatClear, StatStore, Out, Mark
<1>5. CASE StatRead(t) \/ StatCountLo(t) \/ StatCountHi(t)
  BY <1>1, <1>5 DEF StatRead, StatCountLo, StatCountHi, Frame
<1>6. QED
  BY <1>4, <1>5 DEF Proceed, GetStatus

(* Of the channels a step does not touch, DmaTasks sees nothing.           *)
LEMMA OthersSame ==
  ASSUME RouteInv, NEW t \in Tpl, Proceed(t),
         NEW d \in Chan \ {frame[t].Channel}
  PROVE  SameTask(d)
<1>1. TypeInv /\ Untouched(t)
  BY OthersExact DEF RouteInv
<1>2. CountersKept(d) /\ ch'[d].mask = ch[d].mask /\ ch'[d].page = ch[d].page
  BY <1>1, UntouchedCounters
<1>3. DmaChannels'[d] = DmaChannels[d]
  BY <1>1 DEF Untouched
<1>4. Reprogramming(d)' <=> Reprogramming(d)
  BY <1>1, ProceedFrame DEF Reprogramming
<1>5. QED
  BY <1>2, <1>3, <1>4 DEF SameTask, TaskOf, On, Left, AtAddress, Holds, Programmed, CountersKept

(* Status calls and marks change terminal-count bits at most.              *)
LEMMA OnlyTc ==
  ASSUME TypeInv, NEW t \in Tpl, Start(t) \/ Stop(t) \/ GetStatus(t), ~StartUnmask(t), ~StopMask(t),
         NEW e \in Chan
  PROVE  ch'[e].mask = ch[e].mask /\ ch'[e].page = ch[e].page
<1> DEFINE c == frame[t].Channel
<1>1. c \in Chan /\ ch \in [Chan -> Channel]
  BY DEF TypeInv, TypeOK, Frame, DmaTypeOK
<1> HIDE DEF c
<1>2. CASE StatRead(t)
  <2>1. PICK k \in Ctrl :
          ch' = [d \in Chan |-> IF Of(d) = k THEN [ch[d] EXCEPT !.tc = FALSE] ELSE ch[d]]
    BY <1>2 DEF StatRead, StatusRead
  <2>2. QED
    BY <1>1, <2>1 DEF Channel
<1>3. CASE StatClear(t)
  <2>1. Out(t, ClearPort(c), 255, "stat_lo")
    BY <1>3, Zenon DEF StatClear, c
  <2>2. QED
    BY <1>1, <2>1, WriteRouted DEF Out, ClearFlipFlop
<1>4. CASE StatCountLo(t) \/ StatCountHi(t) \/ StartMark(t) \/ StopMark(t) \/ StatStore(t)
  BY <1>4, Zenon DEF StatCountLo, StatCountHi, PortRead, StartMark, StopMark, StatStore, Mark
<1>5. QED
  BY <1>2, <1>3, <1>4 DEF Start, Stop, GetStatus

LEMMA RecordKept ==
  ASSUME TypeInv, NEW t \in Tpl, Proceed(t), ~ProgStore(t), NEW e \in Chan
  PROVE  TaskOf(e)' = TaskOf(e) /\ DmaChannels'[e].Mode = DmaChannels[e].Mode
<1>1. DmaChannels \in [Chan -> ChannelInfo] /\ frame[t].Channel \in Chan
  BY DEF TypeInv, TypeOK, Frame
<1>2. \/ DmaChannels' = DmaChannels
      \/ \E b : DmaChannels' = [DmaChannels EXCEPT ![frame[t].Channel]
                                  = [DmaChannels[frame[t].Channel] EXCEPT !.IsActive = b]]
  BY Zenon DEF Proceed, Program, Start, Stop, GetStatus, ProgMask, ProgClear, ProgMode,
     ProgAddrLo, ProgAddrHi, ProgPage, ProgCountLo, ProgCountHi, StartUnmask, StopMask,
     StatRead, StatClear, StatCountLo, StatCountHi, StartMark, StopMark, StatStore, Mark, Out
<1>3. ASSUME NEW b, DmaChannels' = [DmaChannels EXCEPT ![frame[t].Channel]
                                      = [DmaChannels[frame[t].Channel] EXCEPT !.IsActive = b]]
      PROVE  DmaChannels'[e] = DmaChannels[e] \/ DmaChannels'[e] = [DmaChannels[e] EXCEPT !.IsActive = b]
  BY <1>1, <1>3
<1>4. DmaChannels[e] \in ChannelInfo
  BY <1>1
<1>5. /\ DmaChannels'[e].Mode = DmaChannels[e].Mode
      /\ DmaChannels'[e].Count = DmaChannels[e].Count
      /\ DmaChannels'[e].Address = DmaChannels[e].Address
  BY <1>2, <1>3, <1>4 DEF ChannelInfo
<1>6. QED
  BY <1>5 DEF TaskOf

(* The steps of LegacyDmaProgramChannel: Void, stutters and Commit.        *)
LEMMA ProgramRefines ==
  ASSUME Exclusive, NEW t \in Tpl, Local(t), TypeInv', Counting(t), Program(t),
         NEW c \in Narrow, c = frame[t].Channel
  PROVE  TaskStep(c)
<1>1. /\ TypeInv /\ c \in Chan /\ frame \in [Tpl -> Frame] /\ DmaChannels \in [Chan -> ChannelInfo]
      /\ frame[t].Address \in Nat /\ frame[t].Count \in 0 .. Word - 1 /\ Proceed(t)
  BY DEF Local, TypeInv, TypeOK, Frame, Chan, Narrow, Proceed
<1>2. Progress(t)'
  BY <1>1, StepProceedLocal
<1>3. CASE ProgStore(t)
  <2> DEFINE f == frame[t]
             d == [Mode |-> f.Mode, Count |-> f.Count, Address |-> f.Address, IsActive |-> FALSE]
  <2>1. /\ At(t, "prog_store") /\ ch' = ch /\ DmaChannels' = [DmaChannels EXCEPT ![c] = d]
        /\ Return(t, "SUCCESS")
    BY <1>3 DEF ProgStore
  <2>2. /\ ch[c].mask /\ f.Mode # 0 /\ ch[c].page = Pg(f.Address)
        /\ ch[c].addr = Bytes(f.Address) /\ ch[c].count = Bytes(CountReg(t))
        /\ f.Address < BusSize /\ f.Count # 0
    BY <2>1 DEF Counting, Programming, At, Rewriting, AfterAddr, AfterPage, Local, Progress
  <2>3. DmaChannels'[c].Address = f.Address /\ DmaChannels'[c].Count = f.Count /\ DmaChannels'[c].Mode = f.Mode
    BY <1>1, <2>1
  <2>4. Reprogramming(c) /\ Left(c) = 0
    BY <2>1 DEF Reprogramming, At, Rewriting, Left, Holds
  <2>5. ~Reprogramming(c)' /\ Holds(c)'
    <3>1. frame'[t].pc = "idle" /\ \A u \in Tpl \ {t} : frame'[u] = frame[u]
      BY <1>1, <2>1, ReturnFrame
    <3>2. \A u \in Tpl \ {t} : frame[u].pc \in Rewriting => frame[u].Channel # c
      BY <2>1 DEF Exclusive, Local, Owners, At, Rewriting
    <3>3. ~Reprogramming(c)'
      BY <3>1, <3>2 DEF Reprogramming, Rewriting
    <3>4. QED
      BY <2>2, <2>3, <3>3 DEF Holds, Programmed
  <2>6. CountReg(t) \in 0 .. Word - 1 /\ (CountReg(t) + 1) % Word = f.Count
    <3>1. CountReg(t) = f.Count - 1
      BY DEF CountReg, TransferCount, Wide, Narrow
    <3>2. CountReg(t) \in 0 .. Word - 1
      BY <1>1, <2>2, <3>1, WordFacts
    <3>3. f.Count = Word * 0 + f.Count /\ f.Count - 1 + 1 = f.Count
      BY <1>1, WordFacts
    <3>4. f.Count % Word = f.Count
      BY <1>1, <3>3, WordFacts, DivModUnique
    <3>5. QED
      BY <3>1, <3>2, <3>3, <3>4
  <2>7. Left(c)' = f.Count
    BY <2>1, <2>2, <2>5, <2>6, CountWhole DEF Left
  <2>8. AtAddress(c)' = f.Address
    BY <1>1, <2>1, <2>2, <2>5, AddressWhole DEF AtAddress
  <2>9. TaskOf(c)' \in Tasks!Task /\ TaskOf(c)'.Count = f.Count /\ TaskOf(c)'.Address = f.Address
    BY <1>1, <2>3 DEF TaskOf, Tasks!Task, AutoInit
  <2>10. QED
    BY <2>1, <2>2, <2>4, <2>7, <2>8, <2>9 DEF TaskStep, Commits, On
<1>4. CASE ~ProgStore(t)
  <2>1. PICK pc \in Rewriting : \E port, v : Out(t, port, v, pc)
    <3>1. {"prog_clear", "prog_mode", "prog_addr_lo", "prog_addr_hi", "prog_page", "prog_count_lo",
           "prog_count_hi", "prog_store"} \subseteq Rewriting
      BY DEF Rewriting
    <3>2. QED
      BY <1>4, <3>1, Zenon DEF Program, ProgMask, ProgClear, ProgMode, ProgAddrLo, ProgAddrHi,
            ProgPage, ProgCountLo, ProgCountHi
  <2>2. frame'[t].pc = pc /\ frame'[t].Channel = c
    BY <2>1, OutFrame DEF Pc
  <2>3. Reprogramming(c)' /\ ch'[c].mask
    BY <1>2, <2>2 DEF Reprogramming, Progress
  <2>4. Voids(c)
    BY <1>1, <1>4, <2>3, RecordKept DEF Voids, On, Left, AtAddress, Holds
  <2>5. QED
    BY <2>4 DEF TaskStep
<1>5. QED
  BY <1>3, <1>4

(* LegacyDmaStart, Stop and Status: Enable, Disable and stutters.          *)
LEMMA ControlRefines ==
  ASSUME Exclusive, NEW t \in Tpl, Local(t), TypeInv', Start(t) \/ Stop(t) \/ GetStatus(t),
         NEW c \in Narrow, c = frame[t].Channel
  PROVE  TaskStep(c)
<1>1. TypeInv /\ c \in Chan /\ Proceed(t) /\ ~Program(t) /\ ch \in [Chan -> Channel]
  <2>1. frame[t].pc \notin Rewriting \cup {"prog_mask"}
    BY DEF Start, Stop, GetStatus, StartUnmask, StartMark, StopMask, StopMark, Mark,
           StatRead, StatClear, StatCountLo, StatCountHi, StatStore, At, Rewriting
  <2>2. ~Program(t)
    BY <2>1 DEF Program, ProgMask, ProgClear, ProgMode, ProgAddrLo, ProgAddrHi, ProgPage,
                ProgCountLo, ProgCountHi, ProgStore, At, Rewriting
  <2>3. QED
    BY <2>2 DEF Local, TypeInv, TypeOK, DmaTypeOK, Chan, Narrow, Proceed
<1>2. CountersKept(c) /\ TaskOf(c)' = TaskOf(c) /\ DmaChannels'[c].Mode = DmaChannels[c].Mode
  BY <1>1, CountersOnlyWritten, RecordKept DEF Program, WritesCounter
<1>3. ~Reprogramming(c) /\ ~Reprogramming(c)'
  <2>1. frame[t].pc \notin Rewriting /\ frame[t].pc # "idle"
    BY DEF Start, Stop, GetStatus, StartUnmask, StartMark, StopMask, StopMark, Mark,
           StatRead, StatClear, StatCountLo, StatCountHi, StatStore, At, Rewriting
  <2>2. ~Reprogramming(c)
    BY <2>1, SoleProgrammer
  <2>3. frame'[t].pc \notin Rewriting
    <3>1. Programming(t)' => Programming(t) /\ frame[t].pc = "prog_mask"
      BY <1>1, <2>1, ProgramGoesOn DEF Programming
    <3>2. frame[t].pc # "prog_mask"
      BY DEF Start, Stop, GetStatus, StartUnmask, StartMark, StopMask, StopMark, Mark,
             StatRead, StatClear, StatCountLo, StatCountHi, StatStore, At
    <3>3. QED
      BY <3>1, <3>2 DEF Programming
  <2>4. QED
    BY <1>1, <2>2, <2>3, ProceedFrame DEF Reprogramming
<1>4. ch'[c].page = ch[c].page /\ (~StartUnmask(t) /\ ~StopMask(t) => ch'[c].mask = ch[c].mask)
  <2>1. ASSUME NEW v, NEW pc, Out(t, MaskPort(c), v, pc) PROVE ch'[c].page = ch[c].page
    <3>1. WriteMask(Of(c), v)
      BY <1>1, <2>1, WriteRouted DEF Out
    <3>2. PICK d, b : ch' = [ch EXCEPT ![d].mask = b]
      BY <3>1, Zenon DEF WriteMask
    <3>3. QED
      BY <1>1, <3>2 DEF Channel
  <2>2. QED
    BY <1>1, <2>1, OnlyTc, Zenon DEF StartUnmask, StopMask
<1>5. Left(c)' = Left(c) /\ AtAddress(c)' = AtAddress(c)
  BY <1>2, <1>3, <1>4 DEF Left, AtAddress, Holds, Programmed, CountersKept
<1>6. CASE StartUnmask(t)
  <2>1. DmaChannels[c].Count # 0 /\ TaskOf(c).Count = DmaChannels[c].Count
    BY <1>6 DEF StartUnmask, At, Local, Progress, TaskOf
  <2>2. ~ch'[c].mask
    <3>1. Out(t, MaskPort(c), 0 + (c % 4), "start_mark")
      BY <1>6 DEF StartUnmask, Narrow
    <3>2. WriteMask(Of(c), 0 + (c % 4))
      BY <1>1, <3>1, WriteRouted DEF Out
    <3>3. QED
      BY <1>1, <3>2, MaskWritten DEF TypeInv, TypeOK
  <2>3. QED
    BY <1>2, <1>5, <2>1, <2>2 DEF TaskStep, Enables, On
<1>7. CASE StopMask(t)
  <2>1. ch'[c].mask
    <3>1. Out(t, MaskPort(c), 4 + (c % 4), "stop_mark")
      BY <1>7 DEF StopMask
    <3>2. WriteMask(Of(c), 4 + (c % 4))
      BY <1>1, <3>1, WriteRouted DEF Out
    <3>3. QED
      BY <1>1, <3>2, MaskWritten DEF TypeInv, TypeOK
  <2>2. QED
    BY <1>2, <1>5, <2>1 DEF TaskStep, Disables, On
<1>8. CASE ~StartUnmask(t) /\ ~StopMask(t)
  BY <1>2, <1>4, <1>5, <1>8 DEF TaskStep, SameTask, On
<1>9. QED
  BY <1>6, <1>7, <1>8

(* A bus cycle of a narrow channel that its record describes: a Unit.      *)
LEMMA CycleRefines ==
  ASSUME TypeInv, NEW c \in Narrow, BusCycle(c), Good(c), ~Reprogramming(c),
         DmaChannels[c].Address < BusSize
  PROVE  TaskStep(c)
<1> DEFINE r == ch[c]  d == DmaChannels[c]
<1>1. /\ c \in Chan /\ r \in Channel /\ d \in ChannelInfo /\ ch \in [Chan -> Channel]
      /\ d.Address \in Nat /\ d.Count \in 0 .. Word - 1
  BY DEF TypeInv, TypeOK, DmaTypeOK, ChannelInfo, Narrow, Chan
<1>2. /\ frame' = frame /\ DmaChannels' = DmaChannels /\ ~r.mask
      /\ ch' = [ch EXCEPT ![c] = Cycle(r)] /\ ch'[c] = Cycle(r)
  BY <1>1 DEF BusCycle, Transfer, Granted
<1>3. Programmed(c) /\ d.Count # 0 /\ Holds(c) /\ Holds(c)' /\ Loaded(c)
  <2>1. d.Count # 0 /\ Programmed(c) /\ Loaded(c)
    BY <1>2 DEF Good, Narrow
  <2>2. QED
    BY <1>2, <2>1 DEF Holds, Programmed, Reprogramming
<1>4. /\ r.mode = d.Mode /\ r.page = Pg(d.Address) /\ r.baseAddr = Bytes(d.Address)
      /\ r.baseCount = Bytes(d.Count - 1)
  BY <1>3 DEF Loaded, TransferCount, Wide, Narrow
<1>5. TaskOf(c)' = TaskOf(c) /\ (TaskOf(c).Auto <=> AutoInit(r))
  BY <1>2, <1>4 DEF TaskOf, AutoInit
<1> DEFINE A == Val(r.addr)  N == Val(r.count)  P == r.page
<1>6. /\ A \in 0 .. Word - 1 /\ N \in 0 .. Word - 1 /\ (r.count = Zero <=> N = 0) /\ P \in Int
      /\ r.addr \in Pair /\ r.count \in Pair
  BY <1>1, ValRange DEF Channel, Data
<1>7. Left(c) = (N + 1) % Word /\ AtAddress(c) = P * Word + A
  BY <1>3 DEF Left, AtAddress
<1>w. Word \in Nat /\ Word > 1
  BY WordFacts
<1>8. Left(c) = 1 <=> r.count = Zero
  <2> HIDE DEF A, N, P
  <2>1. CASE N = 0
    <3>1. 1 = Word * 0 + 1 /\ 1 \in 0 .. Word - 1
      BY <1>w
    <3>2. 1 % Word = 1
      BY <1>w, <3>1, DivModUnique
    <3>3. QED
      BY <1>6, <1>7, <2>1, <3>2
  <2>2. CASE N = Word - 1
    <3>1. N + 1 = Word * 1 + 0 /\ 0 \in 0 .. Word - 1
      BY <1>w, <2>2
    <3>2. (N + 1) % Word = 0
      BY <1>w, <3>1, DivModUnique
    <3>3. QED
      BY <1>w, <1>6, <1>7, <2>2, <3>2
  <2>3. CASE N # 0 /\ N # Word - 1
    <3>1. N + 1 = Word * 0 + (N + 1) /\ N + 1 \in 0 .. Word - 1
      BY <1>w, <1>6, <2>3
    <3>2. (N + 1) % Word = N + 1
      BY <1>w, <3>1, DivModUnique
    <3>3. QED
      BY <1>6, <1>7, <2>3, <3>2
  <2>4. QED
    BY <2>1, <2>2, <2>3
<1>9. CASE r.count = Zero /\ AutoInit(r)
  <2>1. /\ Cycle(r).addr = r.baseAddr /\ Cycle(r).count = r.baseCount /\ Cycle(r).mask = r.mask
        /\ Cycle(r).page = r.page
    BY <1>1, <1>9 DEF Cycle, Channel
  <2>2. Left(c)' = d.Count
    <3>1. d.Count - 1 \in 0 .. Word - 1 /\ d.Count - 1 + 1 = d.Count /\ d.Count = Word * 0 + d.Count
      BY <1>1, <1>3, <1>w
    <3>2. d.Count % Word = d.Count
      BY <1>1, <1>w, <3>1, DivModUnique
    <3>3. Val(Bytes(d.Count - 1)) = d.Count - 1
      BY <3>1, CountWhole
    <3>4. QED
      BY <1>2, <1>3, <1>4, <2>1, <3>1, <3>2, <3>3 DEF Left
  <2>3. AtAddress(c)' = d.Address
    BY <1>1, <1>2, <1>3, <1>4, <2>1, AddressWhole DEF AtAddress
  <2>4. QED
    BY <1>2, <1>5, <1>8, <1>9, <2>1, <2>2, <2>3 DEF TaskStep, Moves, On, TaskOf
<1>10. CASE ~(r.count = Zero /\ AutoInit(r))
  <2>1. /\ Cycle(r).addr = Inc(r.addr) /\ Cycle(r).count = Dec(r.count) /\ Cycle(r).page = r.page
        /\ Cycle(r).mask <=> r.count = Zero
    BY <1>1, <1>2, <1>10 DEF Cycle, Channel
  <2>2. Left(c)' = (Left(c) - 1) % Word
    <3> DEFINE M == Val(Dec(r.count))
    <3>1. M \in Int /\ (M = N - 1 \/ M = N - 1 + Word)
      BY <1>6, ValDec, ValRange
    <3>2. Left(c)' = (M + 1) % Word
      BY <1>2, <1>3, <2>1 DEF Left
    <3> HIDE DEF A, N, P, M
    <3>3. PICK k \in Int : M + 1 = N + Word * k
      <4>1. Word * 0 = 0 /\ Word * 1 = Word
        BY <1>w
      <4>2. M + 1 = N + Word * 0 \/ M + 1 = N + Word * 1
        BY <1>6, <1>w, <3>1, <4>1
      <4>3. QED
        BY <4>2
    <3>4. (M + 1) % Word = N % Word
      <4>1. M + 1 \in Int /\ N \in Int
        BY <1>6, <3>1
      <4>2. QED
        BY <3>3, <4>1, ModWord
    <3> DEFINE L == (N + 1) % Word  q == (N + 1) \div Word
    <3>5. L \in Int /\ q \in Int /\ N + 1 = Word * q + L
      <4>1. N + 1 \in Int /\ Word > 0
        BY <1>6, <1>w
      <4>2. QED
        BY <1>w, <4>1, DivMod
    <3> HIDE DEF L, q
    <3>6. L - 1 \in Int /\ N \in Int /\ -q \in Int /\ L - 1 = N + Word * (-q)
      <4>1. Word * (-q) = -(Word * q) /\ Word * q \in Int
        BY <1>w, <3>5
      <4>2. QED
        BY <1>6, <3>5, <4>1
    <3>7. (L - 1) % Word = N % Word
      BY <3>6, ModWord
    <3>8. QED
      BY <1>7, <3>2, <3>4, <3>7 DEF L
  <2>3. AtAddress(c)' = Tasks!NextAddress(AtAddress(c))
    <3> DEFINE B == Val(Inc(r.addr))
    <3>1. B \in 0 .. Word - 1 /\ (B = A + 1 \/ B = A + 1 - Word)
      BY <1>6, ValInc, ValRange
    <3>2. AtAddress(c)' = P * Word + B
      BY <1>2, <1>3, <2>1 DEF AtAddress
    <3> HIDE DEF A, N, P, B
    <3>3. P * Word + A \in Int /\ P * Word + A = Word * P + A /\ P * Word = Word * P
      BY <1>6, <1>w
    <3>4. (P * Word + A) \div Word = P
      BY <1>6, <1>w, <3>3, DivModUnique
    <3>5. (P * Word + A + 1) % Word = B
      <4>1. CASE B = A + 1
        <5>1. P * Word + A + 1 = Word * P + B
          BY <1>6, <1>w, <3>1, <3>3, <4>1
        <5>2. QED
          BY <1>6, <1>w, <3>1, <5>1, DivModUnique
      <4>2. CASE B = A + 1 - Word
        <5>1. Word * (P + 1) = Word * P + Word /\ Word * P \in Int
          BY <1>6, <1>w
        <5>2. P * Word + A + 1 = Word * (P + 1) + B
          BY <1>6, <1>w, <3>1, <3>3, <4>2, <5>1
        <5>3. P + 1 \in Int /\ P * Word + A + 1 \in Int
          BY <1>6, <3>3
        <5>4. QED
          BY <3>1, <5>2, <5>3, ModWord
      <4>3. QED
        BY <3>1, <4>1, <4>2
    <3>6. Tasks!NextAddress(AtAddress(c)) = Word * P + B
      BY <1>7, <3>4, <3>5 DEF Tasks!NextAddress
    <3>7. QED
      BY <3>2, <3>3, <3>6
  <2>4. On(c)' <=> Left(c) # 1 \/ TaskOf(c).Auto
    BY <1>2, <1>5, <1>8, <1>10, <2>1 DEF On
  <2>5. QED
    BY <1>2, <1>5, <1>8, <1>10, <2>2, <2>3, <2>4 DEF TaskStep, Moves, On
<1>11. QED
  BY <1>9, <1>10

LEMMA CycleSame ==
  ASSUME TypeInv, NEW c \in Chan, BusCycle(c), NEW d \in Chan \ {c}
  PROVE  SameTask(d)
<1>1. ch'[d] = ch[d] /\ DmaChannels' = DmaChannels /\ frame' = frame
  BY DEF BusCycle, Transfer, TypeInv, TypeOK, DmaTypeOK
<1>2. QED
  BY <1>1 DEF SameTask, TaskOf, On, Left, AtAddress, Holds, Programmed, Reprogramming

(* A call that begins: a stutter.                                          *)
LEMMA CallSame ==
  ASSUME TypeInv, NEW t \in Tpl, Call(t), NEW d \in Narrow
  PROVE  SameTask(d)
<1>1. Reprogramming(d)' <=> Reprogramming(d)
  BY CallBegins DEF Reprogramming, Rewriting
<1>2. QED
  BY <1>1, CallBegins DEF SameTask, TaskOf, On, Left, AtAddress, Holds, Programmed

-----------------------------------------------------------------------------
(* The refinement.                                                         *)

LEMMA TasksInit == Init => Tasks!Init
<1> SUFFICES ASSUME Init PROVE Tasks!Init
  OBVIOUS
<1>1. ASSUME NEW c \in Narrow
      PROVE  /\ TaskOf(c) = [Address |-> 0, Count |-> 0, Auto |-> FALSE]
             /\ On(c) = FALSE /\ Left(c) = 0 /\ AtAddress(c) = 0
  <2>1. c \in Chan /\ c # 4
    BY DEF Narrow, Chan
  <2>2. DmaChannels[c].Mode = 0 /\ DmaChannels[c].Count = 0 /\ DmaChannels[c].Address = 0
    BY <2>1 DEF Init
  <2>3. ch[c].mask
    BY <2>1, ControllersStart DEF Init
  <2>4. AutoInit([mode |-> 0]) = FALSE
    BY DEF AutoInit
  <2>5. QED
    BY <2>2, <2>3, <2>4 DEF TaskOf, On, Left, AtAddress, Holds, Programmed
<1>2. QED
  BY <1>1 DEF Tasks!Init, TaskOf, On, Left, AtAddress

(* No narrow channel changes for DmaTasks.                                 *)
LEMMA TasksStutter ==
  ASSUME \A d \in Narrow : SameTask(d)
  PROVE  [Tasks!Next]_(Tasks!vars)
<1>1. 0 \in Narrow
  BY DEF Narrow
<1>2. QED
  BY <1>1, Pointwise DEF TaskStep

LEMMA TasksStep ==
  ASSUME Exclusive, RouteInv, CountInv, [Next]_vars
  PROVE  [Tasks!Next]_(Tasks!vars)
<1>1. SafetyInv /\ TypeInv /\ TypeInv'
  BY SafetyStep DEF CountInv, SafetyInv
<1>2. ASSUME NEW t \in Tpl, Proceed(t) PROVE [Tasks!Next]_(Tasks!vars)
  <2>1. PICK c \in Chan : c = frame[t].Channel
    BY <1>1, SafetyLocal
  <2>2. Local(t) /\ Counting(t)
    BY <1>1, SafetyLocal DEF CountInv
  <2>3. \A d \in Narrow \ {c} : SameTask(d)
    BY <1>2, <2>1, OthersSame DEF Narrow, Chan
  <2>4. CASE c \in Narrow
    <3>1. TaskStep(c)
      BY <1>1, <1>2, <2>1, <2>2, <2>4, ProgramRefines, ControlRefines DEF Proceed
    <3>2. QED
      BY <2>3, <2>4, <3>1, Pointwise
  <2>5. CASE c \notin Narrow
    BY <2>3, <2>5, TasksStutter
  <2>6. QED
    BY <2>4, <2>5
<1>3. ASSUME NEW c \in Chan, BusCycle(c) PROVE [Tasks!Next]_(Tasks!vars)
  <2>1. \A d \in Narrow \ {c} : SameTask(d)
    BY <1>1, <1>3, CycleSame DEF Narrow, Chan
  <2>2. CASE c \in Narrow
    <3>1. ~ch[c].mask
      BY <1>3 DEF BusCycle, Transfer, Granted
    <3>2. ~Reprogramming(c)
      BY <1>1, <3>1 DEF SafetyInv, Progress, Reprogramming
    <3>3. TaskStep(c)
      BY <1>1, <1>3, <2>2, <3>2, CycleRefines DEF CountInv, SafetyInv, Ends
    <3>4. QED
      BY <2>1, <2>2, <3>3, Pointwise
  <2>3. CASE c \notin Narrow
    BY <2>1, <2>3, TasksStutter
  <2>4. QED
    BY <2>2, <2>3
<1>4. ASSUME NEW t \in Tpl, Call(t) PROVE [Tasks!Next]_(Tasks!vars)
  BY <1>1, <1>4, CallSame, TasksStutter
<1>5. CASE UNCHANGED vars
  <2>1. \A d \in Narrow : SameTask(d)
    BY <1>5 DEF vars, SameTask, TaskOf, On, Left, AtAddress, Holds, Programmed, Reprogramming
  <2>2. QED
    BY <2>1, TasksStutter
<1>6. QED
  BY <1>2, <1>3, <1>4, <1>5 DEF Next

(* If no two callers share a controller, the nine port-by-port steps of    *)
(* LegacyDmaProgramChannel, the steps of LegacyDmaStart, Stop and Status,  *)
(* and every bus cycle implement the atomic operations of DmaTasks on the  *)
(* narrow channels: every client, and the bus, sees whole tasks only.      *)
THEOREM TasksImplemented == ASSUME Exclusive PROVE Spec => ImplementsTasks
<1>1. Init => Tasks!Init
  BY TasksInit
<1>2. RouteInv /\ CountInv /\ [Next]_vars => [Tasks!Next]_(Tasks!vars)
  BY TasksStep
<1>3. QED
  BY <1>1, <1>2, RouteInit, RouteStep, CountInvariant, PTL DEF Spec, ImplementsTasks, Tasks!Spec
=============================================================================
