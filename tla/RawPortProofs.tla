--------------------------- MODULE RawPortProofs ---------------------------
(***************************************************************************)
(* RawPortAccess: what a raw client cannot take from the driver.  Proofs.  *)
(*                                                                         *)
(* The invariant is that of LegacyDma cut in two.  What the driver keeps   *)
(* in memory (Plans, Recorded) holds whatever the client does; what the    *)
(* controllers hold, for the channels no access disturbed.                 *)
(***************************************************************************)
EXTENDS LegacyDmaProofs, RawPortAccess

(* What a call carries, without what it has written.                       *)
Plans(t) ==
  LET f == frame[t] IN
  /\ Programming(t) => f.Mode # 0 /\ f.Address < BusSize /\ (f.Channel \in Narrow => f.Count # 0)
  /\ f.pc = "start_unmask" => DmaChannels[f.Channel].Count # 0

Recorded(c) ==
  /\ DmaChannels[c].Count # 0 => Programmed(c)
  /\ DmaChannels[c].Address < BusSize

AccessOK ==
  /\ access \in [op : {"none", "read", "write"}, Port : Nat, Left : 0 .. 4, ret : Status]
  /\ ~Idle => access.Left >= 1
  /\ accesses \in 0 .. MaxAccesses
  /\ hit \subseteq Chan

RawInv ==
  /\ RouteInv /\ AccessOK /\ Owners
  /\ \A t \in Tpl : Plans(t)
  /\ \A c \in Chan : Recorded(c)
  /\ \A t \in Tpl : frame[t].Channel \notin hit => Progress(t) /\ Counting(t)
  /\ \A c \in Chan \ hit : Good(c) /\ Ends(c)

-----------------------------------------------------------------------------
(* What a step of a call leaves alone, whoever else uses its controller.   *)

LEMMA FlipsOwn ==
  ASSUME TypeInv, NEW t \in Tpl, Proceed(t), NEW k \in Ctrl \ {Of(frame[t].Channel)}
  PROVE  ff'[k] = ff[k]
<1> DEFINE c == frame[t].Channel
<1>1. c \in Chan /\ ff \in [Ctrl -> Flip] /\ Of(c) # k
  BY DEF TypeInv, TypeOK, Frame, DmaTypeOK
<1> HIDE DEF c
<1>2. ASSUME NEW v, NEW pc, NEW p, Out(t, p, v, pc),
             p \in {AddrPort(c), CountPort(c), PagePort(c), MaskPort(c), ModePort(c), ClearPort(c)}
      PROVE  ff'[k] = ff[k]
  <2>1. \/ WriteAddr(c, v) \/ WriteCount(c, v) \/ WritePage(c, v)
        \/ WriteMask(Of(c), v) \/ WriteMode(Of(c), v) \/ ClearFlipFlop(Of(c))
    BY <1>1, <1>2, WriteRouted DEF Out
  <2>2. ff' = ff \/ ff' = [ff EXCEPT ![Of(c)] = 1 - ff[Of(c)]] \/ ff' = [ff EXCEPT ![Of(c)] = 0]
    BY <2>1, Zenon DEF WriteAddr, WriteCount, WritePage, WriteMask, WriteMode, ClearFlipFlop, Toggle
  <2>3. QED
    BY <1>1, <2>2
<1>3. CASE ProgStore(t) \/ StartMark(t) \/ StopMark(t) \/ StatStore(t) \/ StatRead(t)
  BY <1>3, Zenon DEF ProgStore, StartMark, StopMark, StatStore, Mark, StatRead, StatusRead
<1>4. CASE StatCountLo(t) \/ StatCountHi(t)
  <2>1. PICK v : PortRead(CountPort(c), v)
    BY <1>4, Zenon DEF StatCountLo, StatCountHi, c
  <2>2. PICK d \in Chan : IoCount(c) = IoCount(d) /\ ff' = [ff EXCEPT ![Of(d)] = 1 - ff[Of(d)]]
    BY <1>1, <2>1, PortTable DEF PortRead, Toggle
  <2>3. d = c
    BY <1>1, <2>2, PortsDistinct DEF Ctrl
  <2>4. QED
    BY <1>1, <2>2, <2>3
<1>5. CASE \/ ProgMask(t) \/ ProgClear(t) \/ ProgMode(t) \/ ProgAddrLo(t) \/ ProgAddrHi(t)
           \/ ProgPage(t) \/ ProgCountLo(t) \/ ProgCountHi(t) \/ StartUnmask(t) \/ StopMask(t)
           \/ StatClear(t)
  <2>1. PICK p \in {AddrPort(c), CountPort(c), PagePort(c), MaskPort(c), ModePort(c), ClearPort(c)} :
          \E v, pc : Out(t, p, v, pc)
    BY <1>5 DEF ProgMask, ProgClear, ProgMode, ProgAddrLo, ProgAddrHi, ProgPage, ProgCountLo,
                ProgCountHi, StartUnmask, StopMask, StatClear, c
  <2>2. QED
    BY <1>2, <2>1
<1>6. QED
  BY <1>3, <1>4, <1>5 DEF Proceed, Program, Start, Stop, GetStatus

LEMMA ProceedOnlyIts ==
  ASSUME RouteInv, NEW t \in Tpl, Proceed(t)
  PROVE  OnlyIts(t)
<1>1. TypeInv /\ Untouched(t)
  BY OthersExact DEF RouteInv
<1>2. ASSUME NEW d \in Chan \ {frame[t].Channel} PROVE Kept(d)
  <2>1. /\ ch[d] \in Channel /\ ch'[d] = [ch[d] EXCEPT !.tc = ch'[d].tc]
        /\ DmaChannels'[d] = DmaChannels[d]
    BY <1>1 DEF Untouched, TypeInv, TypeOK, DmaTypeOK
  <2>2. QED
    BY <2>1 DEF Kept, Channel
<1>3. QED
  BY <1>1, <1>2, ProceedFrame, ChannelStays, FlipsOwn DEF OnlyIts

-----------------------------------------------------------------------------
(* Types.                                                                  *)

(* The ports of the controllers, sorted: what PortWrite does on a control  *)
(* port, and on any other.                                                 *)
LEMMA ControlPortsApart ==
  ASSUME NEW k \in Ctrl, NEW p \in ControlPorts(k), NEW c \in Chan
  PROVE  p \notin DataPorts(c) \cup {PagePort(c)} /\ p # IoAddr(c) /\ p # IoCount(c) /\ p # IoPage(c)
<1>1. c \in {0, 1, 2, 3, 4, 5, 6, 7} /\ k \in {0, 1}
  BY DEF Chan, Ctrl
<1>2. PICK r \in 8 .. 15 : p = IoReg(k, r)
  BY DEF ControlPorts
<1>3. p \in 8 .. 15 \cup 208 .. 222
  BY <1>1, <1>2 DEF IoReg
<1>4. IoPage(c) \in 129 .. 143
  BY <1>1 DEF IoPage
<1>5. IoAddr(c) \in 0 .. 7 \cup 192 .. 206 /\ IoCount(c) \in 0 .. 7 \cup 192 .. 206
  BY <1>1 DEF IoAddr, IoCount, IoReg, Of
<1>6. QED
  BY <1>3, <1>4, <1>5, PortTable DEF DataPorts

LEMMA ControlPortsOf ==
  ASSUME NEW k \in Ctrl, NEW j \in Ctrl, NEW r \in 8 .. 15, IoReg(k, r) \in ControlPorts(j)
  PROVE  k = j
<1>1. PICK s \in 8 .. 15 : IoReg(k, r) = IoReg(j, s)
  BY DEF ControlPorts
<1>2. QED
  BY <1>1 DEF IoReg, Ctrl

-----------------------------------------------------------------------------
(* What one byte cycle of the client may change.                           *)

(* A command of controller k stays within it.                              *)
Within(k) ==
  /\ DmaTypeOK'
  /\ \A c \in Chan : Of(c) # k => ch'[c] = ch[c]
  /\ \A j \in Ctrl \ {k} : ff'[j] = ff[j]

LEMMA CommandWithin ==
  ASSUME DmaTypeOK, NEW k \in Ctrl, NEW v \in 0 .. 255,
         WriteMask(k, v) \/ WriteMode(k, v) \/ ClearFlipFlop(k)
  PROVE  Within(k)
<1>1. PICK c \in Chan : Of(c) = k
  <2>1. 4 * k \in Chan /\ Of(4 * k) = k
    BY DEF Ctrl, Chan, Of
  <2>2. QED
    BY <2>1
<1>2. DmaTypeOK'
  BY <1>1, WriteTypes
<1>3. Named(k, v) \in Chan /\ Of(Named(k, v)) = k
  BY DEF Named, Of, Chan, Ctrl
<1>4. CASE WriteMask(k, v)
  <2>1. PICK b : ch' = [ch EXCEPT ![Named(k, v)].mask = b] /\ ff' = ff
    BY <1>4, Zenon DEF WriteMask
  <2>2. QED
    BY <1>2, <1>3, <2>1 DEF Within, DmaTypeOK
<1>5. CASE WriteMode(k, v)
  BY <1>2, <1>3, <1>5 DEF Within, WriteMode, DmaTypeOK
<1>6. CASE ClearFlipFlop(k)
  BY <1>2, <1>6 DEF Within, ClearFlipFlop, DmaTypeOK
<1>7. QED
  BY <1>4, <1>5, <1>6

(* The commands the driver never gives.                                    *)
LEMMA OtherWithin ==
  ASSUME DmaTypeOK, NEW k \in Ctrl, NEW p \in ControlPorts(k), NEW v, OtherWrite(p, v)
  PROVE  Within(k)
<1>1. ch \in [Chan -> Channel] /\ ff \in [Ctrl -> Flip]
  BY DEF DmaTypeOK
<1> DEFINE Cleared(j) ==
      /\ ff' = [ff EXCEPT ![j] = 0]
      /\ ch' = [c \in Chan |-> IF Of(c) = j THEN [ch[c] EXCEPT !.mask = TRUE, !.tc = FALSE]
                                            ELSE ch[c]]
<1>2. PICK j \in Ctrl, r \in {AllMasks, ClearMasks, MasterClear} :
        /\ p = IoReg(j, r)
        /\ Cleared(j) \/ \E M : SetMasks(j, M) /\ ff' = ff
  BY Zenon DEF OtherWrite
<1> HIDE DEF Cleared
<1>3. j = k
  BY <1>2, ControlPortsOf DEF AllMasks, ClearMasks, MasterClear
<1>4. ASSUME NEW M, SetMasks(k, M), ff' = ff PROVE Within(k)
  <2>1. ASSUME NEW c \in Chan PROVE [ch[c] EXCEPT !.mask = (c \in M)] \in Channel
    <3>0. (c \in M) \in BOOLEAN
      OBVIOUS
    <3>1. PICK b \in BOOLEAN : b = (c \in M)
      BY <3>0, Zenon
    <3>2. [ch[c] EXCEPT !.mask = b] \in Channel
      BY <1>1 DEF Channel
    <3>3. QED
      BY <3>1, <3>2, Zenon
  <2> DEFINE m(c) == [ch[c] EXCEPT !.mask = (c \in M)]
  <2>2. ch' = [c \in Chan |-> IF Of(c) = k THEN m(c) ELSE ch[c]]
    BY <1>4, Zenon DEF SetMasks
  <2>3. \A c \in Chan : m(c) \in Channel
    BY <2>1
  <2> HIDE DEF m
  <2>4. QED
    BY <1>1, <1>4, <2>2, <2>3 DEF Within, DmaTypeOK
<1>5. CASE Cleared(k)
  <2>1. ASSUME NEW c \in Chan PROVE [ch[c] EXCEPT !.mask = TRUE, !.tc = FALSE] \in Channel
    <3>1. ch[c] \in Channel
      BY <1>1
    <3>2. QED
      BY <3>1 DEF Channel
  <2>2. ch' \in [Chan -> Channel] /\ \A c \in Chan : Of(c) # k => ch'[c] = ch[c]
    BY <1>1, <1>5, <2>1 DEF Cleared
  <2>3. ff' = [ff EXCEPT ![k] = 0]
    BY <1>5, Zenon DEF Cleared
  <2>4. 0 \in Flip
    BY DEF Flip
  <2>5. QED
    BY <1>1, <2>2, <2>3, <2>4 DEF Within, DmaTypeOK
<1>6. QED
  BY <1>2, <1>3, <1>4, <1>5

LEMMA ControlWrite ==
  ASSUME DmaTypeOK, NEW k \in Ctrl, NEW p \in ControlPorts(k), NEW v \in Commands,
         PortWrite(p, v) \/ OtherWrite(p, v)
  PROVE  Within(k)
<1>1. v \in 0 .. 255
  BY RawAssumption
<1>2. CASE PortWrite(p, v)
  <2>1. \E j \in Ctrl : \/ p = IoReg(j, MaskReg) /\ WriteMask(j, v)
                        \/ p = IoReg(j, ModeReg) /\ WriteMode(j, v)
                        \/ p = IoReg(j, ClearReg) /\ ClearFlipFlop(j)
    BY <1>2, ControlPortsApart, Zenon DEF PortWrite
  <2>2. PICK j \in Ctrl : \/ p = IoReg(j, MaskReg) /\ WriteMask(j, v)
                          \/ p = IoReg(j, ModeReg) /\ WriteMode(j, v)
                          \/ p = IoReg(j, ClearReg) /\ ClearFlipFlop(j)
    BY <2>1, Zenon
  <2>3. j = k
    BY <2>2, ControlPortsOf DEF MaskReg, ModeReg, ClearReg
  <2>4. QED
    BY <1>1, <2>2, <2>3, CommandWithin
<1>3. CASE OtherWrite(p, v)
  BY <1>3, OtherWithin
<1>4. QED
  BY <1>2, <1>3

(* A byte written to a register of a channel stays in that channel, and the*)
(* two halves of a register move the pointer of its controller.            *)
LEMMA DataWrite ==
  ASSUME DmaTypeOK, NEW p, NEW v \in Data, PortWrite(p, v), \A k \in Ctrl : p \notin ControlPorts(k)
  PROVE  /\ DmaTypeOK'
         /\ \E c \in Chan : /\ Others(c)
                            /\ \/ p \in DataPorts(c) /\ Flipped(c)
                               \/ p = PagePort(c) /\ ff' = ff
<1>1. \A k \in Ctrl : p \notin {IoReg(k, MaskReg), IoReg(k, ModeReg), IoReg(k, ClearReg)}
  BY DEF ControlPorts, MaskReg, ModeReg, ClearReg
<1>2. PICK c \in Chan : \/ p = IoAddr(c) /\ WriteAddr(c, v)
                        \/ p = IoCount(c) /\ WriteCount(c, v)
                        \/ p = IoPage(c) /\ WritePage(c, v)
  BY <1>1, Zenon DEF PortWrite
<1>3. DmaTypeOK'
  BY <1>2, WriteTypes
<1>4. \/ p \in DataPorts(c) /\ Others(c) /\ Flipped(c)
      \/ p = PagePort(c) /\ Others(c) /\ ff' = ff
  BY <1>2, PortTable, AddrWritten, CountWritten, PageWritten DEF DataPorts
<1>5. QED
  BY <1>3, <1>4

(* A read changes terminal-count bits, or moves the pointer.               *)
LEMMA ReadEffect ==
  ASSUME DmaTypeOK, NEW p, ReadCycle(p)
  PROVE  /\ DmaTypeOK'
         /\ \A c \in Chan : ch'[c] = [ch[c] EXCEPT !.tc = ch'[c].tc]
         /\ ff' = ff \/ \E c \in Chan : p \in DataPorts(c) /\ Flipped(c)
<1>1. ch \in [Chan -> Channel] /\ ff \in [Ctrl -> Flip]
  BY DEF DmaTypeOK
<1>2. ASSUME ch' = ch PROVE \A c \in Chan : ch'[c] = [ch[c] EXCEPT !.tc = ch'[c].tc]
  BY <1>1, <1>2 DEF Channel
<1>3. CASE \E bits \in SUBSET (0 .. 3) : StatusRead(p, bits)
  <2>1. PICK k \in Ctrl :
          /\ ch' = [c \in Chan |-> IF Of(c) = k THEN [ch[c] EXCEPT !.tc = FALSE] ELSE ch[c]]
          /\ ff' = ff
    BY <1>3 DEF StatusRead
  <2>2. ASSUME NEW c \in Chan PROVE ch'[c] \in Channel /\ ch'[c] = [ch[c] EXCEPT !.tc = ch'[c].tc]
    <3>1. ch[c] \in Channel /\ (ch'[c] = ch[c] \/ ch'[c] = [ch[c] EXCEPT !.tc = FALSE])
      BY <1>1, <2>1
    <3>2. QED
      BY <3>1 DEF Channel
  <2>3. ch' \in [Chan -> Channel]
    BY <2>1, <2>2
  <2>4. QED
    BY <1>1, <2>1, <2>2, <2>3 DEF DmaTypeOK
<1>4. CASE \E c \in Chan : p \in DataPorts(c) /\ Toggle(Of(c)) /\ ch' = ch
  <2>1. PICK c \in Chan : p \in DataPorts(c) /\ Toggle(Of(c)) /\ ch' = ch
    BY <1>4
  <2>2. Of(c) \in Ctrl /\ ff[Of(c)] \in Flip /\ 1 - ff[Of(c)] \in Flip
    BY <1>1 DEF Of, Ctrl, Flip
  <2>3. DmaTypeOK' /\ Flipped(c)
    BY <1>1, <2>1, <2>2 DEF DmaTypeOK, Toggle, Flipped
  <2>4. QED
    BY <1>2, <2>1, <2>3
<1>5. CASE UNCHANGED dmaVars
  <2>1. ch' = ch /\ ff' = ff
    BY <1>5 DEF dmaVars
  <2>2. QED
    BY <1>1, <1>2, <2>1 DEF DmaTypeOK
<1>6. QED
  BY <1>3, <1>4, <1>5, Zenon DEF ReadCycle

(* A channel the cycle does not disturb keeps all but its terminal-count   *)
(* bit; while it is being programmed its controller's pointer does not move*)
LEMMA RawCycleEffect ==
  ASSUME TypeInv, RawCycle
  PROVE  /\ TypeInv' /\ frame' = frame /\ DmaChannels' = DmaChannels
         /\ hit \subseteq hit'
         /\ \A c \in Chan \ hit' :
              /\ ch'[c] = [ch[c] EXCEPT !.tc = ch'[c].tc]
              /\ Reprogramming(c) => ff'[Of(c)] = ff[Of(c)]
<1> DEFINE p == access.Port
<1>1. ch \in [Chan -> Channel] /\ ff \in [Ctrl -> Flip] /\ DmaTypeOK
  BY DEF TypeInv, TypeOK, DmaTypeOK
<1>2. /\ IF access.op = "write" THEN WriteCycle(p) ELSE ReadCycle(p)
      /\ hit' = hit \cup Disturbed(access.op, p)
      /\ frame' = frame /\ DmaChannels' = DmaChannels /\ buf' = buf
  BY DEF RawCycle
<1> HIDE DEF p
<1>3. ASSUME NEW c \in Chan, ch'[c] = ch[c] PROVE ch'[c] = [ch[c] EXCEPT !.tc = ch'[c].tc]
  <2>1. ch[c] \in Channel
    BY <1>1
  <2>2. QED
    BY <1>3, <2>1 DEF Channel
<1>4. \A c \in Chan : Of(c) \in Ctrl
  BY DEF Of, Ctrl
<1> DEFINE Spared(c) == /\ ch'[c] = [ch[c] EXCEPT !.tc = ch'[c].tc]
                        /\ Reprogramming(c) => ff'[Of(c)] = ff[Of(c)]
<1>5. ASSUME NEW c \in Chan \ hit', NEW d \in Chan, p \in DataPorts(d), Flipped(d)
      PROVE  Reprogramming(c) => ff'[Of(c)] = ff[Of(c)]
  <2>1. Reprogramming(c) => Of(d) # Of(c)
    BY <1>2, <1>5 DEF Disturbed, MovesPointer
  <2>2. QED
    BY <1>1, <1>4, <1>5, <2>1 DEF Flipped
<1>6. CASE access.op = "write" /\ WriteCycle(p)
  <2>1. ASSUME NEW c \in Chan \ hit'
        PROVE  /\ p \notin DataPorts(c) \cup {PagePort(c)} \cup ControlPorts(Of(c))
               /\ Reprogramming(c) => ~MovesPointer(Of(c), p)
    BY <1>2, <1>6 DEF Disturbed
  <2>2. CASE \E k \in Ctrl : p \in ControlPorts(k) /\ \E v \in Commands : PortWrite(p, v) \/ OtherWrite(p, v)
    <3>1. PICK k \in Ctrl : p \in ControlPorts(k) /\ \E v \in Commands : PortWrite(p, v) \/ OtherWrite(p, v)
      BY <2>2
    <3>2. Within(k)
      BY <1>1, <3>1, ControlWrite
    <3>3. ASSUME NEW c \in Chan \ hit' PROVE Spared(c)
      <4>1. Of(c) # k
        BY <2>1, <3>1
      <4>2. QED
        BY <1>3, <1>4, <3>2, <4>1 DEF Within
    <3>4. QED
      BY <1>2, <3>2, <3>3 DEF Within, TypeInv, TypeOK
  <2>3. CASE (\A k \in Ctrl : p \notin ControlPorts(k)) /\ \E v \in Data : PortWrite(p, v)
    <3>1. DmaTypeOK'
      BY <1>1, <2>3, DataWrite
    <3>2. PICK d \in Chan : /\ Others(d)
                            /\ \/ p \in DataPorts(d) /\ Flipped(d)
                               \/ p = PagePort(d) /\ ff' = ff
      BY <1>1, <2>3, DataWrite
    <3>3. ASSUME NEW c \in Chan \ hit' PROVE Spared(c)
      <4>1. c # d
        BY <2>1, <3>2
      <4>2. QED
        BY <1>3, <1>5, <3>2, <4>1 DEF Others
    <3>4. QED
      BY <1>2, <3>1, <3>3 DEF TypeInv, TypeOK
  <2>4. CASE UNCHANGED dmaVars
    <3>1. ch' = ch /\ ff' = ff
      BY <2>4 DEF dmaVars
    <3>2. QED
      BY <1>1, <1>2, <1>3, <3>1 DEF TypeInv, TypeOK, DmaTypeOK
  <2>5. QED
    BY <1>6, <2>2, <2>3, <2>4, Zenon DEF WriteCycle
<1>7. CASE access.op # "write" /\ ReadCycle(p)
  <2>1. /\ DmaTypeOK'
        /\ \A c \in Chan : ch'[c] = [ch[c] EXCEPT !.tc = ch'[c].tc]
        /\ ff' = ff \/ \E d \in Chan : p \in DataPorts(d) /\ Flipped(d)
    BY <1>1, <1>7, ReadEffect
  <2>2. \A c \in Chan \ hit' : Spared(c)
    BY <1>5, <2>1
  <2>3. QED
    BY <1>2, <2>1, <2>2 DEF TypeInv, TypeOK
<1>8. QED
  BY <1>2, <1>6, <1>7

-----------------------------------------------------------------------------
(* The client's call, and the types.                                       *)

LEMMA AccessInit == RawInit => AccessOK
<1> SUFFICES ASSUME RawInit PROVE AccessOK
  OBVIOUS
<1>1. access = Ended("SUCCESS") /\ accesses = 0 /\ hit = {}
  BY DEF RawInit
<1>2. QED
  BY <1>1, RawAssumption DEF AccessOK, Ended, Idle, Status

LEMMA CallAccess ==
  ASSUME AccessOK, NEW op \in {"read", "write"}, NEW Port \in Ports, NEW Width \in Widths, NEW Ptr,
         RawCall(op, Port, Width, Ptr)
  PROVE  AccessOK' /\ UNCHANGED vars /\ hit' = hit
<1>1. Port \in Nat /\ Width \in Nat /\ MaxAccesses \in Nat
  BY RawAssumption
<1>2. /\ accesses < MaxAccesses /\ accesses' = accesses + 1 /\ hit' = hit /\ UNCHANGED vars
      /\ \/ access' = Ended("INVALID_PARAMETER")
         \/ ~BadAccess(Port, Width, Ptr) /\ access' = InCall(op, Port, Width)
  BY DEF RawCall
<1>3. CASE access' = Ended("INVALID_PARAMETER")
  BY <1>1, <1>2, <1>3 DEF AccessOK, Ended, Idle, Status
<1>4. CASE ~BadAccess(Port, Width, Ptr) /\ access' = InCall(op, Port, Width)
  <2>1. Width \in 1 .. 4
    BY <1>4 DEF BadAccess
  <2>2. access' \in [op : {"none", "read", "write"}, Port : Nat, Left : 0 .. 4, ret : Status]
    BY <1>1, <1>4, <2>1 DEF InCall, Status
  <2>3. access'.Left >= 1
    BY <1>1, <1>4, <2>1 DEF InCall
  <2>4. QED
    BY <1>1, <1>2, <2>2, <2>3 DEF AccessOK
<1>5. QED
  BY <1>2, <1>3, <1>4

LEMMA CycleAccess ==
  ASSUME AccessOK, RawCycle
  PROVE  AccessOK'
<1>1. /\ ~Idle /\ accesses' = accesses /\ hit' = hit \cup Disturbed(access.op, access.Port)
      /\ access' = IF access.Left = 1 THEN Ended("SUCCESS")
                   ELSE InCall(access.op, access.Port + 1, access.Left - 1)
  BY DEF RawCycle
<1>2. hit' \subseteq Chan
  BY <1>1 DEF AccessOK, Disturbed
<1>3. CASE access.Left = 1
  BY <1>1, <1>2, <1>3 DEF AccessOK, Ended, Idle, Status
<1>4. CASE access.Left # 1
  <2>1. access' = InCall(access.op, access.Port + 1, access.Left - 1)
    BY <1>1, <1>4
  <2>2. access.Port \in Nat /\ access.Left \in 2 .. 4 /\ access.op \in {"none", "read", "write"}
    BY <1>1, <1>4 DEF AccessOK
  <2>3. QED
    BY <1>1, <1>2, <2>1, <2>2 DEF AccessOK, InCall, Status
<1>5. QED
  BY <1>3, <1>4

LEMMA RawTypeStep ==
  ASSUME TypeInv, AccessOK, [RawNext]_rawVars
  PROVE  TypeInv' /\ AccessOK'
<1>1. ASSUME UNCHANGED vars PROVE TypeInv'
  BY <1>1 DEF vars, TypeInv, TypeOK, DmaTypeOK
<1>2. ASSUME access' = access, accesses' = accesses, hit' \subseteq hit PROVE AccessOK'
  BY <1>2 DEF AccessOK, Idle
<1>3. CASE UNCHANGED rawVars
  BY <1>1, <1>2, <1>3 DEF rawVars
<1>4. ASSUME NEW Port \in Ports, NEW Width \in Widths, NEW Ptr \in {NULL, 1},
             LegacyIoRead(Port, Width, Ptr) \/ LegacyIoWrite(Port, Width, Ptr)
      PROVE  TypeInv' /\ AccessOK'
  BY <1>1, <1>4, CallAccess DEF LegacyIoRead, LegacyIoWrite
<1>5. CASE RawCycle
  BY <1>5, RawCycleEffect, CycleAccess
<1>6. CASE CallerStep
  BY <1>2, <1>6, CallTypes, ProceedTypes DEF CallerStep
<1>7. CASE DeviceCycle
  BY <1>2, <1>7, CycleKeeps, RawAssumption DEF DeviceCycle
<1>8. QED
  BY <1>3, <1>4, <1>5, <1>6, <1>7 DEF RawNext

(* RawPortAccess is well typed: whatever bytes a client writes to the ports*)
(* of the controllers, their registers and the driver's records stay in    *)
(* their ranges.                                                           *)
THEOREM RawTypeCorrect == RawSpec => []RawTypeOK
<1>1. RawInit => TypeInv /\ AccessOK
  BY InitTypes, AccessInit DEF RawInit
<1>2. TypeInv /\ AccessOK => RawTypeOK
  BY DEF TypeInv, AccessOK, RawTypeOK
<1>3. QED
  BY <1>1, <1>2, RawTypeStep, PTL DEF RawSpec

-----------------------------------------------------------------------------
(* The invariant, step by step.                                            *)

LEMMA SparedKept ==
  ASSUME TypeInv, NEW c \in Chan, ch'[c] = [ch[c] EXCEPT !.tc = ch'[c].tc], DmaChannels' = DmaChannels
  PROVE  Kept(c) /\ CountersKept(c) /\ ch'[c].mask = ch[c].mask /\ ch'[c].page = ch[c].page
<1>1. ch[c] \in Channel
  BY DEF TypeInv, TypeOK, DmaTypeOK
<1>2. QED
  BY <1>1 DEF Kept, CountersKept, Channel

(* A step of the client, or of a device, leaves the calls and the records  *)
(* where they are.                                                         *)
LEMMA MemoryKept ==
  ASSUME RawInv, TypeInv', AccessOK', frame' = frame, DmaChannels' = DmaChannels
  PROVE  /\ RouteInv' /\ Owners'
         /\ \A t \in Tpl : Plans(t)'
         /\ \A c \in Chan : Recorded(c)'
<1>1. RouteInv'
  BY DEF RawInv, RouteInv, Programming
<1>2. Owners'
  BY DEF RawInv, Owners
<1>3. ASSUME NEW t \in Tpl PROVE Plans(t)'
  BY DEF RawInv, Plans, Programming
<1>4. ASSUME NEW c \in Chan PROVE Recorded(c)'
  BY DEF RawInv, Recorded, Programmed
<1>5. QED
  BY <1>1, <1>2, <1>3, <1>4

LEMMA RawCycleKeeps ==
  ASSUME RawInv, RawCycle
  PROVE  RawInv'
<1>1. TypeInv /\ AccessOK'
  BY CycleAccess DEF RawInv, RouteInv
<1>2. /\ TypeInv' /\ frame' = frame /\ DmaChannels' = DmaChannels /\ hit \subseteq hit'
      /\ \A c \in Chan \ hit' :
           /\ ch'[c] = [ch[c] EXCEPT !.tc = ch'[c].tc]
           /\ Reprogramming(c) => ff'[Of(c)] = ff[Of(c)]
  BY <1>1, RawCycleEffect
<1>3. \A c \in Chan \ hit' : Kept(c) /\ CountersKept(c)
  BY <1>1, <1>2, SparedKept
<1>4. ASSUME NEW t \in Tpl, frame'[t].Channel \notin hit' PROVE Progress(t)' /\ Counting(t)'
  <2>1. PICK c \in Chan \ hit' : c = frame[t].Channel
    BY <1>1, <1>2, <1>4 DEF TypeInv, TypeOK, Frame
  <2>2. frame[t].pc \in Rewriting => Reprogramming(c)
    BY <2>1 DEF Reprogramming
  <2>3. Progress(t) /\ Counting(t)
    BY <1>2, <2>1 DEF RawInv
  <2>4. QED
    BY <1>2, <1>3, <2>1, <2>2, <2>3, ProgressKept, CountingKept
<1>5. ASSUME NEW c \in Chan \ hit' PROVE Good(c)' /\ Ends(c)'
  <2>1. Good(c) /\ Ends(c) /\ (Reprogramming(c) => Reprogramming(c)')
    BY <1>2 DEF RawInv, Reprogramming
  <2>2. QED
    BY <1>2, <1>3, <2>1, GoodKept, EndsKept
<1>6. QED
  BY <1>1, <1>2, <1>4, <1>5, MemoryKept DEF RawInv

LEMMA DeviceKeeps ==
  ASSUME RawInv, DeviceCycle
  PROVE  RawInv'
<1>1. PICK c \in Chan : BusCycle(c)
  BY RawAssumption DEF DeviceCycle
<1>2. TypeInv /\ access' = access /\ accesses' = accesses /\ hit' = hit
  BY DEF RawInv, RouteInv, DeviceCycle
<1>3. /\ TypeInv' /\ frame' = frame /\ ff' = ff /\ DmaChannels' = DmaChannels
      /\ \A d \in Chan : Kept(d)
  BY <1>1, <1>2, CycleKeeps
<1>4. AccessOK'
  BY <1>2 DEF RawInv, AccessOK, Idle
<1>5. ~ch[c].mask /\ \A d \in Chan \ {c} : CountersKept(d)
  BY <1>1, <1>2 DEF BusCycle, Transfer, Granted, CountersKept, TypeInv, TypeOK, DmaTypeOK
<1>6. ASSUME NEW t \in Tpl, frame'[t].Channel \notin hit' PROVE Progress(t)' /\ Counting(t)'
  <2>1. Progress(t) /\ Counting(t) /\ frame[t].Channel \in Chan
    BY <1>2, <1>3, <1>6 DEF RawInv, TypeInv, TypeOK, Frame
  <2>2. frame[t].pc \in Rewriting => frame[t].Channel # c
    BY <1>5, <2>1 DEF Progress
  <2>3. QED
    BY <1>3, <1>5, <2>1, <2>2, ProgressKept, CountingKept
<1>7. ASSUME NEW d \in Chan \ hit' PROVE Good(d)' /\ Ends(d)'
  <2>1. Good(d) /\ Ends(d) /\ (Reprogramming(d) => Reprogramming(d)')
    BY <1>2, <1>3 DEF RawInv, Reprogramming
  <2>2. Ends(d)'
    <3>1. CASE d = c
      BY <1>1, <1>2, <2>1, <3>1, CycleEnds
    <3>2. CASE d # c
      BY <1>3, <1>5, <2>1, <3>2, EndsKept
    <3>3. QED
      BY <3>1, <3>2
  <2>3. QED
    BY <1>3, <2>1, <2>2, GoodKept
<1>8. QED
  BY <1>3, <1>4, <1>6, <1>7, MemoryKept DEF RawInv

(* The client's call changes nothing of the driver.                        *)
LEMMA NothingKeeps ==
  ASSUME RawInv, UNCHANGED vars, hit' = hit, AccessOK'
  PROVE  RawInv'
<1>1. ch' = ch /\ ff' = ff /\ DmaChannels' = DmaChannels /\ buf' = buf /\ frame' = frame
  BY DEF vars
<1>2. TypeInv'
  BY <1>1 DEF RawInv, RouteInv, TypeInv, TypeOK, DmaTypeOK
<1>3. \A d \in Chan : Kept(d) /\ CountersKept(d) /\ (Reprogramming(d) => Reprogramming(d)')
  BY <1>1 DEF Kept, CountersKept, Reprogramming
<1>4. \A t \in Tpl : frame[t].Channel \in Chan
  BY DEF RawInv, RouteInv, TypeInv, TypeOK, Frame
<1>5. ASSUME NEW t \in Tpl, frame'[t].Channel \notin hit' PROVE Progress(t)' /\ Counting(t)'
  BY <1>1, <1>3, <1>4, <1>5, ProgressKept, CountingKept DEF RawInv
<1>6. ASSUME NEW d \in Chan \ hit' PROVE Good(d)' /\ Ends(d)'
  BY <1>1, <1>3, <1>6, GoodKept, EndsKept DEF RawInv
<1>7. QED
  BY <1>1, <1>2, <1>5, <1>6, MemoryKept DEF RawInv

(* A call of the driver begins.                                            *)
LEMMA CallKeeps ==
  ASSUME RawInv, CallerStep, NEW t \in Tpl, Call(t)
  PROVE  RawInv'
<1>1. TypeInv
  BY DEF RawInv, RouteInv
<1>2. /\ ch' = ch /\ ff' = ff /\ DmaChannels' = DmaChannels /\ frame[t].pc = "idle"
      /\ \A u \in Tpl \ {t} : frame'[u] = frame[u]
      /\ frame'[t].pc \notin Rewriting
      /\ Progress(t)' /\ Counting(t)' /\ TypeInv'
  BY <1>1, CallBegins, CallCounts, CallTypes
<1>3. \A d \in Chan : Kept(d) /\ CountersKept(d) /\ (Reprogramming(d) <=> Reprogramming(d)')
  BY <1>2 DEF Kept, CountersKept, Reprogramming, Rewriting
<1>4. access' = access /\ accesses' = accesses /\ hit' = hit
  BY <1>3 DEF CallerStep, RawInv, AccessOK
<1>5. AccessOK'
  BY <1>4 DEF RawInv, AccessOK, Idle
<1>6. RouteInv'
  <2>1. [Next]_vars
    BY DEF Next
  <2>2. QED
    BY <2>1, RouteStep DEF RawInv
<1>7. Owners'
  BY <1>2 DEF RawInv, Owners, Progress
<1>8. ASSUME NEW u \in Tpl PROVE Plans(u)'
  <2>1. CASE u = t
    BY <1>2, <2>1 DEF Progress, Counting, Plans, Programming
  <2>2. CASE u # t
    BY <1>2, <2>2 DEF RawInv, Plans, Programming
  <2>3. QED
    BY <2>1, <2>2
<1>9. \A d \in Chan : Recorded(d)'
  BY <1>2 DEF RawInv, Recorded, Programmed
<1>10. ASSUME NEW u \in Tpl, frame'[u].Channel \notin hit' PROVE Progress(u)' /\ Counting(u)'
  <2>1. CASE u = t
    BY <1>2, <2>1
  <2>2. CASE u # t
    <3>1. frame'[u] = frame[u] /\ frame[u].Channel \in Chan /\ Progress(u) /\ Counting(u)
      BY <1>1, <1>2, <1>4, <1>10, <2>2 DEF RawInv, TypeInv, TypeOK, Frame
    <3>2. QED
      BY <1>2, <1>3, <3>1, ProgressKept, CountingKept
  <2>3. QED
    BY <2>1, <2>2
<1>11. ASSUME NEW d \in Chan \ hit' PROVE Good(d)' /\ Ends(d)'
  BY <1>2, <1>3, <1>4, <1>11, GoodKept, EndsKept DEF RawInv
<1>12. QED
  BY <1>5, <1>6, <1>7, <1>8, <1>9, <1>10, <1>11 DEF RawInv

(* What a call plans, and what it stores, in the middle of the call.       *)
LEMMA PlansKept ==
  ASSUME TypeInv, NEW t \in Tpl, Plans(t), Proceed(t)
  PROVE  Plans(t)'
<1>1. frame \in [Tpl -> Frame] /\ frame[t] \in Frame
  BY DEF TypeInv, TypeOK
<1>2. CASE ProgMask(t) \/ ProgClear(t) \/ ProgMode(t) \/ ProgAddrLo(t) \/ ProgAddrHi(t) \/ ProgPage(t)
           \/ ProgCountLo(t) \/ ProgCountHi(t)
  <2>1. Programming(t) /\ \E pc \in Rewriting : Goto(t, pc)
    BY <1>2 DEF ProgMask, ProgClear, ProgMode, ProgAddrLo, ProgAddrHi, ProgPage, ProgCountLo,
                ProgCountHi, Out, At, Programming, Rewriting
  <2>2. PICK pc \in Rewriting : frame' = [frame EXCEPT ![t] = [frame[t] EXCEPT !.pc = pc]]
    BY <2>1 DEF Goto
  <2>3. /\ frame'[t].pc = pc /\ frame'[t].Mode = frame[t].Mode /\ frame'[t].Address = frame[t].Address
        /\ frame'[t].Channel = frame[t].Channel /\ frame'[t].Count = frame[t].Count
    BY <1>1, <2>2 DEF Frame
  <2>4. pc # "start_unmask"
    BY DEF Rewriting
  <2>5. QED
    BY <2>1, <2>3, <2>4 DEF Plans, Programming
<1>3. CASE ~(ProgMask(t) \/ ProgClear(t) \/ ProgMode(t) \/ ProgAddrLo(t) \/ ProgAddrHi(t) \/ ProgPage(t)
           \/ ProgCountLo(t) \/ ProgCountHi(t))
  <2>1. frame'[t].pc \in {"idle", "start_mark", "stop_mark", "stat_clear", "stat_lo", "stat_hi", "stat_store"}
    <3>1. CASE ProgStore(t) \/ StartMark(t) \/ StopMark(t) \/ StatStore(t)
      BY <1>1, <3>1 DEF ProgStore, StartMark, StopMark, StatStore, Mark, Return, Returned
    <3>2. CASE StartUnmask(t) \/ StopMask(t) \/ StatClear(t)
      BY <1>1, <3>2 DEF StartUnmask, StopMask, StatClear, Out, Goto, Frame
    <3>3. CASE StatRead(t) \/ StatCountLo(t) \/ StatCountHi(t)
      BY <1>1, <3>3 DEF StatRead, StatCountLo, StatCountHi, Frame
    <3>4. QED
      BY <1>3, <3>1, <3>2, <3>3 DEF Proceed, Program, Start, Stop, GetStatus
  <2>2. QED
    BY <2>1 DEF Plans, Programming, Rewriting
<1>4. QED
  BY <1>2, <1>3

LEMMA RecordedKept ==
  ASSUME TypeInv, NEW t \in Tpl, Plans(t), Proceed(t), NEW c \in Chan, c = frame[t].Channel, Recorded(c)
  PROVE  Recorded(c)'
<1>1. CASE ProgStore(t)
  <2>1. /\ DmaChannels \in [Chan -> ChannelInfo] /\ frame[t].Mode # 0 /\ frame[t].Address < BusSize
        /\ DmaChannels' = [DmaChannels EXCEPT ![c] =
             [Mode |-> frame[t].Mode, Count |-> frame[t].Count,
              Address |-> frame[t].Address, IsActive |-> FALSE]]
    BY <1>1 DEF ProgStore, At, Plans, Programming, Rewriting, TypeInv, TypeOK
  <2>2. DmaChannels'[c].Mode # 0 /\ DmaChannels'[c].Address < BusSize
    BY <2>1
  <2>3. QED
    BY <2>2 DEF Recorded, Programmed
<1>2. CASE ~ProgStore(t)
  BY <1>2, RecordKept DEF Recorded, Programmed, TaskOf
<1>3. QED
  BY <1>1, <1>2

(* Programming a channel that was disturbed begins: from its mask write on *)
(* it is the driver's again.                                               *)
LEMMA MaskRestores ==
  ASSUME RawInv, NEW t \in Tpl, ProgMask(t), Plans(t)', NEW c \in Chan, c = frame[t].Channel, Recorded(c)'
  PROVE  Progress(t)' /\ Counting(t)' /\ Good(c)' /\ Ends(c)'
<1>1. TypeInv /\ frame \in [Tpl -> Frame] /\ frame[t] \in Frame /\ DmaTypeOK
  BY DEF RawInv, RouteInv, TypeInv, TypeOK
<1>2. At(t, "prog_mask") /\ Out(t, MaskPort(c), 4 + (c % 4), "prog_clear")
  BY DEF ProgMask
<1>3. ch'[c].mask
  BY <1>1, <1>2, WriteRouted, MaskWritten DEF Out
<1>4. /\ frame'[t].pc = "prog_clear" /\ frame'[t].Mode = frame[t].Mode /\ frame'[t].Channel = c
  BY <1>1, <1>2 DEF Out, Goto, Frame
<1>5. c \in Owns[t] /\ frame[t].Mode % 4 = c % 4
  BY <1>2 DEF RawInv, Owners, RouteInv, At, Programming
<1>6. frame'[t].Mode # 0 /\ frame'[t].Address < BusSize /\ (c \in Narrow => frame'[t].Count # 0)
  BY <1>4 DEF Plans, Programming, Rewriting
<1>7. Progress(t)'
  BY <1>3, <1>4, <1>5, <1>6 DEF Progress, AfterMode, AfterAddr, AfterPage, LowNext, HighNext, Rewriting
<1>8. Counting(t)'
  BY <1>4, <1>6 DEF Counting, AfterAddr
<1>9. Reprogramming(c)'
  BY <1>4 DEF Reprogramming, Rewriting
<1>10. QED
  BY <1>3, <1>7, <1>8, <1>9 DEF Good, Ends, EndsRight, Recorded, Programmed

(* Two callers in a call are on different channels.                        *)
LEMMA CallsApart ==
  ASSUME Exclusive, Owners, NEW t \in Tpl, NEW u \in Tpl, u # t,
         frame[t].pc # "idle", frame[u].pc # "idle"
  PROVE  frame[u].Channel # frame[t].Channel
BY DEF Exclusive, Owners

(* A call goes on.                                                         *)
LEMMA ProceedKeeps ==
  ASSUME Exclusive, RawInv, CallerStep, NEW t \in Tpl, Proceed(t)
  PROVE  RawInv'
<1>1. TypeInv /\ Owners /\ RouteInv
  BY DEF RawInv, RouteInv
<1>2. PICK c \in Chan : c = frame[t].Channel
  BY <1>1 DEF TypeInv, TypeOK, Frame
<1>3. OnlyIts(t) /\ Untouched(t) /\ TypeInv'
  BY <1>1, ProceedOnlyIts, OthersExact, ProceedTypes
<1>4. /\ frame[t].pc # "idle" /\ \A u \in Tpl \ {t} : frame'[u] = frame[u]
      /\ frame'[t].pc # "idle" => frame'[t].Channel = c
      /\ \A d \in Chan \ {c} : Kept(d) /\ CountersKept(d)
  BY <1>1, <1>2, <1>3, UntouchedCounters DEF OnlyIts
<1>5. /\ access' = access /\ accesses' = accesses
      /\ hit' = hit \ {d \in Chan : ~Reprogramming(d) /\ Reprogramming(d)'}
  BY DEF CallerStep
<1>6. AccessOK' /\ hit' \subseteq hit
  BY <1>5 DEF RawInv, AccessOK, Idle
<1>7. ASSUME NEW d \in Chan \ {c} PROVE Reprogramming(d)' <=> Reprogramming(d)
  BY <1>2, <1>4 DEF Reprogramming, Rewriting
<1>8. \A d \in Chan \ {c} : d \notin hit' => d \notin hit
  BY <1>5, <1>7
<1>9. RouteInv'
  <2>1. [Next]_vars
    BY DEF Next
  <2>2. QED
    BY <1>1, <2>1, RouteStep
<1>10. Owners'
  BY <1>1, <1>2, <1>4 DEF Owners
<1>11. ASSUME NEW u \in Tpl PROVE Plans(u)'
  <2>1. CASE u = t
    BY <1>1, <2>1, PlansKept DEF RawInv
  <2>2. CASE u # t
    <3>1. frame[u].pc # "idle" => frame[u].Channel \in Chan \ {c}
      <4>1. frame[u].Channel \in Chan
        BY <1>1 DEF TypeInv, TypeOK, Frame
      <4>2. QED
        BY <1>1, <1>2, <1>4, <2>2, <4>1, CallsApart
    <3>2. frame'[u] = frame[u] /\ Plans(u)
      BY <1>4, <2>2 DEF RawInv
    <3>3. frame[u].pc = "start_unmask" => DmaChannels'[frame[u].Channel] = DmaChannels[frame[u].Channel]
      BY <1>4, <3>1 DEF Kept
    <3>4. QED
      BY <3>2, <3>3 DEF Plans, Programming
  <2>3. QED
    BY <2>1, <2>2
<1>12. ASSUME NEW d \in Chan PROVE Recorded(d)'
  <2>1. CASE d = c
    BY <1>1, <1>2, <2>1, RecordedKept DEF RawInv
  <2>2. CASE d # c
    BY <1>4, <2>2 DEF RawInv, Recorded, Programmed, Kept
  <2>3. QED
    BY <2>1, <2>2
<1>13. frame'[t].pc = "idle" => Progress(t)' /\ Counting(t)'
  BY ProgressOutside, CountingOutside DEF Rewriting
<1>14. c \notin hit' => Progress(t)' /\ Counting(t)' /\ Good(c)' /\ Ends(c)'
  <2>1. CASE c \notin hit
    <3>1. Local(t) /\ Counting(t) /\ Ends(frame[t].Channel)
      BY <1>1, <1>2, <2>1 DEF RawInv, Local
    <3>2. QED
      BY <1>2, <1>3, <3>1, StepProceedLocal, ProceedCounts, ProceedEnds
  <2>2. CASE c \in hit /\ ProgMask(t)
    BY <1>2, <1>11, <1>12, <2>2, MaskRestores
  <2>3. CASE c \in hit /\ ~ProgMask(t)
    <3>1. ASSUME Reprogramming(c)' PROVE Reprogramming(c)
      <4>1. PICK u \in Tpl : frame'[u].pc \in Rewriting /\ frame'[u].Channel = c
        BY <3>1 DEF Reprogramming
      <4>2. CASE u # t
        BY <1>4, <4>1, <4>2 DEF Reprogramming
      <4>3. CASE u = t
        <5>1. Programming(t)'
          BY <4>1, <4>3 DEF Programming
        <5>2. Programming(t) /\ frame[t].pc # "prog_mask"
          <6>1. Programming(t)
            BY <1>1, <5>1, ProgramGoesOn
          <6>2. CASE frame[t].pc = "prog_mask"
            BY <2>3, <6>2 DEF Proceed, Program, Start, Stop, GetStatus, ProgMask, ProgClear, ProgMode,
               ProgAddrLo, ProgAddrHi, ProgPage, ProgCountLo, ProgCountHi, ProgStore, StartUnmask,
               StartMark, StopMask, StopMark, StatRead, StatClear, StatCountLo, StatCountHi,
               StatStore, Mark, At
          <6>3. QED
            BY <6>1, <6>2
        <5>3. QED
          BY <1>2, <5>2 DEF Programming, Reprogramming
      <4>4. QED
        BY <4>2, <4>3
    <3>2. QED
      BY <1>5, <2>3, <3>1
  <2>4. QED
    BY <2>1, <2>2, <2>3
<1>15. ASSUME NEW u \in Tpl, frame'[u].Channel \notin hit' PROVE Progress(u)' /\ Counting(u)'
  <2>1. CASE u = t
    BY <1>4, <1>13, <1>14, <1>15, <2>1
  <2>2. CASE u # t /\ frame'[u].pc = "idle"
    BY <2>2, ProgressOutside, CountingOutside DEF Rewriting
  <2>3. CASE u # t /\ frame'[u].pc # "idle"
    <3>1. frame'[u] = frame[u] /\ frame[u].Channel \in Chan \ {c}
      <4>1. frame'[u] = frame[u] /\ frame[u].pc # "idle"
        BY <1>4, <2>3
      <4>2. frame[u].Channel \in Chan
        BY <1>1 DEF TypeInv, TypeOK, Frame
      <4>3. frame[u].Channel # c
        BY <1>1, <1>2, <1>4, <2>3, <4>1, CallsApart
      <4>4. QED
        BY <4>1, <4>2, <4>3
    <3>2. Progress(u) /\ Counting(u)
      BY <1>8, <1>15, <3>1 DEF RawInv
    <3>3. Progress(u)'
      BY <1>1, <1>3, <2>3, <3>2, OtherProgressKept
    <3>4. QED
      BY <1>4, <3>1, <3>2, <3>3, CountingKept
  <2>4. QED
    BY <2>1, <2>2, <2>3
<1>16. ASSUME NEW d \in Chan \ hit' PROVE Good(d)' /\ Ends(d)'
  <2>1. CASE d = c
    BY <1>14, <1>16, <2>1
  <2>2. CASE d # c
    <3>1. Good(d) /\ Ends(d)
      BY <1>8, <1>16, <2>2 DEF RawInv
    <3>2. QED
      BY <1>2, <1>3, <1>4, <1>7, <2>2, <3>1, OtherGoodKept, EndsKept DEF Kept
  <2>3. QED
    BY <2>1, <2>2
<1>17. QED
  BY <1>6, <1>9, <1>10, <1>11, <1>12, <1>15, <1>16 DEF RawInv

LEMMA RawStep ==
  ASSUME Exclusive, RawInv, [RawNext]_rawVars
  PROVE  RawInv'
<1>1. TypeInv /\ AccessOK
  BY DEF RawInv, RouteInv
<1>2. ASSUME NEW Port \in Ports, NEW Width \in Widths, NEW Ptr \in {NULL, 1},
             LegacyIoRead(Port, Width, Ptr) \/ LegacyIoWrite(Port, Width, Ptr)
      PROVE  RawInv'
  BY <1>1, <1>2, CallAccess, NothingKeeps DEF LegacyIoRead, LegacyIoWrite
<1>3. CASE UNCHANGED rawVars
  <2>1. UNCHANGED vars /\ hit' = hit /\ access' = access /\ accesses' = accesses
    BY <1>3 DEF rawVars
  <2>2. AccessOK'
    BY <1>1, <2>1 DEF AccessOK, Idle
  <2>3. QED
    BY <2>1, <2>2, NothingKeeps
<1>4. CASE CallerStep
  BY <1>4, CallKeeps, ProceedKeeps DEF CallerStep
<1>5. QED
  BY <1>2, <1>3, <1>4, RawCycleKeeps, DeviceKeeps DEF RawNext

LEMMA RawInitInv == RawInit => RawInv
<1> SUFFICES ASSUME RawInit PROVE RawInv
  OBVIOUS
<1>1. CountInv /\ RouteInv /\ AccessOK
  BY CountInit, RouteInit, AccessInit DEF RawInit
<1>2. Owners /\ \A t \in Tpl : Progress(t) /\ Counting(t)
  BY <1>1, SafetyLocal DEF CountInv, SafetyInv
<1>3. \A t \in Tpl : Plans(t)
  BY <1>2 DEF Progress, Counting, Plans, Programming
<1>4. \A c \in Chan : Good(c) /\ Ends(c)
  BY <1>1 DEF CountInv, SafetyInv
<1>5. \A c \in Chan : Recorded(c)
  BY <1>4 DEF Good, Ends, Recorded
<1>6. QED
  BY <1>1, <1>2, <1>3, <1>4, <1>5 DEF RawInv

-----------------------------------------------------------------------------
(* The theorems.                                                           *)

(* The invariant holds in every execution.                                 *)
THEOREM RawInvariant == ASSUME Exclusive PROVE RawSpec => []RawInv
BY RawInitInv, RawStep, PTL DEF RawSpec

(* Whatever bytes a client of LegacyIoRead and LegacyIoWrite reads and     *)
(* writes, and whenever, a channel it did not disturb since the driver last*)
(* began to program it is masked while it is being programmed, holds what  *)
(* the driver recorded, and is open only with a programmed transfer.       *)
THEOREM HarmLocal == ASSUME Exclusive PROVE RawSpec => []HarmIsLocal
<1>1. RawInv => HarmIsLocal
  <2> SUFFICES ASSUME RawInv, NEW c \in Chan \ hit PROVE Intact(c)
    BY DEF HarmIsLocal
  <2>1. Good(c)
    BY DEF RawInv
  <2>2. Reprogramming(c) => ch[c].mask
    BY DEF RawInv, Progress, Reprogramming
  <2>3. QED
    BY <2>1, <2>2 DEF Intact, Good
<1>2. QED
  BY <1>1, RawInvariant, PTL

(* A step that disturbs no narrow channel, in a state where none is.       *)
LEMMA RawTasksStep ==
  ASSUME Exclusive, RawInv, [RawNext]_rawVars, (hit \cup hit') \cap Narrow = {}
  PROVE  [Tasks!Next]_(Tasks!vars)
<1>1. TypeInv /\ TypeInv' /\ RouteInv /\ Owners
  BY RawTypeStep DEF RawInv, RouteInv
<1>2. \A c \in Narrow : c \in Chan \ hit /\ c \in Chan \ hit'
  BY DEF Narrow, Chan
<1>3. CASE RawCycle
  <2>1. ASSUME NEW d \in Narrow PROVE SameTask(d)
    <3>1. frame' = frame /\ DmaChannels' = DmaChannels /\ ch'[d] = [ch[d] EXCEPT !.tc = ch'[d].tc]
      BY <1>1, <1>2, <1>3, RawCycleEffect
    <3>2. CountersKept(d) /\ ch'[d].mask = ch[d].mask /\ ch'[d].page = ch[d].page
      BY <1>1, <1>2, <3>1, SparedKept
    <3>3. Reprogramming(d)' <=> Reprogramming(d)
      BY <3>1 DEF Reprogramming
    <3>4. QED
      BY <3>1, <3>2, <3>3 DEF SameTask, TaskOf, On, Left, AtAddress, Holds, Programmed, CountersKept
  <2>2. QED
    BY <2>1, TasksStutter
<1>4. CASE UNCHANGED vars
  <2>1. \A d \in Narrow : SameTask(d)
    BY <1>4 DEF vars, SameTask, TaskOf, On, Left, AtAddress, Holds, Programmed, Reprogramming
  <2>2. QED
    BY <2>1, TasksStutter
<1>5. ASSUME NEW t \in Tpl, Call(t) PROVE [Tasks!Next]_(Tasks!vars)
  BY <1>1, <1>5, CallSame, TasksStutter
<1>6. ASSUME NEW t \in Tpl, Proceed(t) PROVE [Tasks!Next]_(Tasks!vars)
  <2>1. PICK c \in Chan : c = frame[t].Channel
    BY <1>1 DEF TypeInv, TypeOK, Frame
  <2>2. \A d \in Narrow \ {c} : SameTask(d)
    BY <1>1, <1>2, <1>6, <2>1, OthersSame
  <2>3. CASE c \in Narrow
    <3>1. Local(t) /\ Counting(t)
      BY <1>1, <1>2, <2>1, <2>3 DEF RawInv, Local
    <3>2. TaskStep(c)
      BY <1>1, <1>6, <2>1, <2>3, <3>1, ProgramRefines, ControlRefines DEF Proceed
    <3>3. QED
      BY <2>2, <2>3, <3>2, Pointwise
  <2>4. CASE c \notin Narrow
    BY <2>2, <2>4, TasksStutter
  <2>5. QED
    BY <2>3, <2>4
<1>7. ASSUME NEW c \in Chan, BusCycle(c) PROVE [Tasks!Next]_(Tasks!vars)
  <2>1. \A d \in Narrow \ {c} : SameTask(d)
    BY <1>1, <1>2, <1>7, CycleSame
  <2>2. CASE c \in Narrow
    <3>1. Good(c) /\ Ends(c) /\ ~ch[c].mask
      BY <1>2, <1>7, <2>2 DEF RawInv, BusCycle, Transfer, Granted
    <3>2. ~Reprogramming(c)
      BY <1>2, <2>2, <3>1 DEF RawInv, Progress, Reprogramming
    <3>3. TaskStep(c)
      BY <1>1, <1>7, <2>2, <3>1, <3>2, CycleRefines DEF Ends
    <3>4. QED
      BY <2>1, <2>2, <3>3, Pointwise
  <2>3. CASE c \notin Narrow
    BY <2>1, <2>3, TasksStutter
  <2>4. QED
    BY <2>2, <2>3
<1>8. QED
  BY <1>3, <1>4, <1>5, <1>6, <1>7, RawAssumption
  DEF RawNext, rawVars, LegacyIoRead, LegacyIoWrite, RawCall, CallerStep, DeviceCycle

(* Beside a raw client the driver still implements DmaTasks, except in the *)
(* steps before which, or in which, the client has disturbed a narrow      *)
(* channel: its accesses to other ports are invisible to every task.       *)
THEOREM TasksBesideRaw == ASSUME Exclusive PROVE RawSpec => TasksUnlessDisturbed
<1>1. RawInit => Tasks!Init
  BY TasksInit DEF RawInit
<1>2. RawInv /\ [RawNext]_rawVars => [(hit \cup hit') \cap Narrow # {} \/ Tasks!Next]_(Tasks!vars)
  BY RawTasksStep
<1>3. QED
  BY <1>1, <1>2, RawInvariant, PTL DEF RawSpec, TasksUnlessDisturbed
=============================================================================
