--------------------------- MODULE DmaDemoProofs ---------------------------
(***************************************************************************)
(* DmaDemo: the demo is a client LegacyDma describes, and what it relies   *)
(* on between its calls.  Proofs.                                          *)
(***************************************************************************)
EXTENDS LegacyDmaProofs, DmaDemo

(* The demo's call, its channel as the driver and the controller have it,  *)
(* and its buffer.                                                         *)
Own == frame[App]
Rec == DmaChannels[DemoChannel]
Reg == ch[DemoChannel]
Memory == buf[DmaBuf].Buffer

Held == Memory # NULL /\ Memory < BusSize

(* When the record of the channel says what was asked for; with the whole  *)
(* transfer still to come; while it is served; when a completion shows; and*)
(* when what shows is the completion of this transfer.                     *)
DemoMode == DmaMode(DemoChannel, DmaModeRead, FALSE)
Noted == Held /\ Rec.Mode = DemoMode /\ Rec.Count = DemoCount /\ Rec.Address = Memory
Fresh == Noted /\ Reg.mask /\ Val(Reg.count) = DemoCount - 1
Served == Noted /\ (~Reg.mask => Val(Reg.count) < DemoCount)
Signals == Reg.mask => Reg.tc
Honest == Reg.tc => Reg.mask

(* The first poll may take an older completion for one of this transfer.   *)
Fooled == app.polls = 1 /\ app.stale

(* What the demo relies on, by where it is.                                *)
BeforeProgram ==
  /\ Own.pc = "idle" /\ Reg.mask
  /\ IF app.pc = "program" THEN Held ELSE Memory = NULL

WhileProgram ==
  IF Own.pc = "idle" THEN Own.ret = "SUCCESS" /\ Fresh
  ELSE /\ Programming(App) /\ Held /\ Reg.mask
       /\ Own.Mode = DemoMode /\ Own.Count = DemoCount /\ Own.Address = Memory

WhileStart ==
  /\ Honest \/ app.stale
  /\ CASE Own.pc = "start_unmask" -> Fresh /\ (Reg.tc => app.stale)
       [] Own.pc = "start_mark"   -> Served /\ Signals
       [] OTHER -> Own.pc = "idle" /\ Own.ret = "SUCCESS" /\ Served /\ Signals /\ Rec.IsActive

WhilePoll ==
  /\ Served
  /\ Honest \/ (Own.pc = "stat_read" /\ Fooled)
  /\ CASE Own.pc = "stat_read" -> Signals
       [] Own.pc = "idle" -> /\ Own.ret = "SUCCESS"
                             /\ IF Rec.IsActive THEN Signals ELSE Reg.mask \/ Fooled
       [] OTHER -> /\ Own.pc \in {"stat_clear", "stat_lo", "stat_hi", "stat_store"}
                   /\ IF Own.Done THEN Reg.mask \/ Fooled ELSE Signals

WhileStop ==
  /\ Own.pc \in {"stop_mask", "stop_mark", "idle"}
  /\ Served
  /\ Own.pc # "stop_mask" => Reg.mask

Phase ==
  /\ app.pc \in {"locate", "open", "allocate", "program"} => BeforeProgram
  /\ app.pc = "programmed" => WhileProgram
  /\ app.pc = "start" => Own.pc = "idle" /\ Fresh
  /\ app.pc = "started" => WhileStart
  /\ app.pc = "poll" => /\ Own.pc = "idle" /\ Served /\ Signals /\ Rec.IsActive
                        /\ Honest \/ (app.polls = 0 /\ app.stale)
  /\ app.pc = "polled" => WhilePoll
  /\ app.pc = "stop" => Own.pc = "idle" /\ Served /\ (app.polls < DemoPolls => Reg.mask \/ Fooled)
  /\ app.pc = "stopped" => WhileStop
  /\ app.pc = "free" => Own.pc = "idle" /\ Reg.mask
  /\ app.pc = "done" => Own.pc = "idle" /\ Reg.mask /\ Memory = NULL

AppOK ==
  /\ app \in [pc : {"locate", "open", "allocate", "program", "programmed", "start", "started",
                    "poll", "polled", "stop", "stopped", "free", "done"},
              HandleBuffer : BOOLEAN, polls : 0 .. DemoPolls, stale : BOOLEAN,
              ret : Status \cup {"NOT_FOUND", "UNSUPPORTED"}]
  /\ app.pc \in {"locate", "open", "allocate", "program", "programmed", "start", "started"} => app.polls = 0
  /\ app.pc = "poll" => app.polls < DemoPolls
  /\ app.pc \in {"locate", "done"} => ~app.HandleBuffer

DemoInv ==
  /\ RouteInv /\ CountInv /\ AppOK /\ Phase
  /\ \A t \in Tpl \ {App} : frame[t].pc = "idle"
  /\ Own.pc # "idle" => Own.Channel = DemoChannel

-----------------------------------------------------------------------------
(* The demo is one of the clients of LegacyDma.                            *)

LEMMA DemoCalls == [DemoNext]_demoVars => [Next]_vars
<1> SUFFICES ASSUME [DemoNext]_demoVars PROVE [Next]_vars
  OBVIOUS
<1>1. ASSUME Call(App) PROVE [Next]_vars
  BY <1>1, DemoAssumption DEF Next
<1>2. CASE UNCHANGED demoVars
  BY <1>2 DEF demoVars
<1>3. CASE Locate \/ Open \/ ProgramBack \/ StartBack \/ PollBack \/ StopBack \/ Rerun
  BY <1>3, Zenon DEF Locate, Open, ProgramBack, StartBack, PollBack, StopBack, Back, Rerun
<1>4. CASE Allocate \/ FreeAndEnd
  BY <1>1, <1>4, DemoAssumption, Zenon DEF Allocate, FreeAndEnd, Call
<1>5. CASE InvokeProgram
  <2>1. ProgramDmaChannel(App, DemoChannel, DmaModeRead, buf[DmaBuf].Buffer, DemoCount, FALSE)
    BY <1>5 DEF InvokeProgram, Invoke
  <2>2. buf[DmaBuf].Buffer \in {buf[b].Buffer : b \in Buffers} \cup ClientAddrs
    BY DemoAssumption
  <2>3. QED
    BY <1>1, <2>1, <2>2, DemoAssumption, Zenon DEF Call
<1>6. CASE InvokeStart \/ InvokePoll \/ InvokeStop
  BY <1>1, <1>6, DemoAssumption, Zenon DEF InvokeStart, InvokePoll, InvokeStop, Invoke, Call
<1>7. CASE Proceed(App)
  BY <1>7, DemoAssumption DEF Next
<1>8. CASE Device
  BY <1>8, Zenon DEF Device, Next
<1>9. QED
  BY <1>2, <1>3, <1>4, <1>5, <1>6, <1>7, <1>8 DEF DemoNext, DemoStep

(* Every execution of the demo is one of LegacyDma: whatever holds of its  *)
(* callers holds of the demo.                                              *)
THEOREM DemoIsClient == DemoSpec => Spec
<1>1. DemoInit => Init
  BY DEF DemoInit
<1>2. QED
  BY <1>1, DemoCalls, PTL DEF DemoSpec, Spec

-----------------------------------------------------------------------------
(* What is known in every state.                                           *)

LEMMA DemoModeByte == DemoMode = 73 /\ DemoMode \div 16 = 4 /\ DemoMode % 4 = 1
BY DEF DemoMode, DmaMode, DemoChannel, DmaModeRead

LEMMA DemoFacts ==
  ASSUME DemoInv
  PROVE  /\ TypeInv /\ SafetyInv /\ Owners /\ Local(App) /\ Counting(App)
         /\ App \in Tpl /\ DmaBuf \in Buffers /\ DemoChannel \in Chan /\ DemoChannel = 1
         /\ frame \in [Tpl -> Frame] /\ Own \in Frame
         /\ ch \in [Chan -> Channel] /\ Reg \in Channel /\ Reg.count \in Pair /\ Reg.addr \in Pair
         /\ DmaChannels \in [Chan -> ChannelInfo] /\ Rec \in ChannelInfo
         /\ buf \in [Buffers -> Descriptor] /\ Memory \in Nat
         /\ DemoCount \in 1 .. Word - 1 /\ DemoPolls \in Nat \ {0} /\ Word \in Nat /\ Word > 1
         /\ AppOK /\ Phase
<1>1. TypeInv /\ SafetyInv
  BY DEF DemoInv, RouteInv, CountInv
<1>2. App \in Tpl /\ DmaBuf \in Buffers /\ DemoChannel \in Chan /\ DemoChannel = 1
  BY DemoAssumption DEF DemoChannel, Chan
<1>3. Owners /\ Local(App)
  BY <1>1, <1>2, SafetyLocal
<1>4. /\ frame \in [Tpl -> Frame] /\ ch \in [Chan -> Channel]
      /\ DmaChannels \in [Chan -> ChannelInfo] /\ buf \in [Buffers -> Descriptor]
  BY <1>1 DEF TypeInv, TypeOK, DmaTypeOK
<1>5. Own \in Frame /\ Reg \in Channel /\ Rec \in ChannelInfo /\ Memory \in Nat
  BY <1>2, <1>4 DEF Own, Reg, Rec, Memory, Descriptor
<1>6. Reg.count \in Pair /\ Reg.addr \in Pair
  BY <1>5 DEF Channel
<1>7. Counting(App) /\ AppOK /\ Phase
  BY <1>2 DEF DemoInv, CountInv
<1>8. DemoCount \in 1 .. Word - 1 /\ DemoPolls \in Nat \ {0} /\ Word \in Nat /\ Word > 1
  BY DemoAssumption, WordFacts
<1>9. QED
  BY <1>1, <1>2, <1>3, <1>4, <1>5, <1>6, <1>7, <1>8

(* The demo's predicates speak of one record, one channel and one buffer.  *)
LEMMA SameThere ==
  ASSUME Reg' = Reg, Rec' = Rec, Memory' = Memory
  PROVE  /\ Held' <=> Held
         /\ Fresh' <=> Fresh
         /\ Served' <=> Served
         /\ Signals' <=> Signals
         /\ Honest' <=> Honest
BY DEF Held, Fresh, Noted, Served, Signals, Honest, Val

(* A step of a call leaves the buffers alone, and the terminal-count bits  *)
(* but for a read of the status register.                                  *)
LEMMA ProceedQuiet ==
  ASSUME TypeInv, NEW t \in Tpl, Proceed(t)
  PROVE  /\ buf' = buf
         /\ ~StatRead(t) => \A e \in Chan : ch'[e].tc = ch[e].tc
<1> DEFINE c == frame[t].Channel
<1>1. c \in Chan /\ ch \in [Chan -> Channel]
  BY DEF TypeInv, TypeOK, Frame, DmaTypeOK
<1> HIDE DEF c
<1>2. buf' = buf
  BY Zenon DEF Proceed, Program, Start, Stop, GetStatus, ProgMask, ProgClear, ProgMode, ProgAddrLo,
     ProgAddrHi, ProgPage, ProgCountLo, ProgCountHi, ProgStore, StartUnmask, StartMark, StopMask,
     StopMark, StatRead, StatClear, StatCountLo, StatCountHi, StatStore, Out, Mark
<1>3. ASSUME NEW p \in {AddrPort(c), CountPort(c), PagePort(c), MaskPort(c), ModePort(c), ClearPort(c)},
             NEW v, NEW pc, Out(t, p, v, pc), NEW e \in Chan
      PROVE  ch'[e].tc = ch[e].tc
  <2>1. \/ WriteAddr(c, v) \/ WriteCount(c, v) \/ WritePage(c, v)
        \/ WriteMask(Of(c), v) \/ WriteMode(Of(c), v) \/ ClearFlipFlop(Of(c))
    BY <1>1, <1>3, WriteRouted DEF Out
  <2>2. CASE WriteAddr(c, v) \/ WriteCount(c, v)
    <3>1. CASE WriteAddr(c, v)
      BY <1>1, <3>1 DEF WriteAddr, Channel
    <3>2. CASE WriteCount(c, v)
      BY <1>1, <3>2 DEF WriteCount, Channel
    <3>3. QED
      BY <2>2, <3>1, <3>2
  <2>3. CASE WritePage(c, v) \/ WriteMask(Of(c), v) \/ WriteMode(Of(c), v)
    <3>1. PICK d, x : \/ ch' = [ch EXCEPT ![d].page = x]
                      \/ ch' = [ch EXCEPT ![d].mask = x]
                      \/ ch' = [ch EXCEPT ![d].mode = x]
      BY <2>3, Zenon DEF WritePage, WriteMask, WriteMode
    <3>2. QED
      BY <1>1, <3>1 DEF Channel
  <2>4. CASE ClearFlipFlop(Of(c))
    BY <2>4 DEF ClearFlipFlop
  <2>5. QED
    BY <2>1, <2>2, <2>3, <2>4
<1>4. CASE \/ ProgMask(t) \/ ProgClear(t) \/ ProgMode(t) \/ ProgAddrLo(t) \/ ProgAddrHi(t)
           \/ ProgPage(t) \/ ProgCountLo(t) \/ ProgCountHi(t) \/ StartUnmask(t) \/ StopMask(t)
           \/ StatClear(t)
  <2>1. PICK p \in {AddrPort(c), CountPort(c), PagePort(c), MaskPort(c), ModePort(c), ClearPort(c)} :
          \E v, pc : Out(t, p, v, pc)
    BY <1>4 DEF ProgMask, ProgClear, ProgMode, ProgAddrLo, ProgAddrHi, ProgPage, ProgCountLo,
                ProgCountHi, StartUnmask, StopMask, StatClear, c
  <2>2. QED
    BY <1>2, <1>3, <2>1
<1>5. CASE ProgStore(t) \/ StartMark(t) \/ StopMark(t) \/ StatStore(t) \/ StatCountLo(t) \/ StatCountHi(t)
  BY <1>2, <1>5, Zenon DEF ProgStore, StartMark, StopMark, StatStore, Mark, StatCountLo, StatCountHi, PortRead
<1>6. QED
  BY <1>2, <1>4, <1>5 DEF Proceed, Program, Start, Stop, GetStatus

-----------------------------------------------------------------------------
(* The calls of the demo, step by step.                                    *)

LEMMA WhichStep ==
  ASSUME NEW t \in Tpl, Proceed(t)
  PROVE  /\ Programming(t) => Program(t)
         /\ frame[t].pc = "prog_store" => ProgStore(t)
         /\ frame[t].pc = "start_unmask" => StartUnmask(t)
         /\ frame[t].pc = "start_mark" => StartMark(t)
         /\ frame[t].pc = "stat_read" => StatRead(t)
         /\ frame[t].pc = "stat_clear" => StatClear(t)
         /\ frame[t].pc = "stat_lo" => StatCountLo(t)
         /\ frame[t].pc = "stat_hi" => StatCountHi(t)
         /\ frame[t].pc = "stat_store" => StatStore(t)
         /\ frame[t].pc = "stop_mask" => StopMask(t)
         /\ frame[t].pc = "stop_mark" => StopMark(t)
<1>1. /\ ProgMask(t) => frame[t].pc = "prog_mask"
      /\ ProgClear(t) => frame[t].pc = "prog_clear"
      /\ ProgMode(t) => frame[t].pc = "prog_mode"
      /\ ProgAddrLo(t) => frame[t].pc = "prog_addr_lo"
      /\ ProgAddrHi(t) => frame[t].pc = "prog_addr_hi"
      /\ ProgPage(t) => frame[t].pc = "prog_page"
      /\ ProgCountLo(t) => frame[t].pc = "prog_count_lo"
      /\ ProgCountHi(t) => frame[t].pc = "prog_count_hi"
      /\ ProgStore(t) => frame[t].pc = "prog_store"
      /\ StartUnmask(t) => frame[t].pc = "start_unmask"
      /\ StartMark(t) => frame[t].pc = "start_mark"
      /\ StatRead(t) => frame[t].pc = "stat_read"
      /\ StatClear(t) => frame[t].pc = "stat_clear"
      /\ StatCountLo(t) => frame[t].pc = "stat_lo"
      /\ StatCountHi(t) => frame[t].pc = "stat_hi"
      /\ StatStore(t) => frame[t].pc = "stat_store"
      /\ StopMask(t) => frame[t].pc = "stop_mask"
      /\ StopMark(t) => frame[t].pc = "stop_mark"
  BY Zenon DEF ProgMask, ProgClear, ProgMode, ProgAddrLo, ProgAddrHi, ProgPage, ProgCountLo,
     ProgCountHi, ProgStore, StartUnmask, StartMark, StopMask, StopMark, StatRead, StatClear,
     StatCountLo, StatCountHi, StatStore, Mark, At
<1>2. QED
  BY <1>1 DEF Proceed, Program, Start, Stop, GetStatus, Programming, Rewriting

(* LegacyDmaProgramChannel, up to the store: the plan stays, the channel   *)
(* stays masked.                                                           *)
LEMMA ProgramPhase ==
  ASSUME DemoInv, CountInv', app.pc = "programmed", Proceed(App)
  PROVE  WhileProgram'
<1>1. Own.pc # "idle" /\ frame[App].Channel = DemoChannel
  BY DemoFacts, ProceedFrame DEF DemoInv, Own
<1>2. /\ Programming(App) /\ Held /\ Reg.mask
      /\ Own.Mode = DemoMode /\ Own.Count = DemoCount /\ Own.Address = Memory
  BY <1>1, DemoFacts DEF Phase, WhileProgram
<1>3. Program(App)
  BY <1>2, DemoFacts, WhichStep
<1>4. Memory' = Memory
  BY DemoFacts, ProceedQuiet DEF Memory
<1>5. CASE ~ProgStore(App)
  <2>1. \E pc \in Rewriting : \E port, v : Out(App, port, v, pc)
    BY <1>3, <1>5 DEF Program, ProgMask, ProgClear, ProgMode, ProgAddrLo, ProgAddrHi, ProgPage,
                      ProgCountLo, ProgCountHi, Rewriting
  <2>2. PICK pc \in Rewriting : \E port, v : Out(App, port, v, pc)
    BY <2>1
  <2>3. /\ Own'.pc = pc /\ Own'.Channel = Own.Channel /\ Own'.Address = Own.Address
        /\ Own'.Count = Own.Count /\ Own'.Mode = Own.Mode
        /\ DmaChannels' = DmaChannels
    BY <2>2, DemoFacts, OutFrame DEF Own, Pc
  <2>4. Reg'.mask
    <3>1. Progress(App)'
      BY DemoFacts DEF CountInv, SafetyInv
    <3>2. QED
      BY <1>1, <2>3, <3>1 DEF Progress, Own, Reg
  <2>5. Held'
    BY <1>2, <1>4 DEF Held
  <2>6. Programming(App)' /\ Own'.pc # "idle"
    BY <2>3 DEF Programming, Own, Rewriting
  <2>7. QED
    BY <1>2, <1>4, <2>3, <2>4, <2>5, <2>6 DEF WhileProgram
<1>6. CASE ProgStore(App)
  <2>1. /\ Own.pc = "prog_store" /\ ch' = ch
        /\ DmaChannels' = [DmaChannels EXCEPT ![DemoChannel] =
             [Mode |-> Own.Mode, Count |-> Own.Count, Address |-> Own.Address, IsActive |-> FALSE]]
        /\ frame' = [frame EXCEPT ![App] = Returned("SUCCESS")]
    BY <1>1, <1>6 DEF ProgStore, At, Return, Own
  <2>2. Own'.pc = "idle" /\ Own'.ret = "SUCCESS"
    BY <2>1, DemoFacts DEF Own, Returned
  <2>3. Noted' /\ Reg' = Reg
    BY <1>2, <1>4, <2>1, DemoFacts DEF Noted, Held, Rec, Reg
  <2>4. Val(Reg.count) = DemoCount - 1
    <3>1. Reg.count = Bytes(CountReg(App))
      BY <1>1, <2>1, DemoFacts DEF Counting, Own, Reg
    <3>2. CountReg(App) = DemoCount - 1
      BY <1>1, <1>2, DemoFacts DEF CountReg, TransferCount, Wide, Own
    <3>3. DemoCount - 1 \in 0 .. Word - 1
      BY DemoFacts
    <3>4. QED
      BY <3>1, <3>2, <3>3, CountWhole
  <2>5. Fresh'
    BY <1>2, <2>3, <2>4 DEF Fresh, Val
  <2>6. QED
    BY <2>2, <2>5 DEF WhileProgram
<1>7. QED
  BY <1>5, <1>6

(* LegacyDmaStart, Stop and Status change no task.                         *)
LEMMA ControlQuiet ==
  ASSUME DemoInv, Start(App) \/ Stop(App) \/ GetStatus(App)
  PROVE  /\ Memory' = Memory /\ Reg'.count = Reg.count
         /\ Noted => Noted'
         /\ ~StatRead(App) => Reg'.tc = Reg.tc
         /\ ~StartUnmask(App) /\ ~StopMask(App) => Reg'.mask = Reg.mask
<1>1. Proceed(App)
  BY DEF Proceed
<1>2. ~ProgStore(App) /\ ~WritesCounter(App)
  BY DEF Start, Stop, GetStatus, StartUnmask, StartMark, StopMask, StopMark, StatRead, StatClear,
         StatCountLo, StatCountHi, StatStore, Mark, At, ProgStore, WritesCounter, ProgAddrLo,
         ProgAddrHi, ProgCountLo, ProgCountHi
<1>3. Memory' = Memory /\ (~StatRead(App) => Reg'.tc = Reg.tc)
  BY <1>1, DemoFacts, ProceedQuiet DEF Memory, Reg
<1>4. Reg'.count = Reg.count
  BY <1>1, <1>2, DemoFacts, CountersOnlyWritten DEF CountersKept, Reg
<1>5. ASSUME Noted PROVE Noted'
  BY <1>1, <1>2, <1>3, <1>5, DemoFacts, RecordKept DEF Noted, Held, Rec, TaskOf
<1>6. ~StartUnmask(App) /\ ~StopMask(App) => Reg'.mask = Reg.mask
  BY DemoFacts, OnlyTc DEF Reg
<1>7. QED
  BY <1>3, <1>4, <1>5, <1>6

(* The frame of a call after a step, and after its end.                    *)
LEMMA OwnGoes ==
  ASSUME DemoInv
  PROVE  /\ \A port, v : \A pc \in Pc : Out(App, port, v, pc) =>
              Own'.pc = pc /\ Own'.Done = Own.Done /\ DmaChannels' = DmaChannels
         /\ \A pc, b : Mark(App, pc, b) =>
              /\ Own'.pc = "idle" /\ Own'.ret = "SUCCESS" /\ ch' = ch
              /\ Own.Channel = DemoChannel => Rec'.IsActive = b
<1>1. ASSUME NEW port, NEW v, NEW pc \in Pc, Out(App, port, v, pc)
      PROVE  Own'.pc = pc /\ Own'.Done = Own.Done /\ DmaChannels' = DmaChannels
  <2>1. frame' = [frame EXCEPT ![App] = [frame[App] EXCEPT !.pc = pc]] /\ DmaChannels' = DmaChannels
    BY <1>1 DEF Out, Goto
  <2>2. QED
    BY <2>1, DemoFacts DEF Own, Frame
<1>2. ASSUME NEW pc, NEW b, Mark(App, pc, b)
      PROVE  /\ Own'.pc = "idle" /\ Own'.ret = "SUCCESS" /\ ch' = ch
             /\ Own.Channel = DemoChannel => Rec'.IsActive = b
  <2>1. /\ frame' = [frame EXCEPT ![App] = Returned("SUCCESS")] /\ ch' = ch
        /\ DmaChannels' = [DmaChannels EXCEPT ![frame[App].Channel] =
             [DmaChannels[frame[App].Channel] EXCEPT !.IsActive = b]]
    BY <1>2 DEF Mark, Return
  <2>2. Own'.pc = "idle" /\ Own'.ret = "SUCCESS"
    BY <2>1, DemoFacts DEF Own, Returned
  <2>3. ASSUME Own.Channel = DemoChannel PROVE Rec'.IsActive = b
    <3>1. DmaChannels' = [DmaChannels EXCEPT ![DemoChannel] = [Rec EXCEPT !.IsActive = b]]
      BY <2>1, <2>3 DEF Own, Rec
    <3>2. Rec' = [Rec EXCEPT !.IsActive = b]
      BY <3>1, DemoFacts DEF Rec
    <3>3. QED
      BY <3>2, DemoFacts DEF ChannelInfo
  <2>4. QED
    BY <2>1, <2>2, <2>3
<1>3. QED
  BY <1>1, <1>2

LEMMA StartPhase ==
  ASSUME DemoInv, app.pc = "started", Proceed(App), app' = app
  PROVE  WhileStart'
<1>1. Own.pc # "idle" /\ Own.Channel = DemoChannel /\ WhileStart
  BY DemoFacts, ProceedFrame DEF DemoInv, Own, Phase
<1>2. CASE Own.pc = "start_unmask"
  <2>1. StartUnmask(App) /\ Start(App) /\ Fresh /\ (Reg.tc => app.stale)
    BY <1>1, <1>2, DemoFacts, WhichStep DEF Own, Start, WhileStart
  <2>2. Own'.pc = "start_mark"
    BY <2>1, OwnGoes DEF StartUnmask, Pc
  <2>3. Noted' /\ Reg'.count = Reg.count /\ Reg'.tc = Reg.tc
    <3>1. ~StatRead(App)
      BY <1>2 DEF StatRead, At, Own
    <3>2. QED
      BY <2>1, <3>1, ControlQuiet DEF Fresh
  <2>4. ~Reg'.mask
    <3>1. WriteMask(Of(DemoChannel), 0 + (DemoChannel % 4))
      <4>1. Out(App, MaskPort(DemoChannel), DemoChannel % 4, "start_mark")
        BY <1>1, <2>1 DEF StartUnmask, Own
      <4>2. DemoChannel % 4 = 0 + (DemoChannel % 4)
        BY DEF DemoChannel
      <4>3. QED
        BY <4>1, <4>2, DemoFacts, WriteRouted DEF Out
    <3>2. QED
      BY <3>1, DemoFacts, MaskWritten DEF TypeInv, TypeOK, Reg
  <2>5. Served' /\ Signals'
    <3>1. Val(Reg.count)' = DemoCount - 1
      BY <2>1, <2>3 DEF Fresh, Val
    <3>2. DemoCount - 1 < DemoCount
      BY DemoFacts
    <3>3. QED
      BY <2>1, <2>3, <2>4, <3>1, <3>2 DEF Served, Signals, Fresh
  <2>6. Honest' \/ app'.stale
    BY <2>1, <2>3 DEF Honest
  <2>7. QED
    BY <2>2, <2>5, <2>6 DEF WhileStart
<1>3. CASE Own.pc = "start_mark"
  <2>1. StartMark(App) /\ Start(App) /\ Served /\ Signals
    BY <1>1, <1>3, DemoFacts, WhichStep DEF Own, Start, WhileStart
  <2>2. Own'.pc = "idle" /\ Own'.ret = "SUCCESS" /\ ch' = ch /\ Rec'.IsActive
    BY <1>1, <2>1, OwnGoes DEF StartMark
  <2>3. Noted' /\ Reg' = Reg
    BY <2>1, <2>2, ControlQuiet DEF Served, Reg
  <2>4. Served' /\ Signals' /\ (Honest' <=> Honest)
    BY <2>1, <2>3 DEF Served, Signals, Honest, Val
  <2>5. QED
    BY <1>1, <2>2, <2>4 DEF WhileStart
<1>4. QED
  BY <1>1, <1>2, <1>3 DEF WhileStart

LEMMA PollPhase ==
  ASSUME DemoInv, app.pc = "polled", Proceed(App), app' = app
  PROVE  WhilePoll'
<1>1. Own.pc # "idle" /\ Own.Channel = DemoChannel /\ WhilePoll /\ Served
  BY DemoFacts, ProceedFrame DEF DemoInv, Own, Phase, WhilePoll
<1>2. CASE Own.pc = "stat_read"
  <2>1. StatRead(App) /\ GetStatus(App) /\ Signals
    BY <1>1, <1>2, DemoFacts, WhichStep DEF Own, GetStatus, WhilePoll
  <2>2. PICK bits \in SUBSET (0 .. 3) :
          /\ StatusRead(StatPort(DemoChannel), bits)
          /\ frame' = [frame EXCEPT ![App].pc = "stat_clear", ![App].Done = (DemoChannel % 4) \in bits]
    BY <1>1, <2>1 DEF StatRead, Own
  <2>3. /\ bits = {i \in 0 .. 3 : ch[i].tc}
        /\ ch' = [c \in Chan |-> IF Of(c) = 0 THEN [ch[c] EXCEPT !.tc = FALSE] ELSE ch[c]]
    <3>1. PICK k \in Ctrl :
            /\ StatPort(DemoChannel) = IoReg(k, StatReg)
            /\ bits = {i \in 0 .. 3 : ch[4 * k + i].tc}
            /\ ch' = [c \in Chan |-> IF Of(c) = k THEN [ch[c] EXCEPT !.tc = FALSE] ELSE ch[c]]
      BY <2>2 DEF StatusRead
    <3>2. k = 0
      BY <3>1 DEF StatPort, DemoChannel, IoReg, StatReg, Ctrl
    <3>3. \A i \in 0 .. 3 : 4 * k + i = i
      BY <3>2
    <3>4. QED
      BY <3>1, <3>2, <3>3
  <2>4. ~Reg'.tc /\ Reg'.mask = Reg.mask
    BY <2>3, DemoFacts DEF Reg, Of, Channel
  <2>5. ((DemoChannel % 4) \in bits) = Reg.tc
    <3>1. DemoChannel % 4 = 1 /\ 1 \in 0 .. 3
      BY DEF DemoChannel
    <3>2. Reg.tc \in BOOLEAN /\ Reg.tc = ch[1].tc
      BY DemoFacts DEF Reg, Channel
    <3>3. QED
      BY <2>3, <3>1, <3>2
  <2>6. Own'.pc = "stat_clear" /\ Own'.Done = Reg.tc
    <3>1. frame' = [frame EXCEPT ![App] = [frame[App] EXCEPT !.pc = "stat_clear", !.Done = Reg.tc]]
      BY <2>2, <2>5, Zenon
    <3>2. QED
      BY <3>1, DemoFacts DEF Own, Frame
  <2>7. Noted' /\ Reg'.count = Reg.count
    BY <1>1, <2>1, ControlQuiet DEF Served
  <2>8. Served'
    BY <1>1, <2>4, <2>7 DEF Served, Val
  <2>9. Honest' /\ (Fooled' <=> Fooled)
    BY <2>4 DEF Honest, Fooled
  <2>10. IF Own'.Done THEN Reg'.mask \/ Fooled' ELSE Signals'
    <3>1. Honest \/ Fooled
      BY <1>1 DEF WhilePoll
    <3>2. QED
      BY <2>1, <2>4, <2>6, <2>9, <3>1 DEF Honest, Signals
  <2>11. QED
    BY <2>6, <2>8, <2>9, <2>10 DEF WhilePoll
<1>3. CASE Own.pc \in {"stat_clear", "stat_lo", "stat_hi"}
  <2>1. StatClear(App) \/ StatCountLo(App) \/ StatCountHi(App)
    BY <1>3, DemoFacts, WhichStep DEF Own
  <2>2. Own'.pc \in {"stat_clear", "stat_lo", "stat_hi", "stat_store"} /\ Own'.Done = Own.Done
    <3>1. CASE StatClear(App)
      BY <3>1, OwnGoes DEF StatClear, Pc
    <3>2. CASE StatCountLo(App)
      BY <3>2, DemoFacts DEF StatCountLo, Own, Frame
    <3>3. CASE StatCountHi(App)
      BY <3>3, DemoFacts DEF StatCountHi, Own, Frame
    <3>4. QED
      BY <2>1, <3>1, <3>2, <3>3
  <2>3. Noted' /\ Reg'.count = Reg.count /\ Reg'.tc = Reg.tc /\ Reg'.mask = Reg.mask
    <3>1. ~StatRead(App) /\ ~StartUnmask(App) /\ ~StopMask(App)
      BY <1>3 DEF StatRead, StartUnmask, StopMask, At, Own
    <3>2. QED
      BY <1>1, <2>1, <3>1, ControlQuiet DEF Served, GetStatus
  <2>4. Served' /\ (Signals' <=> Signals) /\ (Honest' <=> Honest) /\ (Fooled' <=> Fooled)
    BY <1>1, <2>3 DEF Served, Signals, Honest, Fooled, Val
  <2>5. QED
    BY <1>1, <1>3, <2>2, <2>3, <2>4 DEF WhilePoll
<1>4. CASE Own.pc = "stat_store"
  <2>1. StatStore(App) /\ GetStatus(App)
    BY <1>4, DemoFacts, WhichStep DEF Own, GetStatus
  <2>2. /\ Own'.pc = "idle" /\ Own'.ret = "SUCCESS" /\ ch' = ch
        /\ Rec'.IsActive = IsActive(App)
    BY <1>1, <2>1, OwnGoes DEF StatStore
  <2>3. Noted' /\ Reg' = Reg
    BY <1>1, <2>1, <2>2, ControlQuiet DEF Served, Reg
  <2>4. Served' /\ (Signals' <=> Signals) /\ (Honest' <=> Honest) /\ (Fooled' <=> Fooled)
    BY <1>1, <2>3 DEF Served, Signals, Honest, Fooled, Val
  <2>5. Honest /\ IF Own.Done THEN Reg.mask \/ Fooled ELSE Signals
    BY <1>1, <1>4 DEF WhilePoll
  <2>6. IF Rec'.IsActive THEN Signals' ELSE Reg'.mask \/ Fooled'
    BY <2>2, <2>3, <2>4, <2>5 DEF IsActive, Own
  <2>7. QED
    BY <2>2, <2>4, <2>5, <2>6 DEF WhilePoll
<1>5. QED
  BY <1>1, <1>2, <1>3, <1>4 DEF WhilePoll

LEMMA StopPhase ==
  ASSUME DemoInv, app.pc = "stopped", Proceed(App)
  PROVE  WhileStop'
<1>1. Own.pc # "idle" /\ Own.Channel = DemoChannel /\ WhileStop
  BY DemoFacts, ProceedFrame DEF DemoInv, Own, Phase
<1>2. CASE Own.pc = "stop_mask"
  <2>1. StopMask(App) /\ Stop(App) /\ Served
    BY <1>1, <1>2, DemoFacts, WhichStep DEF Own, Stop, WhileStop
  <2>2. Own'.pc = "stop_mark"
    BY <2>1, OwnGoes DEF StopMask, Pc
  <2>3. Noted' /\ Reg'.count = Reg.count
    BY <2>1, ControlQuiet DEF Served
  <2>4. Reg'.mask
    <3>1. WriteMask(Of(DemoChannel), 4 + (DemoChannel % 4))
      BY <1>1, <2>1, DemoFacts, WriteRouted DEF StopMask, Out, Own
    <3>2. QED
      BY <3>1, DemoFacts, MaskWritten DEF TypeInv, TypeOK, Reg
  <2>5. QED
    BY <2>2, <2>3, <2>4 DEF WhileStop, Served
<1>3. CASE Own.pc = "stop_mark"
  <2>1. StopMark(App) /\ Stop(App) /\ Served /\ Reg.mask
    BY <1>1, <1>3, DemoFacts, WhichStep DEF Own, Stop, WhileStop
  <2>2. Own'.pc = "idle" /\ ch' = ch
    BY <2>1, OwnGoes DEF StopMark
  <2>3. Noted' /\ Reg' = Reg
    BY <2>1, <2>2, ControlQuiet DEF Served, Reg
  <2>4. QED
    BY <2>1, <2>2, <2>3 DEF WhileStop, Served, Val
<1>4. QED
  BY <1>1, <1>2, <1>3 DEF WhileStop

-----------------------------------------------------------------------------
(* The device.                                                             *)

LEMMA UnitMoves ==
  ASSUME DemoInv, BusCycle(DemoChannel), Served
  PROVE  Served' /\ Signals' /\ (Honest => Honest')
<1>1. /\ ~Reg.mask /\ Noted /\ Val(Reg.count) < DemoCount
      /\ ch' = [ch EXCEPT ![DemoChannel] = Cycle(Reg)]
      /\ DmaChannels' = DmaChannels /\ buf' = buf
  BY DEF BusCycle, Transfer, Granted, Served, Reg
<1>2. Reg' = Cycle(Reg) /\ Noted'
  BY <1>1, DemoFacts DEF Reg, Noted, Held, Rec, Memory
<1>3. ~AutoInit(Reg)
  <2>1. ~Reprogramming(DemoChannel)
    BY <1>1, DemoFacts DEF SafetyInv, Progress, Reprogramming, Reg
  <2>2. Programmed(DemoChannel) /\ Rec.Mode = DemoMode
    BY <1>1, DemoModeByte DEF Programmed, Noted, Rec
  <2>3. Loaded(DemoChannel)
    BY <2>1, <2>2, DemoFacts DEF SafetyInv, Good
  <2>4. Reg.mode = 73
    BY <2>2, <2>3, DemoModeByte DEF Loaded, Reg, Rec
  <2>5. QED
    BY <2>4 DEF AutoInit
<1>4. CASE Reg.count # Zero
  <2>1. Reg' = [Reg EXCEPT !.addr = Inc(Reg.addr), !.count = Dec(Reg.count)]
    BY <1>2, <1>4 DEF Cycle
  <2>2. Reg'.mask = Reg.mask /\ Reg'.tc = Reg.tc /\ Reg'.count = Dec(Reg.count)
    BY <2>1, DemoFacts DEF Channel
  <2>3. Val(Dec(Reg.count)) = Val(Reg.count) - 1
    <3>1. Val(Reg.count) \in 0 .. Word - 1 /\ Val(Reg.count) # 0
      BY <1>4, DemoFacts, ValRange
    <3>2. Dec(Reg.count) \in Pair /\ Val(Dec(Reg.count)) \in 0 .. Word - 1
      BY DemoFacts, ValDec, ValRange
    <3>3. \/ Val(Dec(Reg.count)) = Val(Reg.count) - 1
          \/ Val(Dec(Reg.count)) = Val(Reg.count) - 1 + Word
      BY DemoFacts, ValDec
    <3>4. QED
      BY <3>1, <3>2, <3>3, DemoFacts
  <2>4. Val(Reg.count)' < DemoCount
    <3>1. Val(Reg.count)' = Val(Dec(Reg.count))
      BY <2>2 DEF Val
    <3>2. Val(Reg.count) \in 0 .. Word - 1
      BY DemoFacts, ValRange
    <3>3. QED
      BY <1>1, <2>3, <3>1, <3>2, DemoFacts
  <2>5. QED
    BY <1>1, <1>2, <2>2, <2>4 DEF Served, Signals, Honest
<1>5. CASE Reg.count = Zero
  <2>1. Reg' = [Reg EXCEPT !.addr = Inc(Reg.addr), !.count = Dec(Reg.count), !.tc = TRUE, !.mask = TRUE]
    BY <1>2, <1>3, <1>5 DEF Cycle
  <2>2. Reg'.mask /\ Reg'.tc
    BY <2>1, DemoFacts DEF Channel
  <2>3. QED
    BY <1>2, <2>2 DEF Served, Signals, Honest
<1>6. QED
  BY <1>4, <1>5

LEMMA DevicePhase ==
  ASSUME DemoInv, NEW c \in Chan, BusCycle(c), app' = app
  PROVE  Phase'
<1>1. /\ DmaChannels' = DmaChannels /\ buf' = buf /\ frame' = frame /\ ~ch[c].mask
      /\ ch' = [ch EXCEPT ![c] = Cycle(ch[c])]
  BY DEF BusCycle, Transfer, Granted
<1>2. Own' = Own /\ Rec' = Rec /\ Memory' = Memory
  BY <1>1 DEF Own, Rec, Memory
<1>3. /\ Fresh => Fresh' /\ (Reg'.tc <=> Reg.tc)
      /\ Served => Served'
      /\ Served /\ Honest => Honest'
      /\ Served /\ Signals => Signals'
      /\ Reg.mask => Reg'.mask
      /\ Held' <=> Held
  <2>1. CASE c = DemoChannel
    BY <1>1, <1>2, <2>1, UnitMoves DEF Fresh, Reg, Held
  <2>2. CASE c # DemoChannel
    <3>1. Reg' = Reg
      BY <1>1, <2>2, DemoFacts DEF Reg
    <3>2. QED
      BY <1>2, <3>1, SameThere
  <2>3. QED
    BY <2>1, <2>2
<1>4. Programming(App)' <=> Programming(App)
  BY <1>1 DEF Programming
<1>5. Phase
  BY DemoFacts
<1>12. Fooled' <=> Fooled
  BY DEF Fooled
<1>6. app.pc = "programmed" => WhileProgram'
  BY <1>2, <1>3, <1>4, <1>5 DEF Phase, WhileProgram
<1>7. app.pc = "started" => WhileStart'
  BY <1>2, <1>3, <1>5 DEF Phase, WhileStart, Fresh, Honest
<1>8. app.pc = "polled" => WhilePoll'
  BY <1>2, <1>3, <1>5, <1>12 DEF Phase, WhilePoll
<1>9. app.pc = "stopped" => WhileStop'
  BY <1>2, <1>3, <1>5 DEF Phase, WhileStop
<1>10. app.pc \in {"locate", "open", "allocate", "program"} => BeforeProgram'
  BY <1>2, <1>3, <1>5 DEF Phase, BeforeProgram
<1>11. QED
  BY <1>2, <1>3, <1>5, <1>6, <1>7, <1>8, <1>9, <1>10, <1>12 DEF Phase

-----------------------------------------------------------------------------
(* The demo between its calls.                                             *)

(* It looks at a result, or calls nothing: only app changes.               *)
LEMMA DemoThinks ==
  ASSUME DemoInv, Locate \/ Open \/ ProgramBack \/ StartBack \/ PollBack \/ StopBack \/ Rerun
  PROVE  UNCHANGED vars /\ AppOK' /\ Phase'
<1>1. UNCHANGED vars
  BY Zenon DEF Locate, Open, ProgramBack, StartBack, PollBack, StopBack, Back, Rerun
<1>2. Own' = Own /\ Rec' = Rec /\ Memory' = Memory /\ Reg' = Reg
  BY <1>1 DEF vars, Own, Rec, Memory, Reg
<1>3. /\ Held' <=> Held
      /\ Fresh' <=> Fresh
      /\ Served' <=> Served
      /\ Signals' <=> Signals
      /\ Honest' <=> Honest
  BY <1>2, SameThere
<1>4. Own.ret \in Status /\ (Free(App) => Own.pc = "idle")
  BY DemoFacts DEF Free, Own, Frame
<1>5. CASE Locate \/ Open \/ Rerun
  <2>1. app.pc \in {"locate", "open", "done"} /\ Own.pc = "idle" /\ Reg.mask /\ Memory = NULL
    BY <1>5, DemoFacts DEF Locate, Open, Rerun, Phase, BeforeProgram
  <2>2. app'.pc \in {"locate", "open", "allocate", "done"} /\ AppOK'
    <3>1. CASE Locate
      BY <3>1, DemoFacts DEF Locate, AppOK
    <3>2. CASE Open
      BY <3>2, DemoFacts DEF Open, AppGoto, AppEnd, AppOK
    <3>3. CASE Rerun
      BY <3>3, DemoFacts DEF Rerun, Launched, AppOK, Status
    <3>4. QED
      BY <1>5, <3>1, <3>2, <3>3
  <2>3. Phase'
    BY <1>2, <2>1, <2>2 DEF Phase, BeforeProgram
  <2>4. QED
    BY <1>1, <2>2, <2>3
<1>6. CASE ProgramBack
  <2>1. app.pc = "programmed" /\ Own.pc = "idle" /\ OnSuccess("start")
    BY <1>4, <1>6 DEF ProgramBack, Back
  <2>2. Own.ret = "SUCCESS" /\ Fresh
    BY <2>1, DemoFacts DEF Phase, WhileProgram
  <2>3. app'.pc = "start" /\ app'.polls = app.polls /\ AppOK'
    BY <2>1, <2>2, DemoFacts DEF OnSuccess, Succeeded, AppGoto, AppOK, Own
  <2>4. Phase'
    BY <1>2, <1>3, <2>1, <2>2, <2>3 DEF Phase
  <2>5. QED
    BY <1>1, <2>3, <2>4
<1>7. CASE StartBack
  <2>1. app.pc = "started" /\ Own.pc = "idle" /\ OnSuccess("poll")
    BY <1>4, <1>7 DEF StartBack, Back
  <2>2. Own.ret = "SUCCESS" /\ Served /\ Signals /\ Rec.IsActive /\ (Honest \/ app.stale)
    BY <2>1, DemoFacts DEF Phase, WhileStart
  <2>3. app'.pc = "poll" /\ app'.polls = 0 /\ app'.stale = app.stale /\ AppOK'
    BY <2>1, <2>2, DemoFacts DEF OnSuccess, Succeeded, AppGoto, AppOK, Own
  <2>4. Phase'
    BY <1>2, <1>3, <2>1, <2>2, <2>3 DEF Phase
  <2>5. QED
    BY <1>1, <2>3, <2>4
<1>8. CASE PollBack
  <2>1. /\ app.pc = "polled" /\ Own.pc = "idle"
        /\ IF Succeeded /\ Rec.IsActive /\ app.polls < DemoPolls THEN AppGoto("poll") ELSE AppGoto("stop")
    BY <1>4, <1>8 DEF PollBack, Back, Rec
  <2>2. /\ Own.ret = "SUCCESS" /\ Served /\ Honest
        /\ IF Rec.IsActive THEN Signals ELSE Reg.mask \/ Fooled
    BY <2>1, DemoFacts DEF Phase, WhilePoll
  <2>3. CASE Rec.IsActive /\ app.polls < DemoPolls
    <3>1. app'.pc = "poll" /\ app'.polls = app.polls /\ AppOK'
      BY <2>1, <2>2, <2>3, DemoFacts DEF Succeeded, AppGoto, AppOK, Own
    <3>2. Phase'
      BY <1>2, <1>3, <2>1, <2>2, <2>3, <3>1 DEF Phase
    <3>3. QED
      BY <1>1, <3>1, <3>2
  <2>4. CASE ~(Rec.IsActive /\ app.polls < DemoPolls)
    <3>1. app'.pc = "stop" /\ app'.polls = app.polls /\ (Fooled' <=> Fooled) /\ AppOK'
      BY <2>1, <2>4, DemoFacts DEF AppGoto, AppOK, Fooled, Succeeded, Own
    <3>2. app.polls < DemoPolls => Reg.mask \/ Fooled
      BY <2>2, <2>4
    <3>3. Phase'
      BY <1>2, <1>3, <2>1, <2>2, <3>1, <3>2 DEF Phase
    <3>4. QED
      BY <1>1, <3>1, <3>3
  <2>5. QED
    BY <2>3, <2>4
<1>9. CASE StopBack
  <2>1. app.pc = "stopped" /\ Own.pc = "idle" /\ AppGoto("free")
    BY <1>4, <1>9 DEF StopBack, Back
  <2>2. Reg.mask
    BY <2>1, DemoFacts DEF Phase, WhileStop
  <2>3. app'.pc = "free" /\ AppOK'
    BY <2>1, DemoFacts DEF AppGoto, AppOK
  <2>4. Phase'
    BY <1>2, <2>1, <2>2, <2>3 DEF Phase
  <2>5. QED
    BY <1>1, <2>3, <2>4
<1>10. QED
  BY <1>5, <1>6, <1>7, <1>8, <1>9

(* A 24-bit address survives the driver's cast to 32 bits.                 *)
LEMMA TruncateWhole ==
  ASSUME NEW a \in Nat, a < BusSize
  PROVE  Truncate(a) = a
<1> DEFINE m == Word * Word
<1>1. Byte \in Nat /\ Byte > 1 /\ Word \in Nat /\ Word > 1 /\ Word = Byte * Byte
  BY WordFacts
<1>2. m \in Nat /\ m > 0
  BY <1>1
<1>3. BusSize <= m
  <2>1. Word - Byte = Byte * (Byte - 1) /\ Byte * (Byte - 1) \in Nat
    BY <1>1
  <2>2. Word - Byte \in Nat
    BY <2>1
  <2>3. Word * (Word - Byte) \in Nat /\ Word * (Word - Byte) = Word * Word - Word * Byte
    BY <1>1, <2>2
  <2>4. Word * Byte \in Nat
    BY <1>1
  <2>5. QED
    BY <1>2, <2>3, <2>4 DEF BusSize
<1>4. BusSize \in Nat
  BY <1>1 DEF BusSize
<1> HIDE DEF m
<1>5. a \in 0 .. m - 1
  BY <1>2, <1>3, <1>4
<1>6. m * 0 + a = a
  BY <1>2
<1>7. a % m = a
  BY <1>2, <1>5, <1>6, DivModUnique
<1>8. QED
  BY <1>7 DEF Truncate, m

(* It calls the driver.                                                    *)
LEMMA DemoInvokes ==
  ASSUME DemoInv, InvokeProgram \/ InvokeStart \/ InvokePoll \/ InvokeStop
  PROVE  AppOK' /\ Phase' /\ (Own'.pc # "idle" => Own'.Channel = DemoChannel)
<1>1. frame[App] = Own /\ DmaChannels[DemoChannel] = Rec /\ buf[DmaBuf].Buffer = Memory
  BY DEF Own, Rec, Memory
<1>2. ASSUME ch' = ch, DmaChannels' = DmaChannels, buf' = buf
      PROVE  /\ Held' <=> Held
             /\ Fresh' <=> Fresh
             /\ Served' <=> Served
             /\ Signals' <=> Signals
             /\ Honest' <=> Honest
             /\ Rec' = Rec /\ Reg' = Reg /\ Memory' = Memory
  <2>1. Rec' = Rec /\ Reg' = Reg /\ Memory' = Memory
    BY <1>2 DEF Rec, Reg, Memory
  <2>2. QED
    BY <2>1, SameThere
<1>3. ASSUME NEW pc \in {"start_unmask", "stat_read", "stop_mask"},
             frame' = [frame EXCEPT ![App].pc = pc, ![App].Channel = DemoChannel]
      PROVE  Own'.pc = pc /\ Own'.Channel = DemoChannel
  BY <1>3, DemoFacts DEF Own, Frame
<1>4. CASE InvokeProgram
  <2>1. /\ app.pc = "program" /\ AppGoto("programmed")
        /\ ProgramDmaChannel(App, DemoChannel, DmaModeRead, Memory, DemoCount, FALSE)
    BY <1>1, <1>4 DEF InvokeProgram, Invoke
  <2>2. Own.pc = "idle" /\ Reg.mask /\ Held
    BY <2>1, DemoFacts DEF Phase, BeforeProgram
  <2>3. Truncate(Memory) = Memory
    BY <2>2, DemoFacts, TruncateWhole DEF Held
  <2>4. ~Refused(DemoChannel, Memory, DemoCount)
    <3>1. Memory # NULL /\ DemoCount # 0 /\ ~Wide(DemoChannel)
      BY <2>2, DemoFacts DEF Held, Wide
    <3>2. ~(Memory >= BusSize)
      BY <2>2, DemoFacts, WordFacts DEF Held, BusSize
    <3>3. QED
      BY <2>3, <3>1, <3>2, Zenon DEF Refused
  <2>5. RoundDown(DemoChannel, DemoCount) = DemoCount
    BY DEF RoundDown, Wide, DemoChannel
  <2>6. /\ frame' = [frame EXCEPT ![App] = [frame[App] EXCEPT !.pc = "prog_mask", !.Channel = DemoChannel,
             !.Address = Memory, !.Count = DemoCount, !.Mode = DemoMode]]
        /\ ch' = ch /\ DmaChannels' = DmaChannels /\ buf' = buf
    BY <2>1, <2>3, <2>4, <2>5 DEF ProgramDmaChannel, DemoMode
  <2>7. /\ Own'.pc = "prog_mask" /\ Own'.Channel = DemoChannel /\ Own'.Address = Memory
        /\ Own'.Count = DemoCount /\ Own'.Mode = DemoMode
    BY <2>6, DemoFacts DEF Own, Frame
  <2>8. app'.pc = "programmed" /\ AppOK'
    BY <2>1, DemoFacts DEF AppGoto, AppOK
  <2>9. WhileProgram'
    BY <1>2, <2>2, <2>6, <2>7 DEF WhileProgram, Programming, Own
  <2>10. QED
    BY <2>7, <2>8, <2>9 DEF Phase
<1>5. CASE InvokeStart
  <2>1. /\ app.pc = "start" /\ StartDma(App, DemoChannel)
        /\ app' = [app EXCEPT !.pc = "started", !.stale = Reg.tc]
    BY <1>5 DEF InvokeStart, Reg
  <2>2. Fresh
    BY <2>1, DemoFacts DEF Phase
  <2>3. Rec.Count # 0
    BY <2>2, DemoFacts DEF Fresh, Noted
  <2>4. /\ frame' = [frame EXCEPT ![App].pc = "start_unmask", ![App].Channel = DemoChannel]
        /\ ch' = ch /\ DmaChannels' = DmaChannels /\ buf' = buf
    BY <1>1, <2>1, <2>3 DEF StartDma
  <2>5. app'.pc = "started" /\ app'.stale = Reg.tc /\ AppOK'
    BY <2>1, DemoFacts DEF AppOK, Channel
  <2>6. WhileStart'
    BY <1>2, <1>3, <2>2, <2>4, <2>5 DEF WhileStart, Honest
  <2>7. QED
    BY <1>3, <2>4, <2>5, <2>6 DEF Phase
<1>6. CASE InvokePoll
  <2>1. /\ app.pc = "poll" /\ GetDmaStatus(App, DemoChannel)
        /\ app' = [app EXCEPT !.pc = "polled", !.polls = app.polls + 1]
    BY <1>6 DEF InvokePoll
  <2>2. Served /\ Signals /\ (Honest \/ (app.polls = 0 /\ app.stale))
    <3>1. Phase
      BY DemoFacts
    <3>2. QED
      BY <2>1, <3>1, Zenon DEF Phase
  <2>3. /\ frame' = [frame EXCEPT ![App].pc = "stat_read", ![App].Channel = DemoChannel]
        /\ ch' = ch /\ DmaChannels' = DmaChannels /\ buf' = buf
    BY <2>1 DEF GetDmaStatus
  <2>4. app'.pc = "polled" /\ AppOK'
    <3>1. app.polls \in 0 .. DemoPolls /\ app.polls < DemoPolls
      BY <2>1, DemoFacts DEF AppOK
    <3>2. app.polls + 1 \in 0 .. DemoPolls
      BY <3>1, DemoFacts
    <3>3. QED
      BY <2>1, <3>2, DemoFacts DEF AppOK
  <2>5. app.polls = 0 /\ app.stale => Fooled'
    BY <2>1, DemoFacts DEF Fooled, AppOK
  <2>7. WhilePoll'
    BY <1>2, <1>3, <2>2, <2>3, <2>5 DEF WhilePoll
  <2>6. QED
    BY <1>3, <2>3, <2>4, <2>7 DEF Phase
<1>7. CASE InvokeStop
  <2>1. app.pc = "stop" /\ AppGoto("stopped") /\ StopDma(App, DemoChannel)
    BY <1>7 DEF InvokeStop, Invoke
  <2>2. Served
    BY <2>1, DemoFacts DEF Phase
  <2>3. /\ frame' = [frame EXCEPT ![App].pc = "stop_mask", ![App].Channel = DemoChannel]
        /\ ch' = ch /\ DmaChannels' = DmaChannels /\ buf' = buf
    BY <2>1 DEF StopDma
  <2>4. app'.pc = "stopped" /\ AppOK'
    BY <2>1, DemoFacts DEF AppGoto, AppOK
  <2>5. WhileStop'
    BY <1>2, <1>3, <2>2, <2>3 DEF WhileStop
  <2>6. QED
    BY <1>3, <2>3, <2>4, <2>5 DEF Phase
<1>8. QED
  BY <1>4, <1>5, <1>6, <1>7

(* It allocates and frees.                                                 *)
LEMMA DemoMemory ==
  ASSUME DemoInv, Allocate \/ FreeAndEnd
  PROVE  AppOK' /\ Phase' /\ Own'.pc = "idle"
<1>1. frame[App] = Own /\ buf[DmaBuf].Buffer = Memory
  BY DEF Own, Memory
<1>2. ASSUME NEW s \in Status, Return(App, s) PROVE Own'.pc = "idle" /\ frame'[App].ret = s
  BY <1>2, DemoFacts DEF Return, Returned, Own
<1>3. CASE Allocate
  <2>1. /\ app.pc = "allocate" /\ AllocateDmaBuffer(App, DmaBuf, DemoSize)
        /\ IF frame'[App].ret = "SUCCESS" THEN AppGoto("program") ELSE AppEnd(frame'[App].ret)
    BY <1>3 DEF Allocate
  <2>2. Reg.mask /\ Memory = NULL
    BY <2>1, DemoFacts DEF Phase, BeforeProgram
  <2>3. Reg' = Reg /\ Rec' = Rec
    BY <2>1 DEF AllocateDmaBuffer, Reg, Rec
  <2>4. Reg'.mask
    BY <2>2, <2>3
  <2>5. \/ /\ Return(App, "INVALID_PARAMETER") \/ Return(App, "OUT_OF_RESOURCES")
           /\ buf' = buf
        \/ /\ Return(App, "SUCCESS")
           /\ \E a \in PoolAddrs : ~(a >= BusSize) /\ buf' = [buf EXCEPT ![DmaBuf] = [Buffer |-> a, Length |-> DemoSize]]
    BY <2>1, Zenon DEF AllocateDmaBuffer
  <2>6. CASE (Return(App, "INVALID_PARAMETER") \/ Return(App, "OUT_OF_RESOURCES")) /\ buf' = buf
    <3>1. PICK s \in {"INVALID_PARAMETER", "OUT_OF_RESOURCES"} : Return(App, s)
      BY <2>6
    <3>2. Own'.pc = "idle" /\ frame'[App].ret = s /\ s \in Status
      BY <1>2, <3>1 DEF Status
    <3>3. AppEnd(s)
      BY <2>1, <3>2
    <3>4. app'.pc = "done" /\ AppOK'
      BY <3>2, <3>3, DemoFacts DEF AppEnd, AppOK
    <3>5. Memory' = NULL
      BY <2>2, <2>6 DEF Memory
    <3>6. QED
      BY <2>4, <3>2, <3>4, <3>5 DEF Phase
  <2>7. CASE Return(App, "SUCCESS") /\ \E a \in PoolAddrs : ~(a >= BusSize) /\ buf' = [buf EXCEPT ![DmaBuf] = [Buffer |-> a, Length |-> DemoSize]]
    <3>1. PICK a \in PoolAddrs : ~(a >= BusSize) /\ buf' = [buf EXCEPT ![DmaBuf] = [Buffer |-> a, Length |-> DemoSize]]
      BY <2>7
    <3>2. Own'.pc = "idle" /\ frame'[App].ret = "SUCCESS"
      BY <1>2, <2>7 DEF Status
    <3>3. app'.pc = "program" /\ AppOK'
      BY <2>1, <3>2, DemoFacts DEF AppGoto, AppOK
    <3>4. Memory' = a
      BY <3>1, DemoFacts DEF Memory
    <3>5. a \in Nat /\ a # NULL /\ a < BusSize
      BY <3>1, ConstantAssumption, WordFacts DEF NULL, BusSize
    <3>6. Held'
      BY <3>4, <3>5 DEF Held
    <3>7. QED
      BY <2>4, <3>2, <3>3, <3>6 DEF Phase, BeforeProgram
  <2>8. QED
    BY <2>5, <2>6, <2>7
<1>4. CASE FreeAndEnd
  <2>1. app.pc = "free" /\ FreeDmaBuffer(App, DmaBuf) /\ AppEnd(app.ret)
    BY <1>4 DEF FreeAndEnd
  <2>2. Reg.mask
    BY <2>1, DemoFacts DEF Phase
  <2>3. Reg' = Reg
    BY <2>1 DEF FreeDmaBuffer, Reg
  <2>4. Own'.pc = "idle"
    BY <1>2, <2>1 DEF FreeDmaBuffer, Status
  <2>5. Memory' = NULL
    BY <2>1, DemoFacts DEF FreeDmaBuffer, NoBuffer, Memory
  <2>6. app'.pc = "done" /\ AppOK'
    BY <2>1, DemoFacts DEF AppEnd, AppOK
  <2>7. QED
    BY <2>2, <2>3, <2>4, <2>5, <2>6 DEF Phase
<1>5. QED
  BY <1>3, <1>4

-----------------------------------------------------------------------------
(* The invariant.                                                          *)

LEMMA DemoInitInv == DemoInit => DemoInv
<1> SUFFICES ASSUME DemoInit PROVE DemoInv
  OBVIOUS
<1>1. RouteInv /\ CountInv
  BY RouteInit, CountInit DEF DemoInit
<1>2. App \in Tpl /\ DmaBuf \in Buffers /\ DemoChannel \in Chan /\ DemoPolls \in Nat
  BY DemoAssumption DEF DemoChannel, Chan
<1>3. AppOK /\ app.pc = "locate"
  BY <1>2 DEF DemoInit, Launched, AppOK, Status
<1>4. \A t \in Tpl : frame[t].pc = "idle"
  BY DEF DemoInit, Init, Returned
<1>5. Reg.mask /\ Memory = NULL
  <2>1. Reg.mask
    BY <1>2, ControllersStart DEF DemoInit, Init, Reg, DemoChannel
  <2>2. Memory = NULL
    BY <1>2 DEF DemoInit, Init, NoBuffer, Memory
  <2>3. QED
    BY <2>1, <2>2
<1>6. Phase
  BY <1>2, <1>3, <1>4, <1>5 DEF Phase, BeforeProgram, Own
<1>7. QED
  BY <1>1, <1>2, <1>3, <1>4, <1>6 DEF DemoInv, Own

LEMMA DemoStepInv ==
  ASSUME Exclusive, DemoInv, [DemoNext]_demoVars
  PROVE  DemoInv'
<1>1. RouteInv' /\ CountInv'
  BY DemoCalls, RouteStep, CountStep DEF DemoInv
<1>2. ASSUME frame' = frame, AppOK', Phase' PROVE DemoInv'
  BY <1>1, <1>2 DEF DemoInv, Own
<1>3. ASSUME Call(App) \/ Proceed(App), AppOK', Phase', Own'.pc # "idle" => Own'.Channel = DemoChannel
      PROVE  DemoInv'
  <2>1. \A t \in Tpl \ {App} : frame'[t] = frame[t]
    BY <1>3, DemoFacts, OthersCallsKept
  <2>2. QED
    BY <1>1, <1>3, <2>1 DEF DemoInv
<1>4. CASE Locate \/ Open \/ ProgramBack \/ StartBack \/ PollBack \/ StopBack \/ Rerun
  BY <1>2, <1>4, DemoThinks DEF vars
<1>5. CASE InvokeProgram \/ InvokeStart \/ InvokePoll \/ InvokeStop
  <2>1. Call(App)
    <3>1. CASE InvokeProgram
      <4>1. ProgramDmaChannel(App, DemoChannel, DmaModeRead, buf[DmaBuf].Buffer, DemoCount, FALSE)
        BY <3>1 DEF InvokeProgram, Invoke
      <4>2. buf[DmaBuf].Buffer \in {buf[b].Buffer : b \in Buffers} \cup ClientAddrs
        BY DemoAssumption
      <4>3. QED
        BY <4>1, <4>2, DemoAssumption, Zenon DEF Call
    <3>2. CASE InvokeStart \/ InvokePoll \/ InvokeStop
      BY <3>2, DemoAssumption, Zenon DEF InvokeStart, InvokePoll, InvokeStop, Invoke, Call
    <3>3. QED
      BY <1>5, <3>1, <3>2
  <2>2. QED
    BY <1>3, <1>5, <2>1, DemoInvokes
<1>6. CASE Allocate \/ FreeAndEnd
  <2>1. Call(App)
    BY <1>6, DemoAssumption, Zenon DEF Allocate, FreeAndEnd, Call
  <2>2. QED
    BY <1>3, <1>6, <2>1, DemoMemory
<1>7. CASE Proceed(App) /\ UNCHANGED app
  <2>1. Own.pc # "idle" /\ (Own'.pc # "idle" => Own'.Channel = DemoChannel)
    BY <1>7, DemoFacts, ProceedFrame, ChannelStays DEF DemoInv, Own
  <2>2. AppOK'
    BY <1>7, DemoFacts DEF AppOK
  <2>3. app.pc \in {"programmed", "started", "polled", "stopped"}
    <3>1. AppOK /\ Phase
      BY DemoFacts
    <3>2. app.pc \in {"locate", "open", "allocate", "program", "programmed", "start", "started",
                     "poll", "polled", "stop", "stopped", "free", "done"}
      BY <3>1 DEF AppOK
    <3>3. app.pc \notin {"locate", "open", "allocate", "program", "start", "poll", "stop", "free", "done"}
      BY <2>1, <3>1 DEF Phase, BeforeProgram
    <3>4. QED
      BY <3>2, <3>3
  <2>4. Phase'
    <3>1. app.pc = "programmed" => WhileProgram'
      BY <1>1, <1>7, ProgramPhase
    <3>2. app.pc = "started" => WhileStart'
      BY <1>7, StartPhase
    <3>3. app.pc = "polled" => WhilePoll'
      BY <1>7, PollPhase
    <3>4. app.pc = "stopped" => WhileStop'
      BY <1>7, StopPhase
    <3>5. QED
      BY <1>7, <2>3, <3>1, <3>2, <3>3, <3>4 DEF Phase
  <2>5. QED
    BY <1>3, <1>7, <2>1, <2>2, <2>4
<1>8. CASE Device
  <2>1. PICK c \in Chan : BusCycle(c) /\ app' = app
    BY <1>8 DEF Device
  <2>2. AppOK'
    BY <2>1, DemoFacts DEF AppOK
  <2>3. frame' = frame
    BY <2>1 DEF BusCycle
  <2>4. QED
    BY <1>2, <2>1, <2>2, <2>3, DevicePhase
<1>9. CASE UNCHANGED demoVars
  <2>1. /\ frame' = frame /\ app' = app
        /\ Own' = Own /\ Rec' = Rec /\ Memory' = Memory /\ Reg' = Reg
    BY <1>9 DEF demoVars, vars, Own, Rec, Memory, Reg
  <2>2. AppOK'
    BY <2>1, DemoFacts DEF AppOK
  <2>3. /\ Held' <=> Held
        /\ Fresh' <=> Fresh
        /\ Served' <=> Served
        /\ Signals' <=> Signals
        /\ Honest' <=> Honest
        /\ Fooled' <=> Fooled
    BY <2>1, SameThere DEF Fooled
  <2>4. (Programming(App)' <=> Programming(App))
    BY <2>1 DEF Programming
  <2>5. Phase
    BY DemoFacts
  <2>6. /\ BeforeProgram' <=> BeforeProgram
        /\ WhileProgram' <=> WhileProgram
        /\ WhileStop' <=> WhileStop
    BY <2>1, <2>3, <2>4 DEF BeforeProgram, WhileProgram, WhileStop
  <2>7. (WhileStart' <=> WhileStart) /\ (WhilePoll' <=> WhilePoll)
    BY <2>1, <2>3 DEF WhileStart, WhilePoll
  <2>8. Phase'
    BY <2>1, <2>3, <2>5, <2>6, <2>7 DEF Phase
  <2>9. QED
    BY <1>2, <2>1, <2>2, <2>8
<1>10. QED
  BY <1>4, <1>5, <1>6, <1>7, <1>8, <1>9 DEF DemoNext, DemoStep

(* The inductive invariant of the demo, on which what it relies on rests.  *)
THEOREM DemoInvariant == ASSUME Exclusive PROVE DemoSpec => []DemoInv
BY DemoInitInv, DemoStepInv, PTL DEF DemoSpec

(* Every variable of the demo keeps its type; the polls never pass their   *)
(* limit, and what the demo returns is a status of a call it made.         *)
THEOREM DemoTypeCorrect == ASSUME Exclusive PROVE DemoSpec => []DemoTypeOK
<1>1. DemoInv => DemoTypeOK
  BY DemoFacts DEF DemoTypeOK, TypeInv, AppOK
<1>2. QED
  BY <1>1, DemoInvariant, PTL

(* While the channel is open its call is over or past the unmasking, and   *)
(* the record holds the whole transfer.                                    *)
LEMMA OpenServes ==
  ASSUME DemoInv, ~Reg.mask
  PROVE  Served /\ ~Reprogramming(DemoChannel)
<1>1. app.pc \in {"started", "poll", "polled", "stop", "stopped"}
  BY DemoFacts DEF AppOK, Phase, BeforeProgram, WhileProgram, Fresh
<1>2. Served
  <2>1. Phase
    BY DemoFacts
  <2>2. app.pc = "started" => Served
    BY <2>1 DEF Phase, WhileStart, Fresh
  <2>3. app.pc # "started" => Served
    BY <1>1, <2>1 DEF Phase, WhilePoll, WhileStop
  <2>4. QED
    BY <2>2, <2>3
<1>3. ~Reprogramming(DemoChannel)
  BY DemoFacts DEF SafetyInv, Progress, Reprogramming, Reg
<1>4. QED
  BY <1>2, <1>3

(* Numbers of one remainder differ by whole words.                         *)
LEMMA SameRest ==
  ASSUME NEW a \in Int, NEW b \in Int, a % Word = b % Word
  PROVE  \E k \in Int : b = a + Word * k
<1> DEFINE p == a \div Word  q == b \div Word  r == a % Word
<1>1. /\ p \in Int /\ q \in Int /\ r \in 0 .. Word - 1
      /\ a = Word * p + r /\ b = Word * q + r
  <2>1. Word \in Nat /\ Word > 0
    BY WordFacts
  <2>2. p \in Int /\ r \in 0 .. Word - 1 /\ a = Word * p + r
    BY <2>1, DivMod
  <2>3. q \in Int /\ b = Word * q + (b % Word)
    BY <2>1, DivMod
  <2>4. QED
    BY <2>2, <2>3
<1> HIDE DEF p, q, r
<1>2. Word * (q - p) = Word * q - Word * p
  BY <1>1, WordFacts
<1>3. Word * q \in Int /\ Word * p \in Int
  BY <1>1, WordFacts
<1>4. b = a + Word * (q - p) /\ q - p \in Int
  BY <1>1, <1>2, <1>3
<1>5. QED
  BY <1>4

LEMMA ServedInBuffer == DemoInv => TransfersFollowBuffer
<1> SUFFICES ASSUME DemoInv, Granted(DemoChannel)
             PROVE  /\ Memory # NULL
                    /\ \E i \in 0 .. DemoCount - 1 :
                         BusAddress(DemoChannel) = {Memory - (Memory % Word) + ((Memory + i) % Word)}
  BY DEF TransfersFollowBuffer, Memory
<1> DEFINE x == Val(Reg.addr)  y == Val(Reg.count)  i == DemoCount - 1 - y
           h == Val(Bytes(Memory))
<1>1. ~Reg.mask /\ Served /\ ~Reprogramming(DemoChannel)
  BY OpenServes DEF Granted, Reg
<1>2. /\ Memory # NULL /\ Memory < BusSize /\ y < DemoCount
      /\ Rec.Mode = DemoMode /\ Rec.Count = DemoCount /\ Rec.Address = Memory
  BY <1>1 DEF Served, Noted, Held
<1>3. Programmed(DemoChannel)
  BY <1>2, DemoModeByte DEF Programmed, Rec
<1>4. Reg.page = Pg(Memory)
  BY <1>1, <1>2, <1>3, DemoFacts DEF SafetyInv, Good, Loaded, Reg, Rec
<1>5. TransferCount(DemoChannel, DemoCount) = DemoCount
  BY DEF TransferCount, Wide, DemoChannel
<1>6. (x + y) % Word = (Memory + DemoCount - 1) % Word
  BY <1>1, <1>2, <1>3, <1>5, DemoFacts DEF DemoInv, CountInv, Ends, EndsRight, Reg, Rec
<1>7. x \in 0 .. Word - 1 /\ y \in 0 .. Word - 1 /\ h \in 0 .. Word - 1
  BY DemoFacts, ValRange, ValBytes
<1>8. Pg(Memory) * Word + h = Memory
  BY <1>2, DemoFacts, AddressWhole
<1>9. Pg(Memory) \in Int
  BY DemoFacts, ByteRanges DEF Data
<1>10. BusAddress(DemoChannel) = {Pg(Memory) * Word + x}
  BY <1>4 DEF BusAddress, Wide, DemoChannel, Reg
<1> HIDE DEF x, y, h
<1>11. i \in 0 .. DemoCount - 1
  BY <1>2, <1>7, DemoFacts
<1>12. Memory % Word = h
  <2>1. Memory = Word * Pg(Memory) + h
    BY <1>7, <1>8, <1>9, DemoFacts
  <2>2. QED
    BY <1>7, <1>9, <2>1, DemoFacts, ModWord
<1>13. (Memory + i) % Word = x
  <2> DEFINE m == Memory + DemoCount - 1
  <2>1. m \in Int /\ x + y \in Int
    BY <1>7, DemoFacts
  <2>2. PICK k \in Int : m = x + y + Word * k
    BY <1>6, <2>1, SameRest
  <2>3. Memory + i = m - y /\ i \in Int
    BY <1>7, DemoFacts
  <2>4. Word * k \in Int
    BY DemoFacts
  <2>5. m - y = Word * k + x
    BY <1>7, <2>1, <2>2, <2>4
  <2>6. QED
    BY <1>7, <2>1, <2>3, <2>5, DemoFacts, ModWord
<1>14. Memory - (Memory % Word) + ((Memory + i) % Word) = Pg(Memory) * Word + x
  <2>1. Pg(Memory) * Word \in Int
    BY <1>9, DemoFacts
  <2>2. QED
    BY <1>7, <1>8, <1>12, <1>13, <2>1, DemoFacts
<1>15. QED
  BY <1>2, <1>10, <1>11, <1>14

(* For any width of the registers and any buffer: what the controller is   *)
(* about to move is one of the bytes the demo asked for, in the buffer it  *)
(* owns, modulo the page.                                                  *)
THEOREM TransfersInBuffer == ASSUME Exclusive PROVE DemoSpec => []TransfersFollowBuffer
BY ServedInBuffer, DemoInvariant, PTL

(* A completion is never lost on the demo: the last poll saw it, or the    *)
(* next one will.                                                          *)
THEOREM CompletionKept == ASSUME Exclusive PROVE DemoSpec => []CompletionNotLost
<1>1. DemoInv => CompletionNotLost
  <2> SUFFICES ASSUME DemoInv, app.pc \in {"started", "poll", "polled"}, Own.pc = "idle", Rec.IsActive
               PROVE  Signals
    BY DEF CompletionNotLost, Signals, Own, Rec, Reg
  <2>1. Phase
    BY DemoFacts
  <2>2. app.pc = "started" => Signals
    BY <2>1 DEF Phase, WhileStart
  <2>3. app.pc = "polled" => Signals
    BY <2>1 DEF Phase, WhilePoll
  <2>4. app.pc = "poll" => Signals
    BY <2>1 DEF Phase
  <2>5. QED
    BY <2>2, <2>3, <2>4
<1>2. QED
  BY <1>1, DemoInvariant, PTL

(* On every path, also when a call fails, the demo ends with its channel   *)
(* masked, its buffer freed and the array of handles freed.                *)
THEOREM DemoEndsClean == ASSUME Exclusive PROVE DemoSpec => []EndsClean
<1>1. DemoInv => EndsClean
  BY DemoFacts DEF EndsClean, Phase, AppOK, Reg, Memory
<1>2. QED
  BY <1>1, DemoInvariant, PTL

(* Whatever terminal-count bits earlier transfers left, and however often  *)
(* the demo is run: it leaves its poll loop with the channel running at    *)
(* the first poll only, and only if the bit was set when it called start.  *)
THEOREM FooledOnce == ASSUME Exclusive PROVE DemoSpec => []FooledOnceAtMost
<1>1. DemoInv => FooledOnceAtMost
  BY DemoFacts DEF FooledOnceAtMost, Phase, Fooled, Reg
<1>2. QED
  BY <1>1, DemoInvariant, PTL
=============================================================================
