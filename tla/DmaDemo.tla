------------------------------ MODULE DmaDemo ------------------------------
(***************************************************************************)
(* DemoUseDmaProtocol (AppIoDma.c), the client the driver ships with, run  *)
(* against LegacyDma: it finds the protocol, allocates a buffer, programs  *)
(* channel 1 for part of it, starts it, polls a few times, stops it and    *)
(* frees the buffer, while the device may or may not move the data.        *)
(* (Wrong... operators: see LegacyDma.)                                    *)
(***************************************************************************)
EXTENDS LegacyDma

CONSTANTS
  App,        \* the demo, one of the callers
  DmaBuf,     \* its LEGACY_DMA_BUFFER
  DemoSize,   \* the buffer it asks for      (4096 in the code)
  DemoCount,  \* the transfer it programs    (256)
  DemoPolls   \* the polls it makes at most  (10)

DemoChannel == 1
DmaModeRead == 8

(* The calls the demo makes are among those LegacyDma considers.           *)
ASSUME DemoAssumption ==
  /\ App \in Tpl /\ DmaBuf \in Buffers /\ DemoChannel \in Owns[App]
  /\ DemoSize \in Sizes /\ DemoCount \in Counts /\ DmaModeRead \in Modes /\ FALSE \in Autos
  /\ DemoCount \in 1 .. Word - 1
  /\ DemoSize \in Nat /\ DemoSize >= DemoCount
  /\ DemoPolls \in Nat \ {0}

(* Where the demo is, whether it holds the pool of its HandleBuffer, the   *)
(* polls it made and what it returns.  stale is a history variable: was    *)
(* the terminal-count bit of its channel set when it asked for the start?  *)
VARIABLE app

demoVars == <<vars, app>>

Launched == [pc |-> "locate", HandleBuffer |-> FALSE, polls |-> 0, stale |-> FALSE, ret |-> "SUCCESS"]

DemoInit == Init /\ app = Launched

DemoTypeOK ==
  /\ TypeOK
  /\ app \in [pc : {"locate", "open", "allocate", "program", "programmed", "start", "started",
                    "poll", "polled", "stop", "stopped", "free", "done"},
              HandleBuffer : BOOLEAN, polls : 0 .. DemoPolls, stale : BOOLEAN,
              ret : Status \cup {"NOT_FOUND", "UNSUPPORTED"}]

AppGoto(pc) == app' = [app EXCEPT !.pc = pc]

(* FreePool(HandleBuffer), and return s.                                   *)
AppEnd(s) == app' = [app EXCEPT !.pc = "done", !.HandleBuffer = FALSE, !.ret = s]

(* LocateHandleBuffer allocates the array of handles, or fails: the driver *)
(* may not be loaded.                                                      *)
Locate ==
  /\ app.pc = "locate"
  /\ \/ app' = [app EXCEPT !.pc = "open", !.HandleBuffer = TRUE]
     \/ app' = [app EXCEPT !.pc = "done", !.ret = "NOT_FOUND"]
  /\ UNCHANGED vars

(* HandleProtocol on the first of them.                                    *)
Open ==
  /\ app.pc = "open"
  /\ AppGoto("allocate") \/ AppEnd("UNSUPPORTED")
  /\ UNCHANGED vars

Allocate ==
  /\ app.pc = "allocate"
  /\ AllocateDmaBuffer(App, DmaBuf, DemoSize)
  /\ LET s == frame'[App].ret IN
     IF s = "SUCCESS" THEN AppGoto("program") ELSE AppEnd(s)

(* A call the demo makes, and what it does when the call has returned.     *)
Invoke(pc, call, next) == app.pc = pc /\ call /\ AppGoto(next)
Back(pc) == app.pc = pc /\ Free(App) /\ UNCHANGED vars
Succeeded == frame[App].ret = "SUCCESS"

(* An error of program or start is what the demo returns; it frees first.  *)
OnSuccess(pc) ==
  IF Succeeded THEN AppGoto(pc)
  ELSE app' = [app EXCEPT !.pc = "free", !.ret = frame[App].ret]

InvokeProgram ==
  Invoke("program",
         ProgramDmaChannel(App, DemoChannel, DmaModeRead, buf[DmaBuf].Buffer,
                           DemoCount, FALSE),
         "programmed")
ProgramBack == Back("programmed") /\ OnSuccess("start")

InvokeStart ==
  /\ app.pc = "start"
  /\ StartDma(App, DemoChannel)
  /\ app' = [app EXCEPT !.pc = "started", !.stale = ch[DemoChannel].tc]
StartBack == Back("started") /\ OnSuccess("poll")

InvokePoll ==
  /\ app.pc = "poll"
  /\ GetDmaStatus(App, DemoChannel)
  /\ app' = [app EXCEPT !.pc = "polled", !.polls = @ + 1]

WrongPollBackOneMore ==
  /\ Back("polled")
  /\ IF Succeeded /\ DmaChannels[DemoChannel].IsActive /\ app.polls <= DemoPolls
     THEN AppGoto("poll") ELSE AppGoto("stop")
WrongPollBackInverted ==
  /\ Back("polled")
  /\ IF Succeeded /\ ~DmaChannels[DemoChannel].IsActive /\ app.polls < DemoPolls
     THEN AppGoto("poll") ELSE AppGoto("stop")
WrongPollBackForever ==
  /\ Back("polled")
  /\ IF Succeeded /\ DmaChannels[DemoChannel].IsActive
     THEN app' = [app EXCEPT !.pc = "poll", !.polls = 0] ELSE AppGoto("stop")
WrongPollBackNoStop ==
  /\ Back("polled")
  /\ IF Succeeded /\ DmaChannels[DemoChannel].IsActive /\ app.polls < DemoPolls
     THEN AppGoto("poll") ELSE AppGoto("free")
(* The call's *IsActive is what it also stored in DmaChannels.             *)
PollBack ==
  /\ Back("polled")
  /\ IF Succeeded /\ DmaChannels[DemoChannel].IsActive /\ app.polls < DemoPolls
     THEN AppGoto("poll") ELSE AppGoto("stop")

InvokeStop == Invoke("stop", StopDma(App, DemoChannel), "stopped")
StopBack == Back("stopped") /\ AppGoto("free")

WrongFreeAndEnd == app.pc = "free" /\ AppEnd(app.ret) /\ UNCHANGED vars
(* FreeDmaBuffer and FreePool, at the end and after a failed call.         *)
FreeAndEnd == app.pc = "free" /\ FreeDmaBuffer(App, DmaBuf) /\ AppEnd(app.ret)

DemoStep ==
  \/ Locate \/ Open \/ Allocate
  \/ InvokeProgram \/ ProgramBack \/ InvokeStart \/ StartBack
  \/ InvokePoll \/ PollBack \/ InvokeStop \/ StopBack \/ FreeAndEnd
  \/ Proceed(App) /\ UNCHANGED app

Device == \E c \in Chan : BusCycle(c) /\ UNCHANGED app

(* The application may be run again; the driver and the controllers are as *)
(* its last run left them.                                                 *)
Rerun == app.pc = "done" /\ app' = Launched /\ UNCHANGED vars

DemoNext == DemoStep \/ Rerun \/ Device

(* The demo and the calls it makes are straight-line code on the boot      *)
(* processor: they go on.  Nothing makes the device ask for a bus cycle,   *)
(* or anyone run the demo again.                                           *)
DemoSpec == DemoInit /\ [][DemoNext]_demoVars /\ WF_demoVars(DemoStep)

-----------------------------------------------------------------------------
(* Whatever the controller is about to move is one of the DemoCount bytes  *)
(* the demo asked for, in a buffer it still owns.  That is so modulo the   *)
(* page: LegacyDmaAllocateBuffer does not keep a buffer inside one, and of *)
(* a buffer that crosses its end the rest is taken from the page's start.  *)
TransfersFollowBuffer ==
  LET a == buf[DmaBuf].Buffer IN
  Granted(DemoChannel) =>
    /\ a # NULL
    /\ \E i \in 0 .. DemoCount - 1 :
         BusAddress(DemoChannel) = {a - (a % Word) + ((a + i) % Word)}

(* A completion is not lost on the demo: when the transfer has ended and   *)
(* the last start or poll left the channel recorded active, the bit that   *)
(* tells the next poll is still set (every poll clears it).                *)
CompletionNotLost ==
  /\ app.pc \in {"started", "poll", "polled"} /\ frame[App].pc = "idle"
  /\ DmaChannels[DemoChannel].IsActive /\ ch[DemoChannel].mask
  => ch[DemoChannel].tc

(* On every path to its end the demo leaves the channel masked, and both   *)
(* the DMA buffer and the array of handles returned.                       *)
EndsClean ==
  app.pc = "done" => ch[DemoChannel].mask /\ buf[DmaBuf].Buffer = NULL /\ ~app.HandleBuffer

(* The demo can be fooled out of its poll loop while the transfer runs, by *)
(* a terminal-count bit that an earlier transfer left and that programming *)
(* the channel does not clear; but only at its first poll, and only if the *)
(* bit was set when it started the channel.                                *)
FooledOnceAtMost ==
  /\ app.pc = "stop" /\ app.polls < DemoPolls /\ ~ch[DemoChannel].mask
  => app.polls = 1 /\ app.stale

(* Every run of the demo ends, even when the device never moves a byte.    *)
DemoEnds == []<>(app.pc = "done")
=============================================================================
