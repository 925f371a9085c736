----------------------------- MODULE LegacyDma -----------------------------
(***************************************************************************)
(* The DMA half of the Extended Legacy I/O protocol (LegacyIoDxeEx.c): one *)
(* protocol instance, the callers that invoke its functions, and the two   *)
(* 8237 controllers it programs.                                           *)
(*                                                                         *)
(* A protocol call is a sequence of port accesses and stores, and each of  *)
(* them is an action here: between any two of them the controllers may run *)
(* bus cycles, and a caller at a higher task priority level (a timer or    *)
(* protocol-notify callback) may make whole calls of its own, because no   *)
(* function of the driver raises the TPL.                                  *)
(*                                                                         *)
(* A Wrong... operator is no part of the model: it is a plausible slip in  *)
(* the definition after it, which the properties are tested against.       *)
(***************************************************************************)
EXTENDS Isa8237

CONSTANTS
  Tpl,         \* the callers, each named by the task priority it runs at
  Owns,        \* Owns[t]: the channels caller t uses
  Buffers,     \* the LEGACY_DMA_BUFFER structures of the callers
  PoolAddrs,   \* the addresses AllocatePool may return
  ClientAddrs, \* addresses of buffers that callers describe themselves
  Sizes,       \* buffer sizes asked for
  Counts,      \* byte counts asked for
  Modes,       \* Mode arguments
  Autos        \* AutoInitialize arguments

(* Address 0 is the null pointer; sizes, counts and modes have the range   *)
(* of their C types.                                                       *)
ASSUME ConstantAssumption ==
  /\ Tpl \subseteq Nat
  /\ Owns \in [Tpl -> SUBSET Chan]
  /\ PoolAddrs \subseteq Nat \ {0}
  /\ ClientAddrs \subseteq Nat \ {0}
  /\ Sizes \subseteq Nat
  /\ Counts \subseteq 0 .. Word - 1
  /\ Modes \subseteq 0 .. 255
  /\ Autos \subseteq BOOLEAN

VARIABLES
  DmaChannels, \* This->DmaChannels: what the driver remembers per channel
  buf,         \* the callers' LEGACY_DMA_BUFFER structures
  frame        \* the call each caller is in: its pc and live locals

vars == <<ch, ff, DmaChannels, buf, frame>>

NULL == 0

(* LEGACY_DMA_CHANNEL (its Channel field repeats the index) and            *)
(* LEGACY_DMA_BUFFER (PhysicalAddress always equals Buffer).               *)
ChannelInfo == [Mode : 0 .. 255, Count : 0 .. Word - 1, Address : Nat, IsActive : BOOLEAN]
Descriptor == [Buffer : Nat, Length : Nat]

Status == {"SUCCESS", "INVALID_PARAMETER", "NOT_READY", "OUT_OF_RESOURCES"}

(* The channel is masked and its registers are being rewritten.            *)
Rewriting == {"prog_clear", "prog_mode", "prog_addr_lo", "prog_addr_hi",
              "prog_page", "prog_count_lo", "prog_count_hi", "prog_store"}
Pc == Rewriting \cup {"idle", "prog_mask", "start_unmask", "start_mark",
      "stat_read", "stat_clear", "stat_lo", "stat_hi", "stat_store",
      "stop_mask", "stop_mark"}

Frame == [pc : Pc, Channel : Chan, Address : Nat, Count : 0 .. Word - 1,
          Mode : 0 .. 255, Done : BOOLEAN, ret : Status]

(* A caller outside the driver, whose last call returned s.                *)
Returned(s) == [pc |-> "idle", Channel |-> 0, Address |-> 0, Count |-> 0,
                Mode |-> 0, Done |-> FALSE, ret |-> s]

NoBuffer == [Buffer |-> NULL, Length |-> 0]

Init ==
  /\ DmaInit
  /\ DmaChannels = [c \in Chan |->
       [Mode |-> 0, Count |-> 0, Address |-> 0, IsActive |-> FALSE]]
  /\ buf = [b \in Buffers |-> NoBuffer]
  /\ frame = [t \in Tpl |-> Returned("SUCCESS")]

TypeOK ==
  /\ DmaTypeOK
  /\ DmaChannels \in [Chan -> ChannelInfo]
  /\ buf \in [Buffers -> Descriptor]
  /\ frame \in [Tpl -> Frame]

-----------------------------------------------------------------------------
(* GetDmaPorts: the port table of the driver, entry c+1 for channel c.     *)

AddrPort(c)  == <<\h00, \h02, \h04, \h06, \hC0, \hC4, \hC8, \hCC>>[c + 1]
CountPort(c) == <<\h01, \h03, \h05, \h07, \hC2, \hC6, \hCA, \hCE>>[c + 1]
PagePort(c)  == <<\h87, \h83, \h81, \h82, \h8F, \h8B, \h89, \h8A>>[c + 1]
StatPort(c)  == IF c >= 4 THEN \hD0 ELSE \h08
WrongMaskPort(c) == \h0A
MaskPort(c)  == IF c >= 4 THEN \hD4 ELSE \h0A
ModePort(c)  == IF c >= 4 THEN \hD6 ELSE \h0B
WrongClearPort(c) == \h0C
ClearPort(c) == IF c >= 4 THEN \hD8 ELSE \h0C

-----------------------------------------------------------------------------
(* Scheduling.  A caller runs only while no caller of a higher TPL is in a *)
(* call: a callback runs to its end before what it interrupted goes on.    *)

Runs(t) == \A u \in Tpl : u > t => frame[u].pc = "idle"
Free(t) == frame[t].pc = "idle" /\ Runs(t)
At(t, pc) == frame[t].pc = pc /\ Runs(t)

Goto(t, pc) == frame' = [frame EXCEPT ![t].pc = pc]
Return(t, s) == frame' = [frame EXCEPT ![t] = Returned(s)]

(* One port write of a call, which then goes on at pc.                     *)
Out(t, port, value, pc) ==
  /\ PortWrite(port, value)
  /\ Goto(t, pc)
  /\ UNCHANGED <<DmaChannels, buf>>

-----------------------------------------------------------------------------
(* LegacyDmaAllocateBuffer and LegacyDmaFreeBuffer.  AllocatePool returns  *)
(* memory no live buffer uses, or fails.  Callers allocate into a          *)
(* structure that holds no buffer.                                         *)

Unused(a, n) ==
  \A b \in Buffers : \/ buf[b].Buffer = NULL
                     \/ a + n <= buf[b].Buffer
                     \/ buf[b].Buffer + buf[b].Length <= a

AllocateDmaBuffer(t, b, Size) ==
  /\ Free(t) /\ buf[b].Buffer = NULL
  /\ \/ Size = 0 /\ Return(t, "INVALID_PARAMETER") /\ buf' = buf
     \/ Size # 0 /\ Return(t, "OUT_OF_RESOURCES") /\ buf' = buf
     \/ \E a \in PoolAddrs :
          /\ Size # 0 /\ Unused(a, Size)
          /\ IF a >= BusSize
             THEN Return(t, "OUT_OF_RESOURCES") /\ buf' = buf
             ELSE /\ buf' = [buf EXCEPT ![b] = [Buffer |-> a, Length |-> Size]]
                  /\ Return(t, "SUCCESS")
  /\ UNCHANGED <<ch, ff, DmaChannels>>

FreeDmaBuffer(t, b) ==
  /\ Free(t)
  /\ IF buf[b].Buffer = NULL
     THEN Return(t, "INVALID_PARAMETER") /\ buf' = buf
     ELSE buf' = [buf EXCEPT ![b] = NoBuffer] /\ Return(t, "SUCCESS")
  /\ UNCHANGED <<ch, ff, DmaChannels>>

-----------------------------------------------------------------------------
(* LegacyDmaProgramChannel.                                                *)

(* 16-bit channels count words: an odd byte count is rounded down.         *)
RoundDown(c, n) == IF Wide(c) THEN n - (n % 2) ELSE n
TransferCount(c, n) == IF Wide(c) THEN n \div 2 ELSE n

(* PhysicalAddr: the 64-bit address cast to UINT32.                        *)
Truncate(a) == a % (Word * Word)

Refused(c, a, n) ==
  \/ a = NULL \/ n = 0
  \/ Wide(c) /\ Truncate(a) % 2 = 1
  \/ Truncate(a) >= BusSize

WrongDmaMode(c, Mode, auto) ==
  (c % 4) + 4 * (Mode \div 4) + (IF (Mode \div 64) % 2 = 1 THEN 0 ELSE 64)
  + (IF auto /\ (Mode \div 16) % 2 = 0 THEN 16 ELSE 0)

(* The mode byte: channel, transfer type, single mode, auto-initialize.    *)
DmaMode(c, Mode, auto) ==
  (c % 4) + 4 * ((Mode \div 4) % 4) + 64 + (IF auto THEN 16 ELSE 0)

(* The call up to its first port access: the checks and the computations.  *)
ProgramDmaChannel(t, c, Mode, a, n, auto) ==
  /\ Free(t)
  /\ IF Refused(c, a, n)
     THEN Return(t, "INVALID_PARAMETER")
     ELSE frame' = [frame EXCEPT ![t] =
            [@ EXCEPT !.pc = "prog_mask", !.Channel = c, !.Address = Truncate(a),
                      !.Count = RoundDown(c, n), !.Mode = DmaMode(c, Mode, auto)]]
  /\ UNCHANGED <<ch, ff, DmaChannels, buf>>

WrongProgMask(t) == LET c == frame[t].Channel IN
  At(t, "prog_mask") /\ Out(t, MaskPort(c), c % 4, "prog_clear")

ProgMask(t) == LET c == frame[t].Channel IN
  At(t, "prog_mask") /\ Out(t, MaskPort(c), 4 + (c % 4), "prog_clear")

WrongProgClear(t) ==
  At(t, "prog_clear") /\ Goto(t, "prog_mode") /\ UNCHANGED <<ch, ff, DmaChannels, buf>>

ProgClear(t) == LET c == frame[t].Channel IN
  At(t, "prog_clear") /\ Out(t, ClearPort(c), 255, "prog_mode")

ProgMode(t) == LET c == frame[t].Channel IN
  At(t, "prog_mode") /\ Out(t, ModePort(c), frame[t].Mode, "prog_addr_lo")

ProgAddrLo(t) == LET c == frame[t].Channel IN
  At(t, "prog_addr_lo") /\ Out(t, AddrPort(c), Lo(frame[t].Address), "prog_addr_hi")

ProgAddrHi(t) == LET c == frame[t].Channel IN
  At(t, "prog_addr_hi") /\ Out(t, AddrPort(c), Hi(frame[t].Address), "prog_page")

WrongProgPage(t) ==
  At(t, "prog_page") /\ Goto(t, "prog_count_lo") /\ UNCHANGED <<ch, ff, DmaChannels, buf>>

ProgPage(t) == LET c == frame[t].Channel IN
  At(t, "prog_page") /\ Out(t, PagePort(c), Pg(frame[t].Address), "prog_count_lo")

(* What the count register gets: one less than the number of transfers.    *)
WrongCountReg(t) == TransferCount(frame[t].Channel, frame[t].Count)
CountReg(t) == TransferCount(frame[t].Channel, frame[t].Count) - 1

ProgCountLo(t) == LET c == frame[t].Channel IN
  At(t, "prog_count_lo") /\ Out(t, CountPort(c), Lo(CountReg(t)), "prog_count_hi")

ProgCountHi(t) == LET c == frame[t].Channel IN
  At(t, "prog_count_hi") /\ Out(t, CountPort(c), Hi(CountReg(t)), "prog_store")

ProgStore(t) ==
  LET f == frame[t] IN
  /\ At(t, "prog_store")
  /\ DmaChannels' = [DmaChannels EXCEPT ![f.Channel] =
       [Mode |-> f.Mode, Count |-> f.Count, Address |-> f.Address, IsActive |-> FALSE]]
  /\ Return(t, "SUCCESS")
  /\ UNCHANGED <<ch, ff, buf>>

Program(t) ==
  \/ ProgMask(t) \/ ProgClear(t) \/ ProgMode(t)
  \/ ProgAddrLo(t) \/ ProgAddrHi(t) \/ ProgPage(t)
  \/ ProgCountLo(t) \/ ProgCountHi(t) \/ ProgStore(t)

-----------------------------------------------------------------------------
(* LegacyDmaStart and LegacyDmaStop.                                       *)

WrongStartDma(t, c) ==
  /\ Free(t)
  /\ frame' = [frame EXCEPT ![t].pc = "start_unmask", ![t].Channel = c]
  /\ UNCHANGED <<ch, ff, DmaChannels, buf>>

StartDma(t, c) ==
  /\ Free(t)
  /\ IF DmaChannels[c].Count = 0
     THEN Return(t, "NOT_READY")
     ELSE frame' = [frame EXCEPT ![t].pc = "start_unmask", ![t].Channel = c]
  /\ UNCHANGED <<ch, ff, DmaChannels, buf>>

StartUnmask(t) == LET c == frame[t].Channel IN
  At(t, "start_unmask") /\ Out(t, MaskPort(c), c % 4, "start_mark")

(* Start and Stop end by recording IsActive.                               *)
Mark(t, pc, active) ==
  /\ At(t, pc)
  /\ DmaChannels' = [DmaChannels EXCEPT ![frame[t].Channel].IsActive = active]
  /\ Return(t, "SUCCESS")
  /\ UNCHANGED <<ch, ff, buf>>

StartMark(t) == Mark(t, "start_mark", TRUE)

StopDma(t, c) ==
  /\ Free(t)
  /\ frame' = [frame EXCEPT ![t].pc = "stop_mask", ![t].Channel = c]
  /\ UNCHANGED <<ch, ff, DmaChannels, buf>>

WrongStopMask(t) == LET c == frame[t].Channel IN
  At(t, "stop_mask") /\ Out(t, MaskPort(c), c % 4, "stop_mark")

StopMask(t) == LET c == frame[t].Channel IN
  At(t, "stop_mask") /\ Out(t, MaskPort(c), 4 + (c % 4), "stop_mark")

StopMark(t) == Mark(t, "stop_mark", FALSE)

-----------------------------------------------------------------------------
(* LegacyDmaStatus.                                                        *)

GetDmaStatus(t, c) ==
  /\ Free(t)
  /\ frame' = [frame EXCEPT ![t].pc = "stat_read", ![t].Channel = c]
  /\ UNCHANGED <<ch, ff, DmaChannels, buf>>

StatRead(t) == LET c == frame[t].Channel IN
  /\ At(t, "stat_read")
  /\ \E bits \in SUBSET (0 .. 3) :
       /\ StatusRead(StatPort(c), bits)
       /\ frame' = [frame EXCEPT ![t].pc = "stat_clear", ![t].Done = (c % 4) \in bits]
  /\ UNCHANGED <<DmaChannels, buf>>

StatClear(t) == LET c == frame[t].Channel IN
  At(t, "stat_clear") /\ Out(t, ClearPort(c), 255, "stat_lo")

StatCountLo(t) ==
  /\ At(t, "stat_lo")
  /\ \E v \in Data :
       /\ PortRead(CountPort(frame[t].Channel), v)
       /\ frame' = [frame EXCEPT ![t].pc = "stat_hi", ![t].Count = v]
  /\ UNCHANGED <<DmaChannels, buf>>

WrongStatCountHi(t) ==
  /\ At(t, "stat_hi")
  /\ \E v \in Data :
       /\ PortRead(CountPort(frame[t].Channel), v)
       /\ frame' = [frame EXCEPT ![t].pc = "stat_store", ![t].Count = @ + Word * v]
  /\ UNCHANGED <<DmaChannels, buf>>

StatCountHi(t) ==
  /\ At(t, "stat_hi")
  /\ \E v \in Data :
       /\ PortRead(CountPort(frame[t].Channel), v)
       /\ frame' = [frame EXCEPT ![t].pc = "stat_store", ![t].Count = @ + Byte * v]
  /\ UNCHANGED <<DmaChannels, buf>>

(* The two results of the call, computed in UINT16 arithmetic.             *)
BytesRemaining(t) ==
  LET n == (frame[t].Count + 1) % Word IN
  IF Wide(frame[t].Channel) THEN (2 * n) % Word ELSE n
WrongIsActive(t) == frame[t].Done
IsActive(t) == ~frame[t].Done

StatStore(t) == Mark(t, "stat_store", IsActive(t))

-----------------------------------------------------------------------------
(* Every function that takes a channel refuses one above 7.                *)
RefuseChannel(t) ==
  /\ Free(t)
  /\ Return(t, "INVALID_PARAMETER")
  /\ UNCHANGED <<ch, ff, DmaChannels, buf>>

Call(t) ==
  \/ RefuseChannel(t)
  \/ \E b \in Buffers : \/ \E n \in Sizes : AllocateDmaBuffer(t, b, n)
                        \/ FreeDmaBuffer(t, b)
  \/ \E c \in Owns[t] :
       \/ \E Mode \in Modes, n \in Counts, auto \in Autos :
            \E a \in {buf[b].Buffer : b \in Buffers} \cup ClientAddrs :
               ProgramDmaChannel(t, c, Mode, a, n, auto)
       \/ StartDma(t, c)
       \/ GetDmaStatus(t, c)
       \/ StopDma(t, c)

Start(t) == StartUnmask(t) \/ StartMark(t)
Stop(t) == StopMask(t) \/ StopMark(t)
GetStatus(t) ==
  StatRead(t) \/ StatClear(t) \/ StatCountLo(t) \/ StatCountHi(t) \/ StatStore(t)

Proceed(t) == Program(t) \/ Start(t) \/ Stop(t) \/ GetStatus(t)

BusCycle(c) == Transfer(c) /\ UNCHANGED <<DmaChannels, buf, frame>>

Next ==
  \/ \E t \in Tpl : Call(t) \/ Proceed(t)
  \/ \E c \in Chan : BusCycle(c)

Spec == Init /\ [][Next]_vars

-----------------------------------------------------------------------------
(* Properties.                                                             *)

Reprogramming(c) == \E t \in Tpl : frame[t].pc \in Rewriting /\ frame[t].Channel = c

(* The driver programmed the channel at least once (a stored mode is >= 64)*)
Programmed(c) == DmaChannels[c].Mode # 0

(* The registers of channel c hold what the driver recorded for it.        *)
Loaded(c) ==
  LET r == ch[c]  d == DmaChannels[c] IN
  /\ r.mode = d.Mode
  /\ r.page = Pg(d.Address)
  /\ r.baseAddr = Bytes(d.Address)
  /\ r.baseCount = Bytes(TransferCount(c, d.Count) - 1)

(* While LegacyDmaProgramChannel rewrites a channel's registers, from its  *)
(* mask write to its return, the channel stays masked: the controller      *)
(* never runs a half-programmed transfer.                                  *)
MaskedWhileRewritten == \A c \in Chan : Reprogramming(c) => ch[c].mask

(* Outside LegacyDmaProgramChannel the registers of a channel agree with   *)
(* its DmaChannels entry, every byte having reached the register it was    *)
(* meant for: the shared flip-flop was in step at each of the four writes. *)
RegistersMatchRecord ==
  \A c \in Chan : Programmed(c) /\ ~Reprogramming(c) => Loaded(c)

(* A channel the controller serves was programmed, by a call that          *)
(* recorded a transfer of at least one unit (the check in LegacyDmaStart). *)
EnabledOnlyIfProgrammed ==
  \A c \in Chan \ {4} : ~ch[c].mask => Programmed(c) /\ DmaChannels[c].Count # 0

(* A channel that is open is served: neither a stray bit of a caller's     *)
(* Mode, nor a command meant for another channel, puts it or the channel   *)
(* that connects its controller in the wrong mode.  (No caller uses channel*)
(* 4, which LegacyDmaProgramChannel would take out of cascade mode.)       *)
OpenIsServed == \A c \in Chan \ {4} : ~ch[c].mask => Granted(c)

(* However far a channel has run, what it still has to move ends where the *)
(* programmed region ends (modulo 64K): neither a status call nor a stop   *)
(* and restart shifts the address against the count.                       *)
CountdownKeepsEnd ==
  \A c \in Chan : Programmed(c) /\ ~Reprogramming(c) =>
    LET d == DmaChannels[c] IN
    (Val(ch[c].addr) + Val(ch[c].count)) % Word
      = (d.Address + TransferCount(c, d.Count) - 1) % Word

(* A step of a call on one channel leaves the record and the registers of  *)
(* every other channel alone, but for the terminal-count bits, which a     *)
(* status call clears for its whole controller: the port table of          *)
(* GetDmaPorts and the channel bits of the command bytes route right.      *)
OtherChannelsUntouched ==
  [][\A t \in Tpl : frame[t].pc # "idle" /\ frame'[t] # frame[t] =>
       \A c \in Chan \ {frame[t].Channel} :
         /\ DmaChannels'[c] = DmaChannels[c]
         /\ ch'[c] = [ch[c] EXCEPT !.tc = ch'[c].tc]
         /\ ch'[c].tc # ch[c].tc => Of(c) = Of(frame[t].Channel)]_vars

(* Only LegacyDmaStart enables a channel, and at its mask write the record *)
(* it checked on entry still holds a programmed transfer.                  *)
OnlyStartEnables ==
  [][\A c \in Chan : ch[c].mask /\ ~ch'[c].mask =>
       /\ DmaChannels[c].Count # 0
       /\ \E t \in Tpl : frame[t].pc = "start_unmask" /\ frame[t].Channel = c]_vars
=============================================================================
