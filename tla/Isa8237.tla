------------------------------ MODULE Isa8237 ------------------------------
(***************************************************************************)
(* The pair of 8237 DMA controllers of a PC, as the drivers and scripts of *)
(* src/ use them: through 8-bit port reads and writes.  The hardware is    *)
(* not in src/; this is the device those programs are written against.     *)
(*                                                                         *)
(* Controller 0 has channels 0..3 (8 bits wide), controller 1 has channels *)
(* 4..7 (16 bits wide); controller 0 reaches the bus through channel 4, in *)
(* cascade mode.  A 16-bit register is written and read one byte at a time *)
(* through one port; ONE flip-flop per controller says which byte is next. *)
(*                                                                         *)
(* Data bytes are 0 .. Byte-1, so that a 16-bit register has Byte^2 values *)
(* and the 24-bit bus Byte^3 addresses.  The hardware has Byte = 256; TLC  *)
(* checks smaller ones.  Command bytes (mask, mode) keep their real codes. *)
(***************************************************************************)
EXTENDS Integers

CONSTANTS
  Byte,
  DoneAtStart  \* the channels whose terminal-count bit may be set at the start

ASSUME ByteAssumption == Byte \in Nat /\ Byte > 1
ASSUME DoneAssumption == DoneAtStart \subseteq 0 .. 7

VARIABLES
  ch,   \* the registers of each channel
  ff    \* the byte-pointer flip-flop of each controller

dmaVars == <<ch, ff>>

Chan == 0 .. 7
Ctrl == 0 .. 1
Flip == 0 .. 1

(* Multi-byte values.  A register pair is indexed by the flip-flop.        *)
Data == 0 .. Byte - 1
Pair == [Flip -> Data]
Word == Byte * Byte
BusSize == Word * Byte

Lo(n) == n % Byte
Hi(n) == (n \div Byte) % Byte
Pg(n) == (n \div Word) % Byte
Bytes(n) == [i \in Flip |-> IF i = 0 THEN Lo(n) ELSE Hi(n)]
Val(p) == p[0] + Byte * p[1]

Zero == [i \in Flip |-> 0]

Inc(p) ==
  IF p[0] < Byte - 1
  THEN [p EXCEPT ![0] = @ + 1]
  ELSE [p EXCEPT ![0] = 0, ![1] = IF @ < Byte - 1 THEN @ + 1 ELSE 0]

Dec(p) ==
  IF p[0] > 0
  THEN [p EXCEPT ![0] = @ - 1]
  ELSE [p EXCEPT ![0] = Byte - 1, ![1] = IF @ > 0 THEN @ - 1 ELSE Byte - 1]

Channel == [mask : BOOLEAN, mode : 0 .. 255, page : Data, tc : BOOLEAN,
            baseAddr : Pair, addr : Pair, baseCount : Pair, count : Pair]

-----------------------------------------------------------------------------
(* Port decoding.  Controller 1 sits on 16-bit boundaries from 0xC0.       *)

Of(c) == IF c < 4 THEN 0 ELSE 1
Wide(c) == c >= 4

IoReg(k, r) == IF k = 0 THEN r ELSE 192 + 2 * r
IoAddr(c) == IoReg(Of(c), 2 * (c % 4))
IoCount(c) == IoReg(Of(c), 2 * (c % 4) + 1)
IoPage(c) == <<135, 131, 129, 130, 143, 139, 137, 138>>[c + 1]

StatReg  == 8
MaskReg  == 10
ModeReg  == 11
ClearReg == 12

(* The channel a command byte names: its low two bits, on controller k.    *)
Named(k, v) == 4 * k + (v % 4)

AutoInit(r) == (r.mode \div 16) % 2 = 1
Cascaded(r) == r.mode \div 64 = 3

-----------------------------------------------------------------------------
(* Writing and reading a port.  A port no register answers swallows writes.*)

Toggle(k) == ff' = [ff EXCEPT ![k] = 1 - @]

WriteAddr(c, v) ==
  LET f == ff[Of(c)] IN
  /\ ch' = [ch EXCEPT ![c].baseAddr[f] = v, ![c].addr[f] = v]
  /\ Toggle(Of(c))

WriteCount(c, v) ==
  LET f == ff[Of(c)] IN
  /\ ch' = [ch EXCEPT ![c].baseCount[f] = v, ![c].count[f] = v]
  /\ Toggle(Of(c))

WritePage(c, v) == ch' = [ch EXCEPT ![c].page = v] /\ ff' = ff

WriteMask(k, v) ==
  /\ ch' = [ch EXCEPT ![Named(k, v)].mask = ((v \div 4) % 2 = 1)]
  /\ ff' = ff

WriteMode(k, v) == ch' = [ch EXCEPT ![Named(k, v)].mode = v] /\ ff' = ff

ClearFlipFlop(k) == ff' = [ff EXCEPT ![k] = 0] /\ ch' = ch

PortWrite(p, v) ==
  \/ \E c \in Chan : \/ p = IoAddr(c) /\ WriteAddr(c, v)
                     \/ p = IoCount(c) /\ WriteCount(c, v)
                     \/ p = IoPage(c) /\ WritePage(c, v)
  \/ \E k \in Ctrl : \/ p = IoReg(k, MaskReg) /\ WriteMask(k, v)
                     \/ p = IoReg(k, ModeReg) /\ WriteMode(k, v)
                     \/ p = IoReg(k, ClearReg) /\ ClearFlipFlop(k)

(* Reading a count register gives the byte v the flip-flop selects.        *)
PortRead(p, v) ==
  \E c \in Chan : /\ p = IoCount(c)
                  /\ v = ch[c].count[ff[Of(c)]]
                  /\ Toggle(Of(c))
                  /\ ch' = ch

(* Reading the status register gives the set of the controller's channels  *)
(* (bits 0..3) that reached terminal count, and clears all four bits.      *)
StatusRead(p, bits) ==
  \E k \in Ctrl :
    /\ p = IoReg(k, StatReg)
    /\ bits = {i \in 0 .. 3 : ch[4 * k + i].tc}
    /\ ch' = [c \in Chan |-> IF Of(c) = k THEN [ch[c] EXCEPT !.tc = FALSE]
                                          ELSE ch[c]]
    /\ ff' = ff

-----------------------------------------------------------------------------
(* One bus cycle: a device asks for DMA on channel c and the controller    *)
(* grants it.  The count register counts down through zero: the cycle that *)
(* finds zero is the last (terminal count).                                *)

Granted(c) ==
  /\ ~ch[c].mask
  /\ ~Cascaded(ch[c])
  /\ c < 4 => ~ch[4].mask /\ Cascaded(ch[4])

Cycle(r) ==
  IF r.count # Zero
  THEN [r EXCEPT !.addr = Inc(@), !.count = Dec(@)]
  ELSE IF AutoInit(r)
       THEN [r EXCEPT !.addr = r.baseAddr, !.count = r.baseCount, !.tc = TRUE]
       ELSE [r EXCEPT !.addr = Inc(@), !.count = Dec(@), !.tc = TRUE, !.mask = TRUE]

Transfer(c) == Granted(c) /\ ch' = [ch EXCEPT ![c] = Cycle(@)] /\ ff' = ff

(* The bytes of memory the next cycle of channel c moves: the page register*)
(* gives the high address bits; a wide channel holds word addresses and    *)
(* ignores the lowest page bit.                                            *)
BusAddress(c) ==
  LET r == ch[c] IN
  IF Wide(c) THEN {(r.page - (r.page % 2)) * Word + 2 * Val(r.addr) + i : i \in 0 .. 1}
             ELSE {r.page * Word + Val(r.addr)}

-----------------------------------------------------------------------------
(* At the start: everything masked but the cascade.  The flip-flops are not*)
(* known, nor which transfers of earlier users completed: nothing but a    *)
(* status read clears a terminal-count bit.                                *)

ResetChannel(c, done) ==
  [mask |-> (c # 4), mode |-> IF c = 4 THEN 192 ELSE 0, page |-> 0, tc |-> done,
   baseAddr |-> Zero, addr |-> Zero, baseCount |-> Zero, count |-> Zero]

DmaInit ==
  /\ \E done \in SUBSET DoneAtStart : ch = [c \in Chan |-> ResetChannel(c, c \in done)]
  /\ ff \in [Ctrl -> Flip]

DmaTypeOK == ch \in [Chan -> Channel] /\ ff \in [Ctrl -> Flip]
=============================================================================
