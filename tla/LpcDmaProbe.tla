---------------------------- MODULE LpcDmaProbe ----------------------------
(***************************************************************************)
(* The CHIPSEC scripts that look for DMA behind the LPC bus, as users of   *)
(* the hardware: lpc_dma_z390_test.py (program "z390") and the register    *)
(* tests of lpc_dma_h81_z390_test.py (program "h81").  Both change live    *)
(* registers of the DMA controllers and of the LPC bridge, look, and put   *)
(* back what they read; the devices of the machine go on meanwhile.        *)
(*                                                                         *)
(* A script is a sequence of tasks, a task a sequence of accesses, each of *)
(* which may raise: most tasks catch the exception and the script goes on, *)
(* some have a `finally' and let it end the script.  Reads that change     *)
(* nothing and whose value is only logged are left out.  A PCI register or *)
(* a control byte is the set of its bits that are one.                     *)
(***************************************************************************)
EXTENDS Isa8237, Sequences, FiniteSets

CONSTANTS
  Bits,          \* the bits of an LPC register, from 32
  FirstRegs,     \* what the LPC registers may hold at the start
  ReadOnly,      \* the LPC registers that take no write
  InUse,         \* the narrow channels a device has a transfer on
  Pattern,       \* the bits of the test address and count
  MaskReadable,  \* port 0x0F reads back the mask bits
  MaxFaults      \* bound: accesses that raise

VARIABLES
  program,   \* the script that runs
  command,   \* the command register of controller 0, as bits
  pci,       \* the LPC registers under test
  was,       \* at the start: what they held, and which narrow channels were
             \* masked and which had their terminal-count bit set
  at,        \* <<task, access>> the script is at
  val,       \* its local variables
  seen,      \* "lpc": is_lpc_found, "hidden": hidden_regs_found
  raised,    \* an exception waits for a finally clause
  faults     \* accesses that raised

probeVars == <<dmaVars, program, command, pci, was, at, val, seen, raised, faults>>
scriptVars == <<program, was, faults>>

Narrow == 0 .. 3
PciRegs == {"ctrl", "stat", "tc", "addr", "desc", "e4"}
HiddenRegs == <<"ctrl", "stat", "tc", "addr", "desc">>

ASSUME ProbeAssumption ==
  /\ 0 .. 31 \subseteq Bits
  /\ FirstRegs \subseteq [PciRegs -> SUBSET Bits]
  /\ ReadOnly \subseteq PciRegs
  /\ InUse \subseteq Narrow
  /\ Pattern \subseteq Bits
  /\ MaskReadable \in BOOLEAN
  /\ MaxFaults \in Nat

-----------------------------------------------------------------------------
(* Accesses.  A bit-valued location is an LPC register, the command        *)
(* register or the register of all masks; the others are ports of Isa8237. *)

Out(p, v)        == [op |-> "out", port |-> p, byte |-> v]
In(p)            == [op |-> "in", port |-> p]
Load(r, n)       == [op |-> "load", loc |-> r, var |-> n]
Toggled(r, n, b) == [op |-> "store", loc |-> r, var |-> n, xor |-> {b}]
Store(r, n)      == [op |-> "store", loc |-> r, var |-> n, xor |-> {}]
Put(r, bits)     == [op |-> "put", loc |-> r, bits |-> bits]
Peek(r, n)       == [op |-> "peek", loc |-> r, var |-> n]
FindLpc          == [op |-> "find"]

Task(steps, caught, finally, needs) ==
  [steps |-> steps, caught |-> caught, finally |-> finally, needs |-> needs]
Caught(steps)       == Task(steps, TRUE, FALSE, {})
CaughtIf(n, steps)  == Task(steps, TRUE, FALSE, {n})
Bare(steps)         == Task(steps, FALSE, FALSE, {"hidden"})
WithFinally(steps)  == Task(steps, FALSE, TRUE, {"hidden"})

(* The offsets of controller 0, which both scripts use for either base.    *)
RequestReg == 9

Base(c) == IF c <= 3 THEN 0 ELSE 192
ResidueCount(c) == IF c <= 3 THEN 2 * c + 1 ELSE 192 + 4 * (c - 4) + 1

check_for_dma_residue(c) ==
  Caught(<<Out(Base(c) + ClearReg, 0), In(ResidueCount(c)), In(ResidueCount(c)),
           In(Base(c) + StatReg)>>)

WrongToggleLowBit(r) == <<Peek(r, "reg"), Toggled(r, "reg", 0)>>

ToggleLowBit(r) == <<Peek(r, "reg"), Toggled(r, "reg", 0), Store(r, "reg")>>

WrongSimpleLeftOpen(c) ==
  Caught(<<Out(MaskReg, 4 + c), Out(ClearReg, 0), In(StatReg),
           Out(ModeReg, 64 + 8 + c), Out(MaskReg, c), Out(RequestReg, 4 + c),
           In(StatReg)>>)

WrongSimpleUnmasked(c) ==
  Caught(<<Out(ClearReg, 0), In(StatReg), Out(ModeReg, 64 + 8 + c), Out(MaskReg, c),
           Out(RequestReg, 4 + c), In(StatReg), Out(MaskReg, 4 + c)>>)

try_simple_dma_operation(c) ==
  Caught(<<Out(MaskReg, 4 + c), Out(ClearReg, 0), In(StatReg),
           Out(ModeReg, 64 + 8 + c), Out(MaskReg, c), Out(RequestReg, 4 + c),
           In(StatReg), Out(MaskReg, 4 + c)>>)

Wrong_test_traditional_dma_regs ==
  Caught(<<Load("command", "cmd"), Toggled("command", "cmd", 2), In(StatReg)>>)

test_traditional_dma_regs ==
  Caught(<<Load("command", "cmd"), Toggled("command", "cmd", 2), In(StatReg),
           Store("command", "cmd"), In(StatReg)>>)

(* safer_dma_test: one bit of the control register at a time, each under a *)
(* finally, then bit 2 of the command register.                            *)
safer_dma_test ==
  <<Bare(<<Load("ctrl", "ctrl")>>)>>
  \o [b \in 1 .. 8 |->
        WithFinally(<<Toggled("ctrl", "ctrl", b - 1), In(StatReg), Store("ctrl", "ctrl")>>)]
  \o <<Bare(<<Load("command", "cmd")>>),
       WithFinally(<<Toggled("command", "cmd", 2), Store("command", "cmd")>>)>>

WrongSafeBit(b) ==
  <<Load("ctrl", "reg"), Toggled("ctrl", "reg", b + 8), Store("ctrl", "reg")>>
SafeBit(b) == <<Load("ctrl", "reg"), Toggled("ctrl", "reg", b), Store("ctrl", "reg")>>
TestPattern(r) == <<Load(r, "reg"), Put(r, Pattern), Store(r, "reg")>>

safer_dma_test_two ==
  CaughtIf("hidden",
    [i \in 1 .. 5 |-> Load(HiddenRegs[i], HiddenRegs[i])]
    \o <<Load("command", "cmd"), Load("maskall", "mask"),
         Put("maskall", Narrow), Out(ModeReg, 69)>>
    \o SafeBit(8) \o SafeBit(16) \o SafeBit(24)
    \o TestPattern("addr") \o TestPattern("tc")
    \o <<Store("command", "cmd"), Store("maskall", "mask")>>
    \o [i \in 1 .. 5 |-> Store(HiddenRegs[i], HiddenRegs[i])])

test_lpc_dma_specific ==
  <<Caught(<<FindLpc>>)>>
  \o [i \in 1 .. 6 |-> CaughtIf("lpc", ToggleLowBit(Append(HiddenRegs, "e4")[i]))]

Z390 ==
  [i \in 1 .. 7 |-> check_for_dma_residue(<<0, 1, 2, 3, 5, 6, 7>>[i])]
  \o test_lpc_dma_specific
  \o <<try_simple_dma_operation(1), try_simple_dma_operation(3)>>

test_h81_dma_registers == [i \in 1 .. 5 |-> Caught(ToggleLowBit(HiddenRegs[i]))]

H81 ==
  <<test_traditional_dma_regs>> \o test_h81_dma_registers
  \o safer_dma_test \o <<safer_dma_test_two>>

Script == IF program = "z390" THEN Z390 ELSE H81

-----------------------------------------------------------------------------
Ended == at[1] > Len(Script)
Now == Script[at[1]]
Access == Now.steps[at[2]]

End == at' = <<Len(Script) + 1, 1>>
NextTask == at' = <<at[1] + 1, 1>>
Advance ==
  IF at[2] < Len(Now.steps) THEN at' = <<at[1], at[2] + 1>> /\ raised' = raised
  ELSE IF raised THEN End /\ raised' = FALSE
  ELSE NextTask /\ raised' = raised

Ready(op) == ~Ended /\ Now.needs \subseteq seen /\ Access.op = op

(* Writing a port.  A request for a channel not in block mode is ignored.  *)
Decoded(p) ==
  \/ \E c \in Chan : p \in {IoAddr(c), IoCount(c), IoPage(c)}
  \/ \E k \in Ctrl : p \in {IoReg(k, MaskReg), IoReg(k, ModeReg), IoReg(k, ClearReg)}

OutPort ==
  /\ Ready("out")
  /\ IF Decoded(Access.port) THEN PortWrite(Access.port, Access.byte)
                             ELSE UNCHANGED dmaVars
  /\ Advance
  /\ UNCHANGED <<scriptVars, command, pci, val, seen>>

(* Reading a port: the byte is only compared with another or logged.       *)
ReadPort(p) ==
  \/ \E bits \in SUBSET Narrow : StatusRead(p, bits)
  \/ \E c \in Chan : p \in {IoAddr(c), IoCount(c)} /\ Toggle(Of(c)) /\ ch' = ch
  \/ /\ p \notin {IoReg(k, StatReg) : k \in Ctrl} \cup
                 UNION {{IoAddr(c), IoCount(c)} : c \in Chan}
     /\ UNCHANGED dmaVars

InPort ==
  /\ Ready("in")
  /\ ReadPort(Access.port)
  /\ Advance
  /\ UNCHANGED <<scriptVars, command, pci, val, seen>>

(* Port 8 is the command register when written and the status register when*)
(* read: channels at terminal count in bits 0 to 3, which the read clears, *)
(* and requests in bits 4 to 7, from any device with a transfer.           *)
ReadBits(r, bits) ==
  \/ r \in PciRegs /\ bits = pci[r] /\ UNCHANGED dmaVars
  \/ /\ r = "command"
     /\ StatusRead(StatReg, bits \cap Narrow)
     /\ bits \ Narrow \subseteq {4 + c : c \in InUse}
  \/ /\ r = "maskall"
     /\ MaskReadable => bits = {c \in Narrow : ch[c].mask}
     /\ UNCHANGED dmaVars

Domain(r) == CASE r \in PciRegs -> {pci[r]}
               [] r = "command" -> SUBSET (0 .. 7)
               [] r = "maskall" -> SUBSET Narrow

LoadBits ==
  /\ Ready("load")
  /\ \E bits \in Domain(Access.loc) :
       /\ ReadBits(Access.loc, bits)
       /\ val' = [val EXCEPT ![Access.var] = bits]
  /\ Advance
  /\ UNCHANGED <<scriptVars, command, pci, seen>>

(* A register that reads as all zeros or all ones is taken for absent.     *)
Absent(bits) == bits \in {{}, Bits}

PeekBits ==
  /\ Ready("peek")
  /\ IF Absent(pci[Access.loc])
     THEN NextTask /\ UNCHANGED <<val, seen>>
     ELSE /\ val' = [val EXCEPT ![Access.var] = pci[Access.loc]]
          /\ seen' = seen \cup {"hidden"}
          /\ at' = <<at[1], at[2] + 1>>
  /\ UNCHANGED <<scriptVars, dmaVars, command, pci, raised>>

(* Writing a bit-valued location.                                          *)
WriteBits(r, bits) ==
  \/ /\ r \in PciRegs
     /\ pci' = IF r \in ReadOnly THEN pci ELSE [pci EXCEPT ![r] = bits]
     /\ UNCHANGED <<dmaVars, command>>
  \/ r = "command" /\ command' = bits \cap (0 .. 7) /\ UNCHANGED <<dmaVars, pci>>
  \/ /\ r = "maskall"
     /\ ch' = [c \in Chan |-> IF c \in Narrow THEN [ch[c] EXCEPT !.mask = (c \in bits)]
                                              ELSE ch[c]]
     /\ UNCHANGED <<ff, command, pci>>

Xor(s, t) == (s \ t) \cup (t \ s)

StoreBits ==
  /\ Ready("store")
  /\ WriteBits(Access.loc, Xor(val[Access.var], Access.xor))
  /\ Advance
  /\ UNCHANGED <<scriptVars, val, seen>>

PutBits ==
  /\ Ready("put")
  /\ WriteBits(Access.loc, Access.bits)
  /\ Advance
  /\ UNCHANGED <<scriptVars, val, seen>>

(* The vendor and device at 0:1F.0: Intel or not.                          *)
FindLpcController ==
  /\ Ready("find")
  /\ seen' \in {seen, seen \cup {"lpc"}}
  /\ NextTask
  /\ UNCHANGED <<scriptVars, dmaVars, command, pci, val, raised>>

(* A task whose condition does not hold is skipped.                        *)
Skip ==
  /\ ~Ended
  /\ ~(Now.needs \subseteq seen)
  /\ NextTask
  /\ UNCHANGED <<scriptVars, dmaVars, command, pci, val, seen, raised>>

(* An access raises before it reaches the hardware.                        *)
Raise ==
  /\ ~Ended
  /\ Now.needs \subseteq seen
  /\ faults < MaxFaults
  /\ faults' = faults + 1
  /\ \/ Now.caught /\ NextTask /\ raised' = raised
     \/ /\ ~Now.caught /\ Now.finally /\ at[2] < Len(Now.steps)
        /\ at' = <<at[1], Len(Now.steps)>>
        /\ raised' = TRUE
     \/ /\ ~Now.caught /\ (Now.finally => at[2] = Len(Now.steps))
        /\ End
        /\ raised' = FALSE
  /\ UNCHANGED <<dmaVars, program, was, command, pci, val, seen>>

ScriptStep == \/ OutPort \/ InPort \/ LoadBits \/ PeekBits \/ StoreBits \/ PutBits
              \/ FindLpcController \/ Skip

(* A device moves a unit on a narrow channel, if the controller is enabled.*)
Device ==
  /\ 2 \notin command
  /\ \E c \in Narrow : Transfer(c)
  /\ UNCHANGED <<scriptVars, command, pci, at, val, seen, raised>>

(* A channel in use has one more unit to go; the others are as after reset.*)
(* The machine has been running: any earlier transfer, of a channel in use *)
(* too, may have left a terminal-count bit that nobody has read since.     *)
Running(c, done) ==
  [ResetChannel(c, done) EXCEPT !.mask = FALSE, !.mode = 68 + c, !.page = 1,
                                !.baseCount[0] = 1, !.count[0] = 1]

ProbeInit ==
  /\ program \in {"z390", "h81"}
  /\ \E done \in SUBSET DoneAtStart :
       ch = [c \in Chan |-> IF c \in InUse THEN Running(c, c \in done)
                           ELSE ResetChannel(c, c \in done)]
  /\ ff = [k \in Ctrl |-> 0]
  /\ command = {}
  /\ pci \in FirstRegs
  /\ was = [regs |-> pci, masked |-> {c \in Narrow : ch[c].mask},
            done |-> {c \in Narrow : ch[c].tc}]
  /\ at = <<1, 1>>
  /\ val = [n \in {"reg", "cmd", "mask"} \cup PciRegs |-> {}]
  /\ seen = {}
  /\ raised = FALSE
  /\ faults = 0

ProbeNext == ScriptStep \/ Raise \/ Device

ProbeSpec == ProbeInit /\ [][ProbeNext]_probeVars

-----------------------------------------------------------------------------
(* The shape of the state.                                                 *)
ProbeTypeOK ==
  /\ DmaTypeOK
  /\ program \in {"z390", "h81"}
  /\ command \subseteq 0 .. 7
  /\ pci \in [PciRegs -> SUBSET Bits]
  /\ at \in (1 .. Len(Script) + 1) \X (Nat \ {0})
  /\ \A n \in DOMAIN val : val[n] \subseteq Bits
  /\ seen \subseteq {"lpc", "hidden"}
  /\ raised \in BOOLEAN
  /\ faults \in 0 .. MaxFaults

Open == {c \in Narrow : ~ch[c].mask}

(* A channel in use starts with one unit to go: its count is one, then     *)
(* zero, and anything else only past its terminal count.                   *)
PastTheEnd(c) == ch[c].count[1] # 0 \/ ch[c].count[0] > 1

(* Whatever raises and wherever, each access that raised leaves at most one*)
(* LPC register other than it was: between two tasks, every register the   *)
(* scripts touched holds its first value again, but for those.             *)
LpcRegsRestored ==
  at[2] = 1 => Cardinality({r \in PciRegs : pci[r] # was.regs[r]}) <= faults

(* How each script leaves the masks.  z390 ends with channels 1 and 3      *)
(* masked, in use or not; each access that raised leaves at most one of    *)
(* them open that was masked; the others are open as long as they have not *)
(* completed.  h81 opens no channel that was masked, and masks one in use  *)
(* only if it completed, or, when an access raised, all four together.  It *)
(* may open a channel past its end again, but only one that the reading of *)
(* the mask register still showed as open.                                 *)
MasksKept ==
  Ended =>
    /\ program = "z390" =>
         /\ faults = 0 => Open \cap {1, 3} = {}
         /\ Open \cap was.masked \subseteq {1, 3}
         /\ Cardinality(Open \cap was.masked) <= faults
         /\ \A c \in InUse \ {1, 3} : c \in Open <=> ~PastTheEnd(c)
    /\ program = "h81" =>
         /\ Open \cap was.masked = {}
         /\ \A c \in InUse \ Open : PastTheEnd(c) \/ (faults > 0 /\ Open = {})
         /\ \A c \in InUse \cap Open :
              PastTheEnd(c) => "hidden" \in seen /\ c \notin val["mask"]

(* The scripts save the status register for the command register, whose bit*)
(* 2 disables controller 0.  With no exception they leave it disabled only *)
(* if channel 2 completed meanwhile, or an earlier transfer of channel 2   *)
(* had left its bit and no hidden register led to a second saving.         *)
DisabledOnlyAfterChannel2 ==
  Ended /\ faults = 0 /\ 2 \in command =>
    \/ 2 \in InUse /\ PastTheEnd(2)
    \/ 2 \in was.done /\ "hidden" \notin seen

(* No step changes the base address, base count or page of a narrow channel*)
(* or the mode of one that no script sets; the mode of channels 1 and 3    *)
(* changes only while they are masked.                                     *)
ProgrammingKept ==
  [][\A c \in Narrow :
       /\ ch'[c].baseAddr = ch[c].baseAddr
       /\ ch'[c].baseCount = ch[c].baseCount
       /\ ch'[c].page = ch[c].page
       /\ ch'[c].mode # ch[c].mode => c \in {1, 3} /\ ch[c].mask]_probeVars
=============================================================================
