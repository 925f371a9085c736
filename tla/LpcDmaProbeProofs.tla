-------------------------- MODULE LpcDmaProbeProofs --------------------------
(***************************************************************************)
(* The CHIPSEC scripts of LpcDmaProbe, wherever an access raises and       *)
(* whatever the devices of the machine do meanwhile: types, the registers  *)
(* they put back, the masks, and the command register.  Proofs.            *)
(***************************************************************************)
EXTENDS LpcDmaProbe, Isa8237Proofs, FiniteSetTheorems

-----------------------------------------------------------------------------
(* Where the script is.                                                    *)

H81At(i) == program = "h81" /\ at[1] = i
Two == H81At(18)        \* in safer_dma_test_two
OneBit == program = "h81" /\ at[1] \in 8 .. 15
LpcRegs == Append(HiddenRegs, "e4")

(* The register a toggle_low_bit task is about.                            *)
TogglesLow == \/ program = "z390" /\ at[1] \in 9 .. 14
              \/ program = "h81" /\ at[1] \in 2 .. 6
LowReg == LpcRegs[IF program = "z390" THEN at[1] - 8 ELSE at[1] - 1]

(* Names of the script's variables, and the shape of the state in full.    *)
Names == {"reg", "cmd", "mask"} \cup PciRegs

ShapeInv ==
  /\ ProbeTypeOK
  /\ val \in [Names -> SUBSET Bits]
  /\ at \in (1 .. Len(Script) + 1) \X (Nat \ {0})
  /\ ~Ended => at[2] <= Len(Now.steps) /\ (at[2] > 1 => Now.needs \subseteq seen)
  /\ \A c \in Narrow : ch[c].mode \in {0, 68 + c, 72 + c}
  /\ was.masked = Narrow \ InUse

-----------------------------------------------------------------------------
(* The LPC register that is changed just now, to be put back from the      *)
(* variable UndoVar; Back(r) is what r then holds.                         *)
Undo ==
  {r \in PciRegs :
     \/ TogglesLow /\ at[2] = 3 /\ r = LowReg
     \/ OneBit /\ at[2] \in {2, 3} /\ r = "ctrl"
     \/ Two /\ at[2] \in {12, 15, 18} /\ r = "ctrl"
     \/ Two /\ at[2] = 21 /\ r = "addr"
     \/ Two /\ at[2] = 24 /\ r = "tc"}
UndoVar == IF OneBit THEN "ctrl" ELSE "reg"
Back(r) == IF r \in Undo THEN val[UndoVar] ELSE pci[r]

Lost == {r \in PciRegs : Back(r) # was.regs[r]}

Saved ==
  /\ \A r \in Undo \cap ReadOnly : pci[r] = val[UndoVar]
  /\ TogglesLow /\ at[2] = 2 => val["reg"] = pci[LowReg]
  /\ OneBit /\ "hidden" \in seen => val["ctrl"] = Back("ctrl")
  /\ Two => \A i \in 1 .. 5 : at[2] > i => val[HiddenRegs[i]] = Back(HiddenRegs[i])
  /\ Two /\ at[2] \in {11, 14, 17} => val["reg"] = pci["ctrl"]
  /\ Two /\ at[2] = 20 => val["reg"] = pci["addr"]
  /\ Two /\ at[2] = 23 => val["reg"] = pci["tc"]

RegsInv == Cardinality(Lost) <= faults /\ Saved

-----------------------------------------------------------------------------
(* The channel try_simple_dma_operation opened and is about to close.      *)
Simple(c) == program = "z390" /\ at[1] = (IF c = 1 THEN 15 ELSE 16)
InFlight == {c \in {1, 3} : Simple(c) /\ at[2] > 5}
AllMasked == Two /\ at[2] \in 9 .. 26

AllOnes == [i \in Flip |-> Byte - 1]

(* A channel that was masked at the start and is open, other than for a    *)
(* moment.                                                                 *)
Strays == (Open \cap was.masked) \ InFlight

HeldInv ==
  /\ AllMasked => \A c \in Narrow : ch[c].mask
  /\ \A c \in {1, 3} : Simple(c) /\ at[2] \in 2 .. 5 => ch[c].mask

(* With the mask register readable, what the script saved of it is what it *)
(* is, but for channels that complete after.                               *)
MaskInv ==
  /\ Cardinality(Strays) <= faults
  /\ program = "h81" => Open \cap was.masked = {}
  /\ Two /\ at[2] > 7 => was.masked \subseteq val["mask"]
  /\ Two /\ at[2] \in 8 .. 26 => \A c \in Narrow \cap val["mask"] : ch[c].mask

(* A channel in use that is masked has completed, or is about to be opened *)
(* again, or an exception left all four masked.                            *)
AllLeftMasked == program = "h81" /\ faults > 0 /\ Ended /\ Open = {}
ClosedFor(c) == \/ c \in Open \/ ch[c].count = AllOnes \/ AllMasked
                \/ program = "z390" /\ c \in {1, 3}

CountInv ==
  /\ \A c \in InUse : ClosedFor(c) \/ AllLeftMasked
  /\ Two /\ at[2] \in 8 .. 26 => \A c \in InUse \cap val["mask"] : ch[c].count = AllOnes

(* Channel 2 has completed.                                                *)
Done2 == 2 \in InUse /\ ch[2].mask /\ ch[2].count = AllOnes

(* The command register is loaded with the status register toggled.        *)
CommandMoved == (H81At(1) /\ at[2] \in {3, 4}) \/ (H81At(17) /\ at[2] = 2)

(* Channel 2 was at its terminal count before the script began: the bit is *)
(* not yet read, or was read and is part of what is taken for the command  *)
(* register, or is in the command register, to be saved again.             *)
StaleBit == 2 \in was.done /\ H81At(1) /\ at[2] = 1
Stale == 2 \in was.done /\ ("hidden" \notin seen \/ at[1] < 17)
StaleLeft == 2 \in was.done /\ H81At(17) /\ at[2] = 1

LatePart == Ended \/ (Two /\ at[2] > 7)

CommandInv ==
  /\ program = "z390" => command = {}
  /\ program = "h81" /\ faults = 0 =>
       /\ ~raised
       /\ 2 \in val["cmd"] => Done2 \/ Stale
       /\ 2 \in command => Done2 \/ CommandMoved \/ Stale \/ StaleLeft
       /\ Two /\ at[2] > 7 /\ 2 \in val["cmd"] => 2 \in val["mask"]
       /\ Two /\ at[2] = 26 /\ 2 \in command => 2 \in val["cmd"]
       /\ ch[2].tc => Done2 \/ StaleBit \/ LatePart


-----------------------------------------------------------------------------
(* The scripts, task by task.                                              *)

LEMMA Z390Tasks ==
  /\ Len(Z390) = 16
  /\ \A i \in 1 .. 7 : \E c \in 0 .. 7 : Z390[i] = check_for_dma_residue(c)
  /\ Z390[8] = Caught(<<FindLpc>>)
  /\ \A i \in 9 .. 14 : Z390[i] = CaughtIf("lpc", ToggleLowBit(LpcRegs[i - 8]))
  /\ Z390[15] = try_simple_dma_operation(1) /\ Z390[16] = try_simple_dma_operation(3)
<1>1. \A i \in 1 .. 7 : Z390[i] = check_for_dma_residue(<<0, 1, 2, 3, 5, 6, 7>>[i])
  BY DEF Z390, test_lpc_dma_specific
<1>2. \A i \in 1 .. 7 : <<0, 1, 2, 3, 5, 6, 7>>[i] \in 0 .. 7
  OBVIOUS
<1>3. \A i \in 1 .. 7 : \E c \in 0 .. 7 : Z390[i] = check_for_dma_residue(c)
  BY <1>1, <1>2
<1>4. Len(Z390) = 16 /\ Z390[8] = Caught(<<FindLpc>>)
  BY DEF Z390, test_lpc_dma_specific
<1>5. \A i \in 9 .. 14 : Z390[i] = CaughtIf("lpc", ToggleLowBit(LpcRegs[i - 8]))
  <2> DEFINE F == <<Caught(<<FindLpc>>)>>
             T == [i \in 1 .. 6 |-> CaughtIf("lpc", ToggleLowBit(LpcRegs[i]))]
  <2>1. test_lpc_dma_specific = F \o T
    BY DEF test_lpc_dma_specific, LpcRegs
  <2>2. \A i \in 2 .. 7 : (F \o T)[i] = T[i - 1]
    OBVIOUS
  <2>3. \A i \in 9 .. 14 : Z390[i] = (F \o T)[i - 7]
    BY <2>1 DEF Z390
  <2>4. \A i \in 9 .. 14 : T[i - 8] = CaughtIf("lpc", ToggleLowBit(LpcRegs[i - 8]))
    OBVIOUS
  <2> HIDE DEF F, T
  <2>5. \A i \in 9 .. 14 : i - 7 \in 2 .. 7 /\ i - 7 - 1 = i - 8
    OBVIOUS
  <2>6. \A i \in 9 .. 14 : Z390[i] = T[i - 8]
    BY <2>2, <2>3, <2>5
  <2>7. QED
    BY <2>4, <2>6, Zenon
<1>6. Z390[15] = try_simple_dma_operation(1) /\ Z390[16] = try_simple_dma_operation(3)
  BY DEF Z390, test_lpc_dma_specific
<1>7. QED
  BY <1>3, <1>4, <1>5, <1>6

LEMMA H81Tasks ==
  /\ Len(H81) = 18
  /\ H81[1] = test_traditional_dma_regs
  /\ \A i \in 2 .. 6 : H81[i] = Caught(ToggleLowBit(LpcRegs[i - 1]))
  /\ H81[7] = Bare(<<Load("ctrl", "ctrl")>>)
  /\ \A i \in 8 .. 15 : H81[i] = WithFinally(<<Toggled("ctrl", "ctrl", i - 8), In(StatReg), Store("ctrl", "ctrl")>>)
  /\ H81[16] = Bare(<<Load("command", "cmd")>>)
  /\ H81[17] = WithFinally(<<Toggled("command", "cmd", 2), Store("command", "cmd")>>)
  /\ H81[18] = safer_dma_test_two
<1>1. \A i \in 2 .. 6 : LpcRegs[i - 1] = HiddenRegs[i - 1]
  BY DEF LpcRegs, HiddenRegs
<1>2. \A i \in 2 .. 6 : H81[i] = Caught(ToggleLowBit(HiddenRegs[i - 1]))
  BY DEF H81, test_h81_dma_registers, safer_dma_test
<1>3. \A i \in 8 .. 15 : H81[i] = WithFinally(<<Toggled("ctrl", "ctrl", i - 8), In(StatReg), Store("ctrl", "ctrl")>>)
  BY DEF H81, test_h81_dma_registers, safer_dma_test
<1>4. QED
  BY <1>1, <1>2, <1>3 DEF H81, test_h81_dma_registers, safer_dma_test

LEMMA TwoSteps ==
  LET s == safer_dma_test_two.steps IN
  /\ Len(s) = 31
  /\ \A i \in 1 .. 5 : s[i] = Load(HiddenRegs[i], HiddenRegs[i])
  /\ s[6] = Load("command", "cmd") /\ s[7] = Load("maskall", "mask")
  /\ s[8] = Put("maskall", Narrow) /\ s[9] = Out(ModeReg, 69)
  /\ \A i \in {10, 13, 16} : s[i] = Load("ctrl", "reg") /\ s[i + 2] = Store("ctrl", "reg")
  /\ s[11] = Toggled("ctrl", "reg", 8) /\ s[14] = Toggled("ctrl", "reg", 16) /\ s[17] = Toggled("ctrl", "reg", 24)
  /\ s[19] = Load("addr", "reg") /\ s[20] = Put("addr", Pattern) /\ s[21] = Store("addr", "reg")
  /\ s[22] = Load("tc", "reg") /\ s[23] = Put("tc", Pattern) /\ s[24] = Store("tc", "reg")
  /\ s[25] = Store("command", "cmd") /\ s[26] = Store("maskall", "mask")
  /\ \A i \in 27 .. 31 : s[i] = Store(HiddenRegs[i - 26], HiddenRegs[i - 26])
BY DEF safer_dma_test_two, CaughtIf, Task, SafeBit, TestPattern

(* Where a script that has not ended is.                                   *)
ResidueTask  == program = "z390" /\ at[1] \in 1 .. 7 /\ at[2] \in 1 .. 4
                /\ \E c \in 0 .. 7 : Now = check_for_dma_residue(c)
FindTask     == program = "z390" /\ at[1] = 8 /\ at[2] = 1 /\ Now = Caught(<<FindLpc>>)
LowTask      == TogglesLow /\ LowReg \in PciRegs /\ at[2] \in 1 .. 3
                /\ Now \in {Caught(ToggleLowBit(LowReg)), CaughtIf("lpc", ToggleLowBit(LowReg))}
SimpleTask(c) == Simple(c) /\ at[2] \in 1 .. 8 /\ Now = try_simple_dma_operation(c)
OldTask      == H81At(1) /\ at[2] \in 1 .. 5 /\ Now = test_traditional_dma_regs
CtrlTask     == H81At(7) /\ at[2] = 1 /\ Now = Bare(<<Load("ctrl", "ctrl")>>)
BitTask      == OneBit /\ at[2] \in 1 .. 3
                /\ \E b \in 0 .. 7 :
                     Now = WithFinally(<<Toggled("ctrl", "ctrl", b), In(StatReg), Store("ctrl", "ctrl")>>)
CommandTask  == H81At(16) /\ at[2] = 1 /\ Now = Bare(<<Load("command", "cmd")>>)
DisableTask  == H81At(17) /\ at[2] \in 1 .. 2
                /\ Now = WithFinally(<<Toggled("command", "cmd", 2), Store("command", "cmd")>>)
TwoTask      == Two /\ at[2] \in 1 .. 31 /\ Now = safer_dma_test_two

LEMMA Where ==
  ASSUME ShapeInv, ~Ended
  PROVE  \/ ResidueTask \/ FindTask \/ LowTask \/ SimpleTask(1) \/ SimpleTask(3)
         \/ OldTask \/ CtrlTask \/ BitTask \/ CommandTask \/ DisableTask \/ TwoTask
<1>1. program \in {"z390", "h81"} /\ at[1] \in Nat /\ at[1] >= 1 /\ at[2] \in Nat /\ at[2] >= 1
  BY DEF ShapeInv, ProbeTypeOK
<1>2. at[2] <= Len(Now.steps)
  BY DEF ShapeInv
<1>3. \A i \in 1 .. 6 : LpcRegs[i] \in PciRegs
  BY DEF LpcRegs, HiddenRegs, PciRegs
<1>4. CASE program = "z390"
  <2>1. Now = Z390[at[1]] /\ at[1] \in 1 .. 16
    <3>1. Script = Z390 /\ Len(Z390) = 16
      BY <1>4, Z390Tasks DEF Script
    <3>2. QED
      BY <1>1, <3>1 DEF Ended, Now
  <2>2. CASE at[1] \in 1 .. 7
    <3>1. PICK c \in 0 .. 7 : Now = check_for_dma_residue(c)
      BY <2>1, <2>2, Z390Tasks
    <3>2. Len(Now.steps) = 4
      BY <3>1 DEF check_for_dma_residue, Caught, Task
    <3>3. at[2] \in 1 .. 4
      BY <1>1, <1>2, <3>2
    <3>4. QED
      BY <1>4, <2>2, <3>1, <3>3 DEF ResidueTask
  <2>3. CASE at[1] = 8
    <3>1. Now = Caught(<<FindLpc>>)
      BY <2>1, <2>3, Z390Tasks
    <3>2. Len(Now.steps) = 1
      BY <3>1 DEF Caught, Task
    <3>3. at[2] \in 1 .. 1
      BY <1>1, <1>2, <3>2
    <3>4. QED
      BY <1>4, <2>3, <3>1, <3>3 DEF FindTask
  <2>4. CASE at[1] \in 9 .. 14
    <3>1. LowReg = LpcRegs[at[1] - 8] /\ Now = CaughtIf("lpc", ToggleLowBit(LowReg))
      BY <1>4, <2>1, <2>4, Z390Tasks DEF LowReg
    <3>2. Len(Now.steps) = 3
      BY <3>1 DEF CaughtIf, Task, ToggleLowBit
    <3>3. LowReg \in PciRegs
      BY <1>3, <2>4, <3>1
    <3>4. at[2] \in 1 .. 3
      BY <1>1, <1>2, <3>2
    <3>5. QED
      BY <1>4, <2>4, <3>1, <3>3, <3>4 DEF LowTask, TogglesLow
  <2>5. CASE at[1] = 15
    <3>1. Now = try_simple_dma_operation(1)
      BY <2>1, <2>5, Z390Tasks
    <3>2. Len(Now.steps) = 8
      BY <3>1 DEF try_simple_dma_operation, Caught, Task
    <3>3. at[2] \in 1 .. 8
      BY <1>1, <1>2, <3>2
    <3>4. QED
      BY <1>4, <2>5, <3>1, <3>3 DEF SimpleTask, Simple
  <2>6. CASE at[1] = 16
    <3>1. Now = try_simple_dma_operation(3)
      BY <2>1, <2>6, Z390Tasks
    <3>2. Len(Now.steps) = 8
      BY <3>1 DEF try_simple_dma_operation, Caught, Task
    <3>3. at[2] \in 1 .. 8
      BY <1>1, <1>2, <3>2
    <3>4. QED
      BY <1>4, <2>6, <3>1, <3>3 DEF SimpleTask, Simple
  <2>7. QED
    BY <2>1, <2>2, <2>3, <2>4, <2>5, <2>6
<1>5. CASE program = "h81"
  <2>1. Now = H81[at[1]] /\ at[1] \in 1 .. 18 /\ program # "z390"
    <3>1. Script = H81 /\ Len(H81) = 18 /\ program # "z390"
      BY <1>5, H81Tasks DEF Script
    <3>2. QED
      BY <1>1, <3>1 DEF Ended, Now
  <2>2. CASE at[1] = 1
    <3>1. Now = test_traditional_dma_regs
      BY <2>1, <2>2, H81Tasks
    <3>2. Len(Now.steps) = 5
      BY <3>1 DEF test_traditional_dma_regs, Caught, Task
    <3>3. at[2] \in 1 .. 5
      BY <1>1, <1>2, <3>2
    <3>4. QED
      BY <1>5, <2>2, <3>1, <3>3 DEF OldTask, H81At
  <2>3. CASE at[1] \in 2 .. 6
    <3>1. LowReg = LpcRegs[at[1] - 1] /\ Now = Caught(ToggleLowBit(LowReg))
      BY <2>1, <2>3, H81Tasks DEF LowReg
    <3>2. Len(Now.steps) = 3
      BY <3>1 DEF Caught, Task, ToggleLowBit
    <3>3. LowReg \in PciRegs
      BY <1>3, <2>3, <3>1
    <3>4. at[2] \in 1 .. 3
      BY <1>1, <1>2, <3>2
    <3>5. QED
      BY <1>5, <2>3, <3>1, <3>3, <3>4 DEF LowTask, TogglesLow
  <2>4. CASE at[1] = 7
    <3>1. Now = Bare(<<Load("ctrl", "ctrl")>>)
      BY <2>1, <2>4, H81Tasks
    <3>2. Len(Now.steps) = 1
      BY <3>1 DEF Bare, Task
    <3>3. at[2] \in 1 .. 1
      BY <1>1, <1>2, <3>2
    <3>4. QED
      BY <1>5, <2>4, <3>1, <3>3 DEF CtrlTask, H81At
  <2>5. CASE at[1] \in 8 .. 15
    <3>1. PICK b \in 0 .. 7 : Now = WithFinally(<<Toggled("ctrl", "ctrl", b), In(StatReg), Store("ctrl", "ctrl")>>)
      <4>1. at[1] - 8 \in 0 .. 7
        BY <2>5
      <4>2. QED
        BY <2>1, <2>5, <4>1, H81Tasks
    <3>2. Len(Now.steps) = 3
      BY <3>1 DEF WithFinally, Task
    <3>3. at[2] \in 1 .. 3
      BY <1>1, <1>2, <3>2
    <3>4. QED
      BY <1>5, <2>5, <3>1, <3>3 DEF BitTask, OneBit
  <2>6. CASE at[1] = 16
    <3>1. Now = Bare(<<Load("command", "cmd")>>)
      BY <2>1, <2>6, H81Tasks
    <3>2. Len(Now.steps) = 1
      BY <3>1 DEF Bare, Task
    <3>3. at[2] \in 1 .. 1
      BY <1>1, <1>2, <3>2
    <3>4. QED
      BY <1>5, <2>6, <3>1, <3>3 DEF CommandTask, H81At
  <2>7. CASE at[1] = 17
    <3>1. Now = WithFinally(<<Toggled("command", "cmd", 2), Store("command", "cmd")>>)
      BY <2>1, <2>7, H81Tasks
    <3>2. Len(Now.steps) = 2
      BY <3>1 DEF WithFinally, Task
    <3>3. at[2] \in 1 .. 2
      BY <1>1, <1>2, <3>2
    <3>4. QED
      BY <1>5, <2>7, <3>1, <3>3 DEF DisableTask, H81At
  <2>8. CASE at[1] = 18
    <3>1. Now = safer_dma_test_two
      BY <2>1, <2>8, H81Tasks
    <3>2. QED
      BY <1>1, <1>2, <1>5, <2>8, <3>1, TwoSteps DEF TwoTask, Two, H81At
  <2>9. QED
    BY <2>1, <2>2, <2>3, <2>4, <2>5, <2>6, <2>7, <2>8
<1>6. QED
  BY <1>1, <1>4, <1>5

(* The access the script is at.                                            *)
LEMMA EarlyAccess ==
  ASSUME ~Ended
  PROVE  /\ ResidueTask => \/ at[2] = 1 /\ Access \in {Out(12, 0), Out(204, 0)}
                           \/ at[2] > 1 /\ \E p : Access = In(p)
         /\ FindTask => Access = FindLpc
         /\ LowTask => \/ at[2] = 1 /\ Access = Peek(LowReg, "reg")
                       \/ at[2] = 2 /\ Access = Toggled(LowReg, "reg", 0)
                       \/ at[2] = 3 /\ Access = Store(LowReg, "reg")
<1>1. ASSUME ResidueTask
      PROVE  \/ at[2] = 1 /\ Access \in {Out(12, 0), Out(204, 0)}
             \/ at[2] > 1 /\ \E p : Access = In(p)
  <2>1. PICK c \in 0 .. 7 : Now = check_for_dma_residue(c)
    BY <1>1 DEF ResidueTask
  <2>2. at[2] \in {1, 2, 3, 4}
    BY <1>1 DEF ResidueTask
  <2>3. Base(c) + ClearReg \in {12, 204}
    BY DEF Base, ClearReg
  <2>4. at[2] = 1 => Access = Out(Base(c) + ClearReg, 0)
    BY <2>1 DEF Access, check_for_dma_residue, Caught, Task
  <2>5. at[2] \in {2, 3} => Access = In(ResidueCount(c))
    BY <2>1 DEF Access, check_for_dma_residue, Caught, Task
  <2>6. at[2] = 4 => Access = In(Base(c) + StatReg)
    BY <2>1 DEF Access, check_for_dma_residue, Caught, Task
  <2>7. QED
    BY <2>2, <2>3, <2>4, <2>5, <2>6
<1>2. ASSUME FindTask PROVE Access = FindLpc
  BY <1>2 DEF FindTask, Access, Caught, Task
<1>3. ASSUME LowTask
      PROVE  \/ at[2] = 1 /\ Access = Peek(LowReg, "reg")
             \/ at[2] = 2 /\ Access = Toggled(LowReg, "reg", 0)
             \/ at[2] = 3 /\ Access = Store(LowReg, "reg")
  <2>1. Now.steps = ToggleLowBit(LowReg) /\ at[2] \in {1, 2, 3}
    BY <1>3 DEF LowTask, Caught, CaughtIf, Task
  <2>2. QED
    BY <2>1 DEF Access, ToggleLowBit
<1>4. QED
  BY <1>1, <1>2, <1>3

LEMMA SimpleAccess ==
  ASSUME ~Ended, NEW c \in {1, 3}, SimpleTask(c)
  PROVE  \/ at[2] \in {1, 8} /\ Access = Out(MaskReg, 4 + c)
         \/ at[2] = 2 /\ Access = Out(ClearReg, 0)
         \/ at[2] \in {3, 7} /\ Access = In(StatReg)
         \/ at[2] = 4 /\ Access = Out(ModeReg, 64 + 8 + c)
         \/ at[2] = 5 /\ Access = Out(MaskReg, c)
         \/ at[2] = 6 /\ Access = Out(RequestReg, 4 + c)
<1>1. at[2] \in {1, 2, 3, 4, 5, 6, 7, 8} /\ Now = try_simple_dma_operation(c)
  BY DEF SimpleTask
<1>2. QED
  BY <1>1 DEF Access, try_simple_dma_operation, Caught, Task

LEMMA H81Access ==
  ASSUME ~Ended
  PROVE  /\ OldTask => \/ at[2] = 1 /\ Access = Load("command", "cmd")
                       \/ at[2] = 2 /\ Access = Toggled("command", "cmd", 2)
                       \/ at[2] \in {3, 5} /\ Access = In(StatReg)
                       \/ at[2] = 4 /\ Access = Store("command", "cmd")
         /\ CtrlTask => Access = Load("ctrl", "ctrl")
         /\ BitTask => \/ at[2] = 1 /\ \E b \in 0 .. 7 : Access = Toggled("ctrl", "ctrl", b)
                       \/ at[2] = 2 /\ Access = In(StatReg)
                       \/ at[2] = 3 /\ Access = Store("ctrl", "ctrl")
         /\ CommandTask => Access = Load("command", "cmd")
         /\ DisableTask => \/ at[2] = 1 /\ Access = Toggled("command", "cmd", 2)
                           \/ at[2] = 2 /\ Access = Store("command", "cmd")
<1>1. ASSUME OldTask
      PROVE  \/ at[2] = 1 /\ Access = Load("command", "cmd")
             \/ at[2] = 2 /\ Access = Toggled("command", "cmd", 2)
             \/ at[2] \in {3, 5} /\ Access = In(StatReg)
             \/ at[2] = 4 /\ Access = Store("command", "cmd")
  <2>1. at[2] \in {1, 2, 3, 4, 5} /\ Now = test_traditional_dma_regs
    BY <1>1 DEF OldTask
  <2>2. QED
    BY <2>1 DEF Access, test_traditional_dma_regs, Caught, Task
<1>2. ASSUME CtrlTask PROVE Access = Load("ctrl", "ctrl")
  BY <1>2 DEF CtrlTask, Access, Bare, Task
<1>3. ASSUME BitTask
      PROVE  \/ at[2] = 1 /\ \E b \in 0 .. 7 : Access = Toggled("ctrl", "ctrl", b)
             \/ at[2] = 2 /\ Access = In(StatReg)
             \/ at[2] = 3 /\ Access = Store("ctrl", "ctrl")
  <2>1. PICK b \in 0 .. 7 : Now = WithFinally(<<Toggled("ctrl", "ctrl", b), In(StatReg), Store("ctrl", "ctrl")>>)
    BY <1>3 DEF BitTask
  <2>2. at[2] \in {1, 2, 3}
    BY <1>3 DEF BitTask
  <2>3. QED
    BY <2>1, <2>2 DEF Access, WithFinally, Task
<1>4. ASSUME CommandTask PROVE Access = Load("command", "cmd")
  BY <1>4 DEF CommandTask, Access, Bare, Task
<1>5. ASSUME DisableTask
      PROVE  \/ at[2] = 1 /\ Access = Toggled("command", "cmd", 2)
             \/ at[2] = 2 /\ Access = Store("command", "cmd")
  <2>1. at[2] \in {1, 2}
    BY <1>5 DEF DisableTask
  <2>2. QED
    BY <1>5, <2>1 DEF DisableTask, Access, WithFinally, Task
<1>6. QED
  BY <1>1, <1>2, <1>3, <1>4, <1>5

LEMMA TwoAccess ==
  ASSUME ~Ended, TwoTask
  PROVE  \/ at[2] \in 1 .. 5 /\ Access = Load(HiddenRegs[at[2]], HiddenRegs[at[2]])
         \/ at[2] = 6 /\ Access = Load("command", "cmd")
         \/ at[2] = 7 /\ Access = Load("maskall", "mask")
         \/ at[2] = 8 /\ Access = Put("maskall", Narrow)
         \/ at[2] = 9 /\ Access = Out(ModeReg, 69)
         \/ at[2] \in {10, 13, 16} /\ Access = Load("ctrl", "reg")
         \/ at[2] \in {11, 14, 17} /\ \E b \in {8, 16, 24} : Access = Toggled("ctrl", "reg", b)
         \/ at[2] \in {12, 15, 18} /\ Access = Store("ctrl", "reg")
         \/ at[2] = 19 /\ Access = Load("addr", "reg")
         \/ at[2] = 20 /\ Access = Put("addr", Pattern)
         \/ at[2] = 21 /\ Access = Store("addr", "reg")
         \/ at[2] = 22 /\ Access = Load("tc", "reg")
         \/ at[2] = 23 /\ Access = Put("tc", Pattern)
         \/ at[2] = 24 /\ Access = Store("tc", "reg")
         \/ at[2] = 25 /\ Access = Store("command", "cmd")
         \/ at[2] = 26 /\ Access = Store("maskall", "mask")
         \/ at[2] \in 27 .. 31 /\ Access = Store(HiddenRegs[at[2] - 26], HiddenRegs[at[2] - 26])
<1>1. at[2] \in 1 .. 31 /\ Access = safer_dma_test_two.steps[at[2]]
  BY DEF TwoTask, Access
<1>2. CASE at[2] \in 1 .. 9
  <2>1. at[2] \in 1 .. 5 \/ at[2] = 6 \/ at[2] = 7 \/ at[2] = 8 \/ at[2] = 9
    BY <1>2
  <2>2. QED
    BY <1>1, <2>1, TwoSteps
<1>3. CASE at[2] \in 10 .. 18
  <2>1. at[2] \in {10, 13, 16} \/ at[2] \in {12, 15, 18} \/ at[2] = 11 \/ at[2] = 14 \/ at[2] = 17
    BY <1>3
  <2>2. at[2] \in {10, 13, 16} => Access = Load("ctrl", "reg")
    BY <1>1, TwoSteps
  <2>3. at[2] \in {12, 15, 18} => Access = Store("ctrl", "reg")
    <3>1. at[2] \in {12, 15, 18} => at[2] - 2 \in {10, 13, 16} /\ at[2] - 2 + 2 = at[2]
      OBVIOUS
    <3>2. QED
      BY <1>1, <3>1, TwoSteps
  <2>4. at[2] \in {11, 14, 17} => \E b \in {8, 16, 24} : Access = Toggled("ctrl", "reg", b)
    BY <1>1, TwoSteps
  <2>5. QED
    BY <2>1, <2>2, <2>3, <2>4
<1>4. CASE at[2] \in 19 .. 26
  <2>1. \/ at[2] = 19 \/ at[2] = 20 \/ at[2] = 21 \/ at[2] = 22 \/ at[2] = 23 \/ at[2] = 24 \/ at[2] = 25
        \/ at[2] = 26
    BY <1>4
  <2>2. QED
    BY <1>1, <2>1, TwoSteps
<1>5. CASE at[2] \in 27 .. 31
  BY <1>1, <1>5, TwoSteps
<1>6. QED
  BY <1>1, <1>2, <1>3, <1>4, <1>5

(* The same, operation by operation.                                       *)
LEMMA OutOps ==
  ASSUME ShapeInv, Ready("out")
  PROVE  \/ ResidueTask /\ at[2] = 1 /\ Access \in {Out(12, 0), Out(204, 0)}
         \/ \E c \in {1, 3} :
              /\ SimpleTask(c)
              /\ \/ at[2] \in {1, 8} /\ Access = Out(MaskReg, 4 + c)
                 \/ at[2] = 2 /\ Access = Out(ClearReg, 0)
                 \/ at[2] = 4 /\ Access = Out(ModeReg, 64 + 8 + c)
                 \/ at[2] = 5 /\ Access = Out(MaskReg, c)
                 \/ at[2] = 6 /\ Access = Out(RequestReg, 4 + c)
         \/ TwoTask /\ at[2] = 9 /\ Access = Out(ModeReg, 69)
<1>1. ~Ended /\ Access.op = "out"
  BY DEF Ready
<1>2. CASE ResidueTask
  BY <1>1, <1>2, EarlyAccess DEF In
<1>3. ~FindTask /\ ~LowTask
  BY <1>1, EarlyAccess DEF FindLpc, Peek, Toggled, Store
<1>4. ~OldTask /\ ~CtrlTask /\ ~BitTask /\ ~CommandTask /\ ~DisableTask
  BY <1>1, H81Access DEF Load, Toggled, Store, In
<1>5. ASSUME NEW c \in {1, 3}, SimpleTask(c)
      PROVE  \/ at[2] \in {1, 8} /\ Access = Out(MaskReg, 4 + c)
             \/ at[2] = 2 /\ Access = Out(ClearReg, 0)
             \/ at[2] = 4 /\ Access = Out(ModeReg, 64 + 8 + c)
             \/ at[2] = 5 /\ Access = Out(MaskReg, c)
             \/ at[2] = 6 /\ Access = Out(RequestReg, 4 + c)
  <2>1. \A p : Access # In(p)
    BY <1>1 DEF In
  <2>2. QED
    BY <1>1, <1>5, <2>1, SimpleAccess, Zenon
<1>6. CASE TwoTask
  <2>1. Access.op \notin {"load", "store", "put"}
    BY <1>1
  <2>2. at[2] = 9 /\ Access = Out(ModeReg, 69)
    BY <1>1, <1>6, <2>1, TwoAccess DEF Load, Store, Put, Toggled
  <2>3. QED
    BY <1>6, <2>2
<1>7. QED
  BY <1>1, <1>2, <1>3, <1>4, <1>5, <1>6, Where

LEMMA InOps ==
  ASSUME ShapeInv, Ready("in")
  PROVE  \/ ResidueTask
         \/ \E c \in {1, 3} : SimpleTask(c) /\ at[2] \in {3, 7}
         \/ OldTask /\ at[2] \in {3, 5}
         \/ BitTask /\ at[2] = 2
<1>1. ~Ended /\ Access.op = "in"
  BY DEF Ready
<1>2. ~FindTask /\ ~LowTask
  BY <1>1, EarlyAccess DEF FindLpc, Peek, Toggled, Store
<1>3. /\ OldTask => at[2] \in {3, 5}
      /\ BitTask => at[2] = 2
      /\ ~CtrlTask /\ ~CommandTask /\ ~DisableTask
  BY <1>1, H81Access DEF Load, Toggled, Store
<1>4. \A c \in {1, 3} : SimpleTask(c) => at[2] \in {3, 7}
  <2>1. \A p, v : Access # Out(p, v)
    BY <1>1 DEF Out
  <2>2. QED
    BY <1>1, <2>1, SimpleAccess
<1>5. ~TwoTask
  BY <1>1, TwoAccess DEF Load, Store, Put, Toggled, Out
<1>6. QED
  BY <1>1, <1>2, <1>3, <1>4, <1>5, Where

LEMMA LoadOps ==
  ASSUME ShapeInv, Ready("load")
  PROVE  \/ OldTask /\ at[2] = 1 /\ Access = Load("command", "cmd")
         \/ CtrlTask /\ Access = Load("ctrl", "ctrl")
         \/ CommandTask /\ Access = Load("command", "cmd")
         \/ TwoTask /\ at[2] \in 1 .. 5 /\ Access = Load(HiddenRegs[at[2]], HiddenRegs[at[2]])
         \/ TwoTask /\ at[2] = 6 /\ Access = Load("command", "cmd")
         \/ TwoTask /\ at[2] = 7 /\ Access = Load("maskall", "mask")
         \/ TwoTask /\ at[2] \in {10, 13, 16} /\ Access = Load("ctrl", "reg")
         \/ TwoTask /\ at[2] = 19 /\ Access = Load("addr", "reg")
         \/ TwoTask /\ at[2] = 22 /\ Access = Load("tc", "reg")
<1>1. ~Ended /\ Access.op = "load"
  BY DEF Ready
<1>2. ~ResidueTask /\ ~FindTask /\ ~LowTask
  BY <1>1, EarlyAccess DEF FindLpc, Peek, Toggled, Store, Out, In
<1>3. ~SimpleTask(1) /\ ~SimpleTask(3)
  BY <1>1, SimpleAccess DEF Out, In
<1>4. /\ OldTask => at[2] = 1 /\ Access = Load("command", "cmd")
      /\ CtrlTask => Access = Load("ctrl", "ctrl")
      /\ CommandTask => Access = Load("command", "cmd")
      /\ ~BitTask /\ ~DisableTask
  BY <1>1, H81Access DEF In, Toggled, Store
<1>5. TwoTask =>
         \/ at[2] \in 1 .. 5 /\ Access = Load(HiddenRegs[at[2]], HiddenRegs[at[2]])
         \/ at[2] = 6 /\ Access = Load("command", "cmd")
         \/ at[2] = 7 /\ Access = Load("maskall", "mask")
         \/ at[2] \in {10, 13, 16} /\ Access = Load("ctrl", "reg")
         \/ at[2] = 19 /\ Access = Load("addr", "reg")
         \/ at[2] = 22 /\ Access = Load("tc", "reg")
  <2>1. /\ \A r, b : Access # Put(r, b)
        /\ \A p, v : Access # Out(p, v)
        /\ \A r, n : Access # Store(r, n)
        /\ \A r, n, b : Access # Toggled(r, n, b)
    BY <1>1 DEF Put, Out, Store, Toggled
  <2>2. QED
    BY <1>1, <2>1, TwoAccess, Zenon
<1>6. QED
  BY <1>1, <1>2, <1>3, <1>4, <1>5, Where

LEMMA StoreOps ==
  ASSUME ShapeInv, Ready("store")
  PROVE  \/ LowTask /\ at[2] = 2 /\ Access = Toggled(LowReg, "reg", 0)
         \/ LowTask /\ at[2] = 3 /\ Access = Store(LowReg, "reg")
         \/ OldTask /\ at[2] = 2 /\ Access = Toggled("command", "cmd", 2)
         \/ OldTask /\ at[2] = 4 /\ Access = Store("command", "cmd")
         \/ BitTask /\ at[2] = 1 /\ \E b \in 0 .. 7 : Access = Toggled("ctrl", "ctrl", b)
         \/ BitTask /\ at[2] = 3 /\ Access = Store("ctrl", "ctrl")
         \/ DisableTask /\ at[2] = 1 /\ Access = Toggled("command", "cmd", 2)
         \/ DisableTask /\ at[2] = 2 /\ Access = Store("command", "cmd")
         \/ TwoTask /\ at[2] \in {11, 14, 17} /\ \E b \in {8, 16, 24} : Access = Toggled("ctrl", "reg", b)
         \/ TwoTask /\ at[2] \in {12, 15, 18} /\ Access = Store("ctrl", "reg")
         \/ TwoTask /\ at[2] = 21 /\ Access = Store("addr", "reg")
         \/ TwoTask /\ at[2] = 24 /\ Access = Store("tc", "reg")
         \/ TwoTask /\ at[2] = 25 /\ Access = Store("command", "cmd")
         \/ TwoTask /\ at[2] = 26 /\ Access = Store("maskall", "mask")
         \/ TwoTask /\ at[2] \in 27 .. 31 /\ Access = Store(HiddenRegs[at[2] - 26], HiddenRegs[at[2] - 26])
<1>1. ~Ended /\ Access.op = "store"
  BY DEF Ready
<1>2. /\ \A r, n : Access # Load(r, n) /\ Access # Peek(r, n)
      /\ \A r, b : Access # Put(r, b) /\ Access # Out(r, b)
      /\ \A p : Access # In(p)
      /\ Access # FindLpc
  BY <1>1 DEF Load, Peek, Put, Out, In, FindLpc
<1>3. ~ResidueTask /\ ~FindTask
  BY <1>1, EarlyAccess DEF FindLpc, Out, In
<1>4. LowTask => \/ at[2] = 2 /\ Access = Toggled(LowReg, "reg", 0)
                 \/ at[2] = 3 /\ Access = Store(LowReg, "reg")
  BY <1>1, <1>2, EarlyAccess, Zenon
<1>5. ~SimpleTask(1) /\ ~SimpleTask(3)
  BY <1>1, SimpleAccess DEF Out, In
<1>6. /\ OldTask => \/ at[2] = 2 /\ Access = Toggled("command", "cmd", 2)
                    \/ at[2] = 4 /\ Access = Store("command", "cmd")
      /\ BitTask => \/ at[2] = 1 /\ \E b \in 0 .. 7 : Access = Toggled("ctrl", "ctrl", b)
                    \/ at[2] = 3 /\ Access = Store("ctrl", "ctrl")
      /\ DisableTask => \/ at[2] = 1 /\ Access = Toggled("command", "cmd", 2)
                        \/ at[2] = 2 /\ Access = Store("command", "cmd")
      /\ ~CtrlTask /\ ~CommandTask
  BY <1>1, <1>2, H81Access, Zenon
<1>7. TwoTask =>
         \/ at[2] \in {11, 14, 17} /\ \E b \in {8, 16, 24} : Access = Toggled("ctrl", "reg", b)
         \/ at[2] \in {12, 15, 18} /\ Access = Store("ctrl", "reg")
         \/ at[2] = 21 /\ Access = Store("addr", "reg")
         \/ at[2] = 24 /\ Access = Store("tc", "reg")
         \/ at[2] = 25 /\ Access = Store("command", "cmd")
         \/ at[2] = 26 /\ Access = Store("maskall", "mask")
         \/ at[2] \in 27 .. 31 /\ Access = Store(HiddenRegs[at[2] - 26], HiddenRegs[at[2] - 26])
  BY <1>1, <1>2, TwoAccess, Zenon
<1>8. LowTask \/ OldTask \/ BitTask \/ DisableTask \/ TwoTask
  BY <1>1, <1>3, <1>5, <1>6, Where
<1>9. CASE TwoTask
  BY <1>7, <1>9
<1>10. CASE LowTask
  BY <1>4, <1>10
<1>11. CASE OldTask \/ BitTask \/ DisableTask
  BY <1>6, <1>11
<1>12. QED
  BY <1>8, <1>9, <1>10, <1>11

LEMMA OtherOps ==
  ASSUME ShapeInv
  PROVE  /\ Ready("put") => \/ TwoTask /\ at[2] = 8 /\ Access = Put("maskall", Narrow)
                            \/ TwoTask /\ at[2] = 20 /\ Access = Put("addr", Pattern)
                            \/ TwoTask /\ at[2] = 23 /\ Access = Put("tc", Pattern)
         /\ Ready("peek") => LowTask /\ at[2] = 1 /\ Access = Peek(LowReg, "reg")
         /\ Ready("find") => FindTask
<1>1. ASSUME ~Ended, Access.op \in {"put", "peek", "find"}
      PROVE  /\ \A r, n : Access # Load(r, n) /\ Access # Store(r, n)
             /\ \A r, n, b : Access # Toggled(r, n, b)
             /\ \A p, v : Access # Out(p, v)
             /\ \A p : Access # In(p)
  BY <1>1 DEF Load, Store, Toggled, Out, In
<1>2. ASSUME ~Ended, Access.op \in {"put", "peek", "find"}
      PROVE  FindTask \/ LowTask \/ TwoTask
  <2>1. ~ResidueTask
    BY <1>1, <1>2, EarlyAccess
  <2>2. ~SimpleTask(1) /\ ~SimpleTask(3)
    BY <1>1, <1>2, SimpleAccess
  <2>3. ~OldTask /\ ~CtrlTask /\ ~BitTask /\ ~CommandTask /\ ~DisableTask
    BY <1>1, <1>2, H81Access, Zenon
  <2>4. QED
    BY <1>2, <2>1, <2>2, <2>3, Where
<1>3. ASSUME Ready("put")
      PROVE  \/ TwoTask /\ at[2] = 8 /\ Access = Put("maskall", Narrow)
             \/ TwoTask /\ at[2] = 20 /\ Access = Put("addr", Pattern)
             \/ TwoTask /\ at[2] = 23 /\ Access = Put("tc", Pattern)
  <2>1. ~Ended /\ Access.op = "put"
    BY <1>3 DEF Ready
  <2>2. ~FindTask /\ ~LowTask
    BY <2>1, EarlyAccess DEF FindLpc, Peek, Toggled, Store
  <2>3. TwoTask
    BY <1>2, <2>1, <2>2
  <2>4. QED
    BY <1>1, <2>1, <2>3, TwoAccess, Zenon
<1>4. ASSUME Ready("peek")
      PROVE  LowTask /\ at[2] = 1 /\ Access = Peek(LowReg, "reg")
  <2>1. ~Ended /\ Access.op = "peek"
    BY <1>4 DEF Ready
  <2>2. ~FindTask
    BY <2>1, EarlyAccess DEF FindLpc
  <2>3. \A r, b : Access # Put(r, b)
    BY <2>1 DEF Put
  <2>4. ~TwoTask
    BY <1>1, <2>1, <2>3, TwoAccess, Zenon
  <2>5. LowTask
    BY <1>2, <2>1, <2>2, <2>4
  <2>6. QED
    BY <1>1, <2>1, <2>5, EarlyAccess, Zenon
<1>5. ASSUME Ready("find")
      PROVE  FindTask
  <2>1. ~Ended /\ Access.op = "find"
    BY <1>5 DEF Ready
  <2>2. \A r, b : Access # Put(r, b) /\ Access # Peek(r, b)
    BY <2>1 DEF Put, Peek
  <2>3. ~TwoTask
    BY <1>1, <2>1, <2>2, TwoAccess, Zenon
  <2>4. ~LowTask
    BY <1>1, <2>1, <2>2, EarlyAccess, Zenon
  <2>5. QED
    BY <1>2, <2>1, <2>3, <2>4
<1>6. QED
  BY <1>3, <1>4, <1>5

-----------------------------------------------------------------------------
(* What an access does to the controllers.                                 *)

(* No register of a narrow channel changes, but for a terminal count read. *)
Quiet ==
  \A c \in Narrow : ch'[c] = ch[c] \/ ch'[c] = [ch[c] EXCEPT !.tc = FALSE]

LEMMA NarrowChannels ==
  /\ Narrow \subseteq Chan
  /\ \A c \in Narrow : Of(c) = 0
  /\ Narrow = {0, 1, 2, 3}
BY DEF Narrow, Chan, Of

LEMMA FixedPorts ==
  ASSUME NEW v
  PROVE  /\ PortWrite(12, v) => ClearFlipFlop(0)
         /\ PortWrite(204, v) => WriteAddr(7, v)
         /\ PortWrite(MaskReg, v) => WriteMask(0, v)
         /\ PortWrite(ModeReg, v) => WriteMode(0, v)
         /\ ~PortWrite(RequestReg, v)
<1>1. \A c \in Chan : /\ IoAddr(c) \in {0, 2, 4, 6, 192, 196, 200, 204}
                      /\ IoCount(c) \in {1, 3, 5, 7, 194, 198, 202, 206}
                      /\ IoPage(c) \in 129 .. 143
                      /\ IoAddr(c) = 204 => c = 7
  <2> TAKE c \in Chan
  <2>1. c \in {0, 1, 2, 3, 4, 5, 6, 7}
    BY DEF Chan
  <2>2. IoAddr(c) \in {0, 2, 4, 6, 192, 196, 200, 204} /\ (IoAddr(c) = 204 => c = 7)
    BY <2>1 DEF IoAddr, IoReg, Of
  <2>3. IoCount(c) \in {1, 3, 5, 7, 194, 198, 202, 206}
    BY <2>1 DEF IoCount, IoReg, Of
  <2>4. IoPage(c) \in 129 .. 143
    BY <2>1 DEF IoPage
  <2>5. QED
    BY <2>2, <2>3, <2>4
<1>2. \A k \in Ctrl : /\ IoReg(k, MaskReg) \in {10, 212} /\ (IoReg(k, MaskReg) = 10 => k = 0)
                      /\ IoReg(k, ModeReg) \in {11, 214} /\ (IoReg(k, ModeReg) = 11 => k = 0)
                      /\ IoReg(k, ClearReg) \in {12, 216} /\ (IoReg(k, ClearReg) = 12 => k = 0)
  BY DEF Ctrl, IoReg, MaskReg, ModeReg, ClearReg
<1>3. MaskReg = 10 /\ ModeReg = 11 /\ RequestReg = 9
  BY DEF MaskReg, ModeReg, RequestReg
<1>4. PortWrite(12, v) => ClearFlipFlop(0)
  BY <1>1, <1>2 DEF PortWrite
<1>5. PortWrite(204, v) => WriteAddr(7, v)
  BY <1>1, <1>2 DEF PortWrite
<1>6. PortWrite(10, v) => WriteMask(0, v)
  BY <1>1, <1>2 DEF PortWrite
<1>7. PortWrite(11, v) => WriteMode(0, v)
  BY <1>1, <1>2 DEF PortWrite
<1>8. ~PortWrite(9, v)
  BY <1>1, <1>2 DEF PortWrite
<1>9. QED
  BY <1>3, <1>4, <1>5, <1>6, <1>7, <1>8

(* The three kinds of OutPort that concern a narrow channel.               *)
Masking(c, b)  == ch' = [ch EXCEPT ![c].mask = b]
ModeSetting(c, m) == ch' = [ch EXCEPT ![c].mode = m]

LEMMA OutEffect ==
  ASSUME ShapeInv, OutPort
  PROVE  /\ DmaTypeOK'
         /\ \/ (ResidueTask \/ \E c \in {1, 3} : SimpleTask(c) /\ at[2] \in {2, 6}) /\ Quiet
            \/ \E c \in {1, 3} : SimpleTask(c) /\ at[2] \in {1, 8} /\ Masking(c, TRUE)
            \/ \E c \in {1, 3} : SimpleTask(c) /\ at[2] = 4 /\ ModeSetting(c, 72 + c)
            \/ \E c \in {1, 3} : SimpleTask(c) /\ at[2] = 5 /\ Masking(c, FALSE)
            \/ TwoTask /\ at[2] = 9 /\ ModeSetting(1, 69)
<1>1. Ready("out") /\ DmaTypeOK
  BY DEF OutPort, ShapeInv, ProbeTypeOK
<1>2. PortWrite(Access.port, Access.byte) \/ UNCHANGED dmaVars
  BY DEF OutPort
<1>3. UNCHANGED dmaVars => DmaTypeOK' /\ ch' = ch /\ Quiet
  BY <1>1 DEF dmaVars, DmaTypeOK, Quiet
<1>4. Decoded(10) /\ Decoded(11)
  BY DEF Decoded, IoReg, Ctrl, MaskReg, ModeReg
<1>5. 0 \in Chan /\ 7 \in Chan /\ Of(0) = 0 /\ Of(7) = 1 /\ 0 \in Data
  BY DataRange DEF Chan, Of
<1>6. CASE ResidueTask /\ Access \in {Out(12, 0), Out(204, 0)}
  <2>1. Access.port \in {12, 204} /\ Access.byte = 0
    BY <1>6 DEF Out
  <2>2. ASSUME ClearFlipFlop(0) PROVE DmaTypeOK' /\ Quiet
    BY <2>2, <1>1, <1>5, WriteTypes DEF ClearFlipFlop, Quiet
  <2>3. ASSUME WriteAddr(7, 0) PROVE DmaTypeOK' /\ Quiet
    <3>1. DmaTypeOK'
      BY <2>3, <1>1, <1>5, WriteTypes
    <3>2. \A c \in Narrow : ch'[c] = ch[c]
      BY <2>3, <1>1 DEF WriteAddr, Narrow, DmaTypeOK, Chan
    <3>3. QED
      BY <3>1, <3>2 DEF Quiet
  <2>4. QED
    BY <1>2, <1>3, <1>6, <2>1, <2>2, <2>3, FixedPorts
<1>7. ASSUME NEW c \in {1, 3}, SimpleTask(c), at[2] \in {2, 6},
             Access = Out(ClearReg, 0) \/ Access = Out(RequestReg, 4 + c)
      PROVE  DmaTypeOK' /\ Quiet
  <2>1. (Access.port = 12 /\ Access.byte = 0) \/ Access.port = RequestReg
    BY <1>7 DEF Out, ClearReg
  <2>2. ASSUME ClearFlipFlop(0) PROVE DmaTypeOK' /\ Quiet
    BY <2>2, <1>1, <1>5, WriteTypes DEF ClearFlipFlop, Quiet
  <2>3. QED
    BY <1>2, <1>3, <2>1, <2>2, FixedPorts
<1>8. ASSUME NEW v \in 0 .. 255, WriteMask(0, v), v % 4 \in Narrow
      PROVE  DmaTypeOK' /\ Masking(v % 4, (v \div 4) % 2 = 1)
  <2>1. Named(0, v) = v % 4
    BY DEF Named
  <2>2. DmaTypeOK'
    BY <1>8, <1>1, <1>5, WriteTypes
  <2>3. QED
    BY <1>8, <2>1, <2>2 DEF WriteMask, Masking
<1>9. ASSUME NEW v \in 0 .. 255, WriteMode(0, v)
      PROVE  DmaTypeOK' /\ ModeSetting(v % 4, v)
  <2>1. Named(0, v) = v % 4
    BY DEF Named
  <2>2. DmaTypeOK'
    BY <1>9, <1>1, <1>5, WriteTypes
  <2>3. QED
    BY <1>9, <2>1, <2>2 DEF WriteMode, ModeSetting
<1>10. ASSUME NEW v, Access = Out(MaskReg, v) PROVE WriteMask(0, v)
  <2>1. Access.port = 10 /\ Access.byte = v
    BY <1>10 DEF Out, MaskReg
  <2>2. PortWrite(10, v)
    BY <2>1, <1>4 DEF OutPort
  <2>3. QED
    BY <2>2, FixedPorts DEF MaskReg
<1>11. ASSUME NEW v, Access = Out(ModeReg, v) PROVE WriteMode(0, v)
  <2>1. Access.port = 11 /\ Access.byte = v
    BY <1>11 DEF Out, ModeReg
  <2>2. PortWrite(11, v)
    BY <2>1, <1>4 DEF OutPort
  <2>3. QED
    BY <2>2, FixedPorts DEF ModeReg
<1>12. ASSUME NEW c \in {1, 3}
       PROVE  /\ 4 + c \in 0 .. 255 /\ (4 + c) % 4 = c /\ ((4 + c) \div 4) % 2 = 1
              /\ c \in 0 .. 255 /\ c % 4 = c /\ ~((c \div 4) % 2 = 1)
              /\ 64 + 8 + c = 72 + c /\ 72 + c \in 0 .. 255 /\ (72 + c) % 4 = c
              /\ c \in Narrow
  BY DEF Narrow
<1>13. ASSUME NEW c \in {1, 3}, Access = Out(MaskReg, 4 + c) PROVE DmaTypeOK' /\ Masking(c, TRUE)
  <2>1. WriteMask(0, 4 + c)
    BY <1>10, <1>13
  <2>2. DmaTypeOK' /\ Masking((4 + c) % 4, ((4 + c) \div 4) % 2 = 1)
    BY <1>8, <1>12, <2>1
  <2>3. QED
    BY <1>12, <2>2
<1>14. ASSUME NEW c \in {1, 3}, Access = Out(MaskReg, c) PROVE DmaTypeOK' /\ Masking(c, FALSE)
  <2>1. WriteMask(0, c)
    BY <1>10, <1>14
  <2>2. DmaTypeOK' /\ Masking(c % 4, (c \div 4) % 2 = 1)
    BY <1>8, <1>12, <2>1
  <2>3. ((c \div 4) % 2 = 1) = FALSE
    BY <1>12
  <2>4. QED
    BY <1>12, <2>2, <2>3
<1>15. ASSUME NEW c \in {1, 3}, Access = Out(ModeReg, 64 + 8 + c) PROVE DmaTypeOK' /\ ModeSetting(c, 72 + c)
  <2>1. WriteMode(0, 72 + c)
    BY <1>11, <1>12, <1>15
  <2>2. QED
    BY <1>9, <1>12, <2>1
<1>16. ASSUME Access = Out(ModeReg, 69) PROVE DmaTypeOK' /\ ModeSetting(1, 69)
  <2>1. WriteMode(0, 69)
    BY <1>11, <1>16
  <2>2. 69 \in 0 .. 255 /\ 69 % 4 = 1
    OBVIOUS
  <2>3. QED
    BY <1>9, <2>1, <2>2
<1>17. QED
  BY <1>1, <1>6, <1>7, <1>13, <1>14, <1>15, <1>16, OutOps

LEMMA InEffect ==
  ASSUME ShapeInv, InPort
  PROVE  DmaTypeOK' /\ Quiet
<1>1. DmaTypeOK /\ ReadPort(Access.port)
  BY DEF InPort, ShapeInv, ProbeTypeOK
<1>2. CASE \E bits \in SUBSET Narrow : StatusRead(Access.port, bits)
  BY <1>1, <1>2, StatusTypes, NarrowChannels DEF Quiet
<1>3. ASSUME NEW c \in Chan, Toggle(Of(c)), ch' = ch PROVE DmaTypeOK' /\ Quiet
  <2>1. Of(c) \in Ctrl /\ ff[Of(c)] \in Flip /\ 1 - ff[Of(c)] \in Flip
    BY <1>1 DEF Of, Ctrl, DmaTypeOK, Flip
  <2>2. QED
    BY <1>1, <1>3, <2>1 DEF Toggle, DmaTypeOK, Quiet
<1>4. ASSUME UNCHANGED dmaVars PROVE DmaTypeOK' /\ Quiet
  BY <1>1, <1>4 DEF dmaVars, DmaTypeOK, Quiet
<1>5. QED
  BY <1>1, <1>2, <1>3, <1>4 DEF ReadPort

LEMMA LoadEffect ==
  ASSUME ShapeInv, LoadBits
  PROVE  /\ DmaTypeOK' /\ Quiet
         /\ \E bits \in SUBSET Bits :
              /\ val' = [val EXCEPT ![Access.var] = bits]
              /\ Access.loc \in PciRegs => bits = pci[Access.loc]
              /\ Access.loc = "command" => \A c \in Narrow : /\ c \in bits <=> ch[c].tc
                                                             /\ ~ch'[c].tc
              /\ Access.loc = "maskall" =>
                   ch' = ch /\ (MaskReadable => bits = {c \in Narrow : ch[c].mask})
<1>1. DmaTypeOK /\ pci \in [PciRegs -> SUBSET Bits] /\ 0 .. 31 \subseteq Bits
  BY ProbeAssumption DEF ShapeInv, ProbeTypeOK
<1>2. PICK bits \in Domain(Access.loc) : ReadBits(Access.loc, bits) /\ val' = [val EXCEPT ![Access.var] = bits]
  BY DEF LoadBits
<1>3. {"command", "maskall"} \cap PciRegs = {}
  BY DEF PciRegs
<1>4. CASE Access.loc \in PciRegs
  <2>1. bits = pci[Access.loc] /\ UNCHANGED dmaVars
    BY <1>2, <1>3, <1>4 DEF ReadBits
  <2>2. bits \in SUBSET Bits
    BY <1>1, <1>4, <2>1
  <2>3. DmaTypeOK' /\ Quiet
    BY <1>1, <2>1 DEF dmaVars, DmaTypeOK, Quiet
  <2>4. QED
    BY <1>2, <1>3, <1>4, <2>1, <2>2, <2>3
<1>5. CASE Access.loc = "command"
  <2>1. StatusRead(StatReg, bits \cap Narrow)
    BY <1>2, <1>3, <1>5 DEF ReadBits
  <2>2. bits \in SUBSET (0 .. 7)
    BY <1>2, <1>3, <1>5 DEF Domain
  <2>3. DmaTypeOK' /\ Quiet
    BY <1>1, <2>1, StatusTypes, NarrowChannels DEF Quiet
  <2>4. PICK k \in Ctrl : /\ StatReg = IoReg(k, StatReg)
                          /\ bits \cap Narrow = {i \in 0 .. 3 : ch[4 * k + i].tc}
                          /\ ch' = [c \in Chan |-> IF Of(c) = k THEN [ch[c] EXCEPT !.tc = FALSE] ELSE ch[c]]
    BY <2>1 DEF StatusRead
  <2>5. k = 0
    BY <2>4 DEF IoReg, StatReg, Ctrl
  <2>6. \A c \in Narrow : (c \in bits <=> ch[c].tc)
    BY <2>4, <2>5 DEF Narrow
  <2>7. \A c \in Narrow : ch'[c] = [ch[c] EXCEPT !.tc = FALSE]
    BY <2>4, <2>5, NarrowChannels
  <2>8. \A c \in Narrow : ~ch'[c].tc
    <3>1. \A c \in Narrow : ch[c] \in Channel
      BY <1>1, NarrowChannels DEF DmaTypeOK
    <3>2. QED
      BY <2>7, <3>1 DEF Channel
  <2>9. bits \in SUBSET Bits
    BY <1>1, <2>2
  <2>10. QED
    BY <1>2, <1>3, <1>5, <2>3, <2>6, <2>8, <2>9
<1>6. CASE Access.loc = "maskall"
  <2>1. UNCHANGED dmaVars /\ (MaskReadable => bits = {c \in Narrow : ch[c].mask})
    BY <1>2, <1>3, <1>6 DEF ReadBits
  <2>2. bits \in SUBSET Bits
    BY <1>1, <1>2, <1>3, <1>6 DEF Domain, Narrow
  <2>3. DmaTypeOK' /\ Quiet
    BY <1>1, <2>1 DEF dmaVars, DmaTypeOK, Quiet
  <2>4. QED
    BY <1>2, <1>3, <1>6, <2>1, <2>2, <2>3 DEF dmaVars
<1>7. QED
  BY <1>2, <1>4, <1>5, <1>6 DEF ReadBits

(* Writing a bit-valued location.                                          *)
PciWritten(r, bits) == pci' = IF r \in ReadOnly THEN pci ELSE [pci EXCEPT ![r] = bits]

LEMMA WriteEffect ==
  ASSUME ShapeInv, NEW r, NEW bits, WriteBits(r, bits), bits \subseteq Bits
  PROVE  /\ DmaTypeOK' /\ pci' \in [PciRegs -> SUBSET Bits] /\ command' \subseteq 0 .. 7
         /\ r # "maskall" => ch' = ch
         /\ r \notin PciRegs => pci' = pci
         /\ r # "command" => command' = command
         /\ r \in PciRegs => PciWritten(r, bits)
         /\ r = "command" => command' = bits \cap (0 .. 7)
         /\ r = "maskall" => \A c \in Narrow : ch'[c] = [ch[c] EXCEPT !.mask = (c \in bits)]
<1>1. DmaTypeOK /\ pci \in [PciRegs -> SUBSET Bits] /\ command \subseteq 0 .. 7
  BY DEF ShapeInv, ProbeTypeOK
<1>2. "command" \notin PciRegs /\ "maskall" \notin PciRegs
  BY DEF PciRegs
<1>3. CASE r \in PciRegs /\ pci' = (IF r \in ReadOnly THEN pci ELSE [pci EXCEPT ![r] = bits])
             /\ UNCHANGED <<dmaVars, command>>
  BY <1>1, <1>2, <1>3 DEF dmaVars, DmaTypeOK, PciWritten
<1>4. CASE r = "command" /\ command' = bits \cap (0 .. 7) /\ UNCHANGED <<dmaVars, pci>>
  BY <1>1, <1>2, <1>4 DEF dmaVars, DmaTypeOK
<1>5. CASE /\ r = "maskall"
           /\ ch' = [c \in Chan |-> IF c \in Narrow THEN [ch[c] EXCEPT !.mask = (c \in bits)] ELSE ch[c]]
           /\ UNCHANGED <<ff, command, pci>>
  <2>1. \A q \in Channel : \A b \in BOOLEAN : [q EXCEPT !.mask = b] \in Channel
    BY DEF Channel
  <2>2. \A c \in Chan : ch[c] \in Channel /\ (c \in bits) \in BOOLEAN
    BY <1>1 DEF DmaTypeOK
  <2>3. \A c \in Chan : [ch[c] EXCEPT !.mask = (c \in bits)] \in Channel
    BY <2>1, <2>2
  <2>4. ch' \in [Chan -> Channel]
    BY <1>5, <2>2, <2>3
  <2>5. \A c \in Narrow : ch'[c] = [ch[c] EXCEPT !.mask = (c \in bits)]
    BY <1>5, NarrowChannels
  <2>6. QED
    BY <1>1, <1>2, <1>5, <2>4, <2>5 DEF DmaTypeOK
<1>6. QED
  BY <1>3, <1>4, <1>5 DEF WriteBits

LEMMA DeviceEffect ==
  ASSUME ShapeInv, Device
  PROVE  /\ DmaTypeOK' /\ 2 \notin command
         /\ \E c \in Narrow : ~ch[c].mask /\ ch' = [ch EXCEPT ![c] = Cycle(ch[c])]
<1>1. PICK c \in Narrow : Transfer(c)
  BY DEF Device
<1>2. DmaTypeOK' /\ ~ch[c].mask /\ ch' = [ch EXCEPT ![c] = Cycle(ch[c])]
  BY <1>1, TransferTypes, NarrowChannels DEF ShapeInv, ProbeTypeOK, Transfer, Granted
<1>3. QED
  BY <1>2 DEF Device

-----------------------------------------------------------------------------
(* Where the script goes next: on in the task, or to the first access of   *)
(* the next task, or to the end.                                           *)
GoesOn == at[2] < Len(Now.steps) /\ at' = <<at[1], at[2] + 1>>
Leaves == \E i \in {at[1] + 1, Len(Script) + 1} : at' = <<i, 1>>

LEMMA Positions ==
  ASSUME ShapeInv
  PROVE  /\ Len(Script) = IF program = "z390" THEN 16 ELSE 18
         /\ at[1] \in 1 .. Len(Script) + 1 /\ at[2] \in Nat /\ at[2] >= 1
         /\ program = "h81" \/ program = "z390"
<1>1. program \in {"z390", "h81"} /\ at \in (1 .. Len(Script) + 1) \X (Nat \ {0})
  BY DEF ShapeInv, ProbeTypeOK
<1>2. Len(Script) = IF program = "z390" THEN 16 ELSE 18
  BY <1>1, Z390Tasks, H81Tasks DEF Script
<1>3. QED
  BY <1>1, <1>2

LEMMA Lengths ==
  ASSUME ShapeInv, ~Ended
  PROVE  /\ Len(Now.steps) \in Nat /\ at[2] <= Len(Now.steps)
         /\ ResidueTask => Len(Now.steps) = 4
         /\ LowTask => Len(Now.steps) = 3
         /\ \A c \in {1, 3} : SimpleTask(c) => Len(Now.steps) = 8
         /\ OldTask => Len(Now.steps) = 5
         /\ BitTask => Len(Now.steps) = 3
         /\ FindTask \/ CtrlTask \/ CommandTask => Len(Now.steps) = 1
         /\ DisableTask => Len(Now.steps) = 2
         /\ TwoTask => Len(Now.steps) = 31
<1>1. ResidueTask => Len(Now.steps) = 4
  BY DEF ResidueTask, check_for_dma_residue, Caught, Task
<1>2. LowTask => Len(Now.steps) = 3
  BY DEF LowTask, Caught, CaughtIf, Task, ToggleLowBit
<1>3. \A c \in {1, 3} : SimpleTask(c) => Len(Now.steps) = 8
  BY DEF SimpleTask, try_simple_dma_operation, Caught, Task
<1>4. OldTask => Len(Now.steps) = 5
  BY DEF OldTask, test_traditional_dma_regs, Caught, Task
<1>5. BitTask => Len(Now.steps) = 3
  BY DEF BitTask, WithFinally, Task
<1>6. FindTask \/ CtrlTask \/ CommandTask => Len(Now.steps) = 1
  BY DEF FindTask, CtrlTask, CommandTask, Caught, Bare, Task
<1>7. DisableTask => Len(Now.steps) = 2
  BY DEF DisableTask, WithFinally, Task
<1>8. TwoTask => Len(Now.steps) = 31
  BY TwoSteps DEF TwoTask
<1>9. at[2] <= Len(Now.steps)
  BY DEF ShapeInv
<1>10. Len(Now.steps) \in Nat
  BY <1>1, <1>2, <1>3, <1>4, <1>5, <1>6, <1>7, <1>8, Where
<1>11. QED
  BY <1>1, <1>2, <1>3, <1>4, <1>5, <1>6, <1>7, <1>8, <1>9, <1>10

LEMMA NoEmptyTask ==
  ASSUME program \in {"z390", "h81"}, NEW i \in 1 .. Len(Script)
  PROVE  1 <= Len(Script[i].steps)
<1>1. CASE program = "z390"
  <2>1. Script[i] = Z390[i] /\ i \in 1 .. 16
    <3>1. Script = Z390 /\ Len(Z390) = 16
      BY <1>1, Z390Tasks DEF Script
    <3>2. QED
      BY <3>1
  <2>2. CASE i \in 1 .. 7
    <3>1. PICK c \in 0 .. 7 : Script[i] = check_for_dma_residue(c)
      BY <2>1, <2>2, Z390Tasks
    <3>2. QED
      BY <3>1 DEF check_for_dma_residue, Caught, Task
  <2>3. CASE i = 8
    <3>1. Script[i] = Caught(<<FindLpc>>)
      BY <2>1, <2>3, Z390Tasks
    <3>2. Script[i].steps = <<FindLpc>>
      BY <3>1 DEF Caught, Task
    <3>3. QED
      BY <3>2
  <2>4. CASE i \in 9 .. 14
    <3>1. Script[i] = CaughtIf("lpc", ToggleLowBit(LpcRegs[i - 8]))
      BY <2>1, <2>4, Z390Tasks
    <3>2. QED
      BY <3>1 DEF CaughtIf, Task, ToggleLowBit
  <2>5. CASE i \in {15, 16}
    <3>1. PICK c \in {1, 3} : Script[i] = try_simple_dma_operation(c)
      BY <2>1, <2>5, Z390Tasks
    <3>2. Len(Script[i].steps) = 8
      BY <3>1 DEF try_simple_dma_operation, Caught, Task
    <3>3. QED
      BY <3>2
  <2>6. QED
    BY <2>1, <2>2, <2>3, <2>4, <2>5
<1>2. CASE program = "h81"
  <2>1. Script[i] = H81[i] /\ i \in 1 .. 18
    <3>1. Script = H81 /\ Len(H81) = 18
      BY <1>2, H81Tasks DEF Script
    <3>2. QED
      BY <3>1
  <2>2. CASE i = 1
    <3>1. Script[i] = test_traditional_dma_regs
      BY <2>1, <2>2, H81Tasks
    <3>2. QED
      BY <3>1 DEF test_traditional_dma_regs, Caught, Task
  <2>3. CASE i \in 2 .. 6
    <3>1. Script[i] = Caught(ToggleLowBit(LpcRegs[i - 1]))
      BY <2>1, <2>3, H81Tasks
    <3>2. QED
      BY <3>1 DEF Caught, Task, ToggleLowBit
  <2>4. CASE i \in 8 .. 15
    <3>1. Script[i] = WithFinally(<<Toggled("ctrl", "ctrl", i - 8), In(StatReg), Store("ctrl", "ctrl")>>)
      BY <2>1, <2>4, H81Tasks
    <3>2. QED
      BY <3>1 DEF WithFinally, Task
  <2>5. CASE i \in {7, 16}
    <3>1. Script[i] = Bare(<<Load("ctrl", "ctrl")>>) \/ Script[i] = Bare(<<Load("command", "cmd")>>)
      BY <2>1, <2>5, H81Tasks
    <3>2. PICK x : Script[i].steps = <<x>>
      BY <3>1 DEF Bare, Task
    <3>3. Len(<<x>>) = 1
      OBVIOUS
    <3>4. Len(Script[i].steps) = 1
      BY <3>2, <3>3
    <3>5. QED
      BY <3>4
  <2>6. CASE i = 17
    <3>1. Script[i] = WithFinally(<<Toggled("command", "cmd", 2), Store("command", "cmd")>>)
      BY <2>1, <2>6, H81Tasks
    <3>2. QED
      BY <3>1 DEF WithFinally, Task
  <2>7. CASE i = 18
    BY <2>1, <2>7, H81Tasks, TwoSteps
  <2>8. QED
    BY <2>1, <2>2, <2>3, <2>4, <2>5, <2>6, <2>7
<1>3. QED
  BY <1>1, <1>2

LEMMA AdvanceMoves ==
  ASSUME ShapeInv, ~Ended, Advance
  PROVE  (GoesOn \/ Leaves) /\ raised' \in BOOLEAN
<1>1. raised \in BOOLEAN
  BY DEF ShapeInv, ProbeTypeOK
<1>2. QED
  BY <1>1 DEF Advance, GoesOn, Leaves, End, NextTask

LEMMA PositionKept ==
  ASSUME ShapeInv, ~Ended, program' = program, seen \subseteq seen',
         Now.needs \subseteq seen \/ Leaves,
         \/ GoesOn \/ Leaves
         \/ at' = <<at[1], Len(Now.steps)>>
  PROVE  /\ at' \in (1 .. Len(Script') + 1) \X (Nat \ {0})
         /\ ~Ended' => at'[2] <= Len(Now'.steps) /\ (at'[2] > 1 => Now'.needs \subseteq seen')
<1>1. Script' = Script
  BY DEF Script
<1>2. /\ program \in {"z390", "h81"} /\ at[1] \in Nat /\ at[1] >= 1 /\ at[2] \in Nat /\ at[2] >= 1
      /\ Len(Script) \in Nat /\ at[1] <= Len(Script)
  BY Positions DEF ShapeInv, ProbeTypeOK, Ended
<1>3. Len(Now.steps) \in Nat /\ at[2] <= Len(Now.steps)
  BY Lengths
<1>4. CASE GoesOn /\ ~Leaves
  <2>1. at' = <<at[1], at[2] + 1>> /\ at[2] + 1 <= Len(Now.steps)
    BY <1>2, <1>3, <1>4 DEF GoesOn
  <2>2. Now' = Now
    BY <1>1, <2>1 DEF Now
  <2>3. Now'.needs \subseteq seen'
    BY <1>4, <2>2
  <2>4. at[1] \in 1 .. Len(Script) + 1 /\ at[2] + 1 \in Nat \ {0}
    BY <1>2
  <2>5. at' \in (1 .. Len(Script') + 1) \X (Nat \ {0})
    BY <1>1, <2>1, <2>4
  <2>6. at'[2] <= Len(Now'.steps)
    BY <2>1, <2>2
  <2>7. QED
    BY <2>3, <2>5, <2>6
<1>5. CASE at' = <<at[1], Len(Now.steps)>> /\ ~Leaves
  <2>1. Now' = Now
    BY <1>1, <1>5 DEF Now
  <2>2. Now'.needs \subseteq seen'
    BY <1>5, <2>1
  <2>3. at' \in (1 .. Len(Script') + 1) \X (Nat \ {0})
    BY <1>1, <1>2, <1>3, <1>5
  <2>4. at'[2] <= Len(Now'.steps)
    BY <1>3, <1>5, <2>1
  <2>5. QED
    BY <2>2, <2>3, <2>4
<1>6. CASE Leaves
  <2>1. PICK i \in {at[1] + 1, Len(Script) + 1} : at' = <<i, 1>>
    BY <1>6 DEF Leaves
  <2>2. i \in 1 .. Len(Script) + 1
    BY <1>2, <2>1
  <2>3. ASSUME ~Ended' PROVE 1 <= Len(Now'.steps)
    <3>1. i \in 1 .. Len(Script)
      BY <1>1, <1>2, <2>1, <2>2, <2>3 DEF Ended
    <3>2. Now' = Script[i]
      BY <1>1, <2>1 DEF Now
    <3>3. QED
      BY <1>2, <3>1, <3>2, NoEmptyTask
  <2>4. at' \in (1 .. Len(Script') + 1) \X (Nat \ {0}) /\ at'[2] = 1
    BY <1>1, <2>1, <2>2
  <2>5. QED
    BY <2>3, <2>4
<1>7. QED
  BY <1>4, <1>5, <1>6

-----------------------------------------------------------------------------
(* Types.                                                                  *)

LEMMA QuietFields ==
  ASSUME DmaTypeOK, Quiet, NEW c \in Narrow
  PROVE  /\ ch'[c].mask = ch[c].mask /\ ch'[c].mode = ch[c].mode /\ ch'[c].count = ch[c].count
         /\ ch'[c].baseAddr = ch[c].baseAddr /\ ch'[c].baseCount = ch[c].baseCount
         /\ ch'[c].page = ch[c].page
         /\ ch'[c].tc => ch[c].tc
<1>1. ch[c] \in Channel
  BY NarrowChannels DEF DmaTypeOK
<1>2. CASE ch'[c] = ch[c]
  BY <1>2
<1>3. CASE ch'[c] = [ch[c] EXCEPT !.tc = FALSE]
  BY <1>1, <1>3 DEF Channel
<1>4. QED
  BY <1>2, <1>3 DEF Quiet

LEMMA StoreTypes ==
  ASSUME ShapeInv, Ready("store")
  PROVE  /\ Access.var \in Names /\ val[Access.var] \subseteq Bits
         /\ Xor(val[Access.var], Access.xor) \subseteq Bits
<1>1. \A i \in 1 .. 5 : HiddenRegs[i] \in Names
  BY DEF HiddenRegs, Names, PciRegs
<1>2. \A i \in 27 .. 31 : i - 26 \in 1 .. 5
  OBVIOUS
<1>3. {"reg", "cmd", "mask", "ctrl"} \subseteq Names
  BY DEF Names, PciRegs
<1>4. /\ \A r, n : Store(r, n).var = n /\ Store(r, n).xor = {}
      /\ \A r, n, b : Toggled(r, n, b).var = n /\ Toggled(r, n, b).xor = {b}
  BY DEF Store, Toggled
<1>5. \/ \E r, n : n \in Names /\ Access = Store(r, n)
      \/ \E r, n, b : n \in Names /\ b \in 0 .. 31 /\ Access = Toggled(r, n, b)
  <2>1. CASE \/ LowTask /\ at[2] = 2 /\ Access = Toggled(LowReg, "reg", 0)
             \/ OldTask /\ at[2] = 2 /\ Access = Toggled("command", "cmd", 2)
             \/ BitTask /\ at[2] = 1 /\ \E b \in 0 .. 7 : Access = Toggled("ctrl", "ctrl", b)
             \/ DisableTask /\ at[2] = 1 /\ Access = Toggled("command", "cmd", 2)
             \/ TwoTask /\ at[2] \in {11, 14, 17} /\ \E b \in {8, 16, 24} : Access = Toggled("ctrl", "reg", b)
    <3>1. \E r, n, b : n \in Names /\ b \in 0 .. 31 /\ Access = Toggled(r, n, b)
      BY <1>3, <2>1
    <3>2. QED
      BY <3>1
  <2>2. CASE \/ LowTask /\ at[2] = 3 /\ Access = Store(LowReg, "reg")
             \/ OldTask /\ at[2] = 4 /\ Access = Store("command", "cmd")
             \/ BitTask /\ at[2] = 3 /\ Access = Store("ctrl", "ctrl")
             \/ DisableTask /\ at[2] = 2 /\ Access = Store("command", "cmd")
             \/ TwoTask /\ at[2] \in {12, 15, 18} /\ Access = Store("ctrl", "reg")
             \/ TwoTask /\ at[2] = 21 /\ Access = Store("addr", "reg")
             \/ TwoTask /\ at[2] = 24 /\ Access = Store("tc", "reg")
             \/ TwoTask /\ at[2] = 25 /\ Access = Store("command", "cmd")
             \/ TwoTask /\ at[2] = 26 /\ Access = Store("maskall", "mask")
             \/ TwoTask /\ at[2] \in 27 .. 31 /\ Access = Store(HiddenRegs[at[2] - 26], HiddenRegs[at[2] - 26])
    <3>1. \E r, n : n \in Names /\ Access = Store(r, n)
      BY <1>1, <1>2, <1>3, <2>2
    <3>2. QED
      BY <3>1
  <2>3. QED
    BY <2>1, <2>2, StoreOps
<1>6. Access.var \in Names /\ Access.xor \subseteq 0 .. 31
  BY <1>4, <1>5
<1>7. val \in [Names -> SUBSET Bits] /\ 0 .. 31 \subseteq Bits
  BY ProbeAssumption DEF ShapeInv
<1>8. val[Access.var] \subseteq Bits
  BY <1>6, <1>7
<1>9. Xor(val[Access.var], Access.xor) \subseteq Bits
  BY <1>6, <1>7, <1>8 DEF Xor
<1>10. QED
  BY <1>6, <1>8, <1>9

LEMMA PutTypes ==
  ASSUME ShapeInv, Ready("put")
  PROVE  Access.bits \subseteq Bits
<1>1. Narrow \subseteq Bits /\ Pattern \subseteq Bits
  BY ProbeAssumption DEF Narrow
<1>2. \A r, b : Put(r, b).bits = b
  BY DEF Put
<1>3. Access = Put("maskall", Narrow) \/ Access = Put("addr", Pattern) \/ Access = Put("tc", Pattern)
  BY OtherOps
<1>4. QED
  BY <1>1, <1>2, <1>3

(* The variables that a step may disturb, one by one.                      *)
LEMMA ShapeFrom ==
  ASSUME ShapeInv, ~Ended, UNCHANGED <<program, was>>, DmaTypeOK',
         \A c \in Narrow : ch'[c].mode \in {0, 68 + c, 72 + c},
         command' \subseteq 0 .. 7, pci' \in [PciRegs -> SUBSET Bits],
         val' \in [Names -> SUBSET Bits], seen' \subseteq {"lpc", "hidden"},
         raised' \in BOOLEAN, faults' \in 0 .. MaxFaults,
         seen \subseteq seen', Now.needs \subseteq seen \/ Leaves,
         GoesOn \/ Leaves \/ at' = <<at[1], Len(Now.steps)>>
  PROVE  ShapeInv'
<1>1. /\ at' \in (1 .. Len(Script') + 1) \X (Nat \ {0})
      /\ ~Ended' => at'[2] <= Len(Now'.steps) /\ (at'[2] > 1 => Now'.needs \subseteq seen')
  BY PositionKept
<1>2. \A n \in DOMAIN val' : val'[n] \subseteq Bits
  OBVIOUS
<1>3. program \in {"z390", "h81"} /\ was.masked = Narrow \ InUse
  BY DEF ShapeInv, ProbeTypeOK
<1>4. ProbeTypeOK'
  BY <1>1, <1>2, <1>3 DEF ProbeTypeOK
<1>5. QED
  BY <1>1, <1>3, <1>4 DEF ShapeInv

LEMMA ShapeFacts ==
  ASSUME ShapeInv
  PROVE  /\ DmaTypeOK /\ command \subseteq 0 .. 7 /\ pci \in [PciRegs -> SUBSET Bits]
         /\ val \in [Names -> SUBSET Bits] /\ seen \subseteq {"lpc", "hidden"}
         /\ raised \in BOOLEAN /\ faults \in 0 .. MaxFaults
         /\ \A c \in Narrow : ch[c].mode \in {0, 68 + c, 72 + c}
         /\ \A c \in Narrow : ch[c] \in Channel
BY NarrowChannels DEF ShapeInv, ProbeTypeOK, DmaTypeOK

(* A record with a field set.                                              *)
LEMMA FieldsSet ==
  ASSUME DmaTypeOK, NEW c \in Narrow, NEW b \in BOOLEAN, NEW m
  PROVE  /\ Masking(c, b) => \A d \in Narrow : ch'[d] = IF d = c THEN [ch[d] EXCEPT !.mask = b] ELSE ch[d]
         /\ ModeSetting(c, m) => \A d \in Narrow : ch'[d] = IF d = c THEN [ch[d] EXCEPT !.mode = m] ELSE ch[d]
BY NarrowChannels DEF Masking, ModeSetting, DmaTypeOK

LEMMA OutShape ==
  ASSUME ShapeInv, OutPort
  PROVE  ShapeInv'
<1>1. ~Ended /\ Now.needs \subseteq seen /\ Advance /\ UNCHANGED <<scriptVars, command, pci, val, seen>>
  BY DEF OutPort, Ready
<1>2. (GoesOn \/ Leaves) /\ raised' \in BOOLEAN /\ DmaTypeOK'
  BY <1>1, AdvanceMoves, OutEffect
<1>3. \A c \in Narrow : ch[c] \in Channel /\ ch[c].mode \in {0, 68 + c, 72 + c}
  BY ShapeFacts
<1>4. \A c \in Narrow : ch'[c].mode \in {0, 68 + c, 72 + c}
  <2>1. CASE Quiet
    BY <1>3, <2>1, QuietFields, ShapeFacts
  <2>2. ASSUME NEW c \in {1, 3}, NEW b \in BOOLEAN, Masking(c, b)
        PROVE  \A d \in Narrow : ch'[d].mode \in {0, 68 + d, 72 + d}
    <3>1. c \in Narrow
      BY DEF Narrow
    <3>2. \A d \in Narrow : ch'[d] = IF d = c THEN [ch[d] EXCEPT !.mask = b] ELSE ch[d]
      BY <2>2, <3>1, FieldsSet, ShapeFacts
    <3>3. \A d \in Narrow : ch'[d].mode = ch[d].mode
      BY <1>3, <3>2 DEF Channel
    <3>4. QED
      BY <1>3, <3>3
  <2>3. ASSUME NEW c \in {1, 3}, NEW m \in {68 + c, 72 + c}, ModeSetting(c, m)
        PROVE  \A d \in Narrow : ch'[d].mode \in {0, 68 + d, 72 + d}
    <3>1. c \in Narrow
      BY DEF Narrow
    <3>2. \A d \in Narrow : ch'[d] = IF d = c THEN [ch[d] EXCEPT !.mode = m] ELSE ch[d]
      BY <2>3, <3>1, FieldsSet, ShapeFacts
    <3>3. \A d \in Narrow : ch'[d].mode = IF d = c THEN m ELSE ch[d].mode
      BY <1>3, <3>2 DEF Channel
    <3>4. QED
      BY <1>3, <2>3, <3>3
  <2>4. 69 \in {68 + 1, 72 + 1} /\ 1 \in {1, 3}
    OBVIOUS
  <2>5. CASE TwoTask /\ at[2] = 9 /\ ModeSetting(1, 69)
    BY <2>3, <2>4, <2>5
  <2>6. CASE \/ \E c \in {1, 3} : SimpleTask(c) /\ at[2] \in {1, 8} /\ Masking(c, TRUE)
             \/ \E c \in {1, 3} : SimpleTask(c) /\ at[2] = 5 /\ Masking(c, FALSE)
    BY <2>2, <2>6
  <2>7. CASE \E c \in {1, 3} : SimpleTask(c) /\ at[2] = 4 /\ ModeSetting(c, 72 + c)
    BY <2>3, <2>7
  <2>8. QED
    BY <2>1, <2>5, <2>6, <2>7, OutEffect
<1>5. QED
  BY <1>1, <1>2, <1>4, ShapeFacts, ShapeFrom DEF scriptVars

LEMMA InShape ==
  ASSUME ShapeInv, InPort
  PROVE  ShapeInv'
<1>1. ~Ended /\ Now.needs \subseteq seen /\ Advance /\ UNCHANGED <<scriptVars, command, pci, val, seen>>
  BY DEF InPort, Ready
<1>2. (GoesOn \/ Leaves) /\ raised' \in BOOLEAN /\ DmaTypeOK' /\ Quiet
  BY <1>1, AdvanceMoves, InEffect
<1>3. \A c \in Narrow : ch'[c].mode \in {0, 68 + c, 72 + c}
  BY <1>2, QuietFields, ShapeFacts
<1>4. QED
  BY <1>1, <1>2, <1>3, ShapeFacts, ShapeFrom DEF scriptVars

LEMMA LoadShape ==
  ASSUME ShapeInv, LoadBits
  PROVE  ShapeInv'
<1>1. ~Ended /\ Now.needs \subseteq seen /\ Advance /\ UNCHANGED <<scriptVars, command, pci, seen>>
  BY DEF LoadBits, Ready
<1>2. (GoesOn \/ Leaves) /\ raised' \in BOOLEAN /\ DmaTypeOK' /\ Quiet
  BY <1>1, AdvanceMoves, LoadEffect
<1>3. \A c \in Narrow : ch'[c].mode \in {0, 68 + c, 72 + c}
  BY <1>2, QuietFields, ShapeFacts
<1>4. PICK bits \in SUBSET Bits : val' = [val EXCEPT ![Access.var] = bits]
  BY LoadEffect
<1>5. val' \in [Names -> SUBSET Bits]
  BY <1>4, ShapeFacts
<1>6. QED
  BY <1>1, <1>2, <1>3, <1>5, ShapeFacts, ShapeFrom DEF scriptVars

LEMMA WriteShape ==
  ASSUME ShapeInv, NEW r, NEW bits, WriteBits(r, bits), bits \subseteq Bits,
         ~Ended, Now.needs \subseteq seen, Advance, UNCHANGED <<scriptVars, val, seen>>
  PROVE  ShapeInv'
<1>1. (GoesOn \/ Leaves) /\ raised' \in BOOLEAN
  BY AdvanceMoves
<1>2. /\ DmaTypeOK' /\ pci' \in [PciRegs -> SUBSET Bits] /\ command' \subseteq 0 .. 7
      /\ r # "maskall" => ch' = ch
      /\ r = "maskall" => \A c \in Narrow : ch'[c] = [ch[c] EXCEPT !.mask = (c \in bits)]
  BY WriteEffect
<1>3. \A c \in Narrow : ch[c] \in Channel /\ ch[c].mode \in {0, 68 + c, 72 + c}
  BY ShapeFacts
<1>4. \A c \in Narrow : ch'[c].mode = ch[c].mode
  BY <1>2, <1>3 DEF Channel
<1>5. QED
  BY <1>1, <1>2, <1>3, <1>4, ShapeFacts, ShapeFrom DEF scriptVars

LEMMA OtherShape ==
  ASSUME ShapeInv, PeekBits \/ FindLpcController \/ Skip \/ Raise
  PROVE  ShapeInv'
<1>1. ~Ended /\ UNCHANGED <<program, was, dmaVars, command, pci>>
  BY DEF PeekBits, FindLpcController, Skip, Raise, Ready, scriptVars
<1>2. DmaTypeOK' /\ ch' = ch
  BY <1>1, ShapeFacts DEF dmaVars, DmaTypeOK
<1>3. val' \in [Names -> SUBSET Bits] /\ seen' \subseteq {"lpc", "hidden"} /\ seen \subseteq seen'
  <2>1. CASE UNCHANGED <<val, seen>>
    BY <2>1, ShapeFacts
  <2>2. CASE PeekBits
    <3>1. Access.loc \in PciRegs
      BY <2>2, OtherOps DEF PeekBits, Peek, LowTask
    <3>2. QED
      BY <2>2, <3>1, ShapeFacts DEF PeekBits
  <2>3. CASE FindLpcController
    BY <2>3, ShapeFacts DEF FindLpcController
  <2>4. QED
    BY <2>1, <2>2, <2>3 DEF Skip, Raise
<1>4. raised' \in BOOLEAN /\ faults' \in 0 .. MaxFaults
  <2>1. CASE UNCHANGED <<raised, faults>>
    BY <2>1, ShapeFacts
  <2>2. CASE Raise
    <3>1. raised' \in BOOLEAN
      BY <2>2, ShapeFacts DEF Raise
    <3>2. faults < MaxFaults /\ faults' = faults + 1
      BY <2>2 DEF Raise
    <3>3. QED
      BY <3>1, <3>2, ShapeFacts, ProbeAssumption
  <2>3. QED
    BY <2>1, <2>2 DEF PeekBits, FindLpcController, Skip, scriptVars
<1>5. GoesOn \/ Leaves \/ at' = <<at[1], Len(Now.steps)>>
  <2>1. CASE PeekBits
    <3>1. LowTask /\ at[2] = 1
      BY <2>1, OtherOps DEF PeekBits
    <3>2. Len(Now.steps) = 3
      BY <1>1, <3>1, Lengths
    <3>3. QED
      BY <2>1, <3>1, <3>2 DEF PeekBits, GoesOn, Leaves, NextTask
  <2>2. CASE FindLpcController \/ Skip
    BY <2>2 DEF FindLpcController, Skip, Leaves, NextTask
  <2>3. CASE Raise
    BY <2>3 DEF Raise, Leaves, NextTask, End
  <2>4. QED
    BY <2>1, <2>2, <2>3
<1>6. Now.needs \subseteq seen \/ Leaves
  BY DEF PeekBits, FindLpcController, Skip, Raise, Ready, Leaves, NextTask
<1>7. QED
  BY <1>1, <1>2, <1>3, <1>4, <1>5, <1>6, ShapeFacts, ShapeFrom

LEMMA CycleFields ==
  ASSUME NEW r \in Channel
  PROVE  /\ Cycle(r).mode = r.mode /\ Cycle(r).page = r.page
         /\ Cycle(r).baseAddr = r.baseAddr /\ Cycle(r).baseCount = r.baseCount
         /\ r.mask => Cycle(r).mask
BY DEF Cycle, Channel

LEMMA DeviceShape ==
  ASSUME ShapeInv, Device
  PROVE  ShapeInv'
<1>1. UNCHANGED <<scriptVars, command, pci, at, val, seen, raised>>
  BY DEF Device
<1>2. PICK c \in Narrow : ch' = [ch EXCEPT ![c] = Cycle(ch[c])]
  BY DeviceEffect
<1>3. \A d \in Narrow : ch'[d].mode = ch[d].mode
  <2>1. \A d \in Narrow : ch'[d] = IF d = c THEN Cycle(ch[d]) ELSE ch[d]
    BY <1>2, NarrowChannels, ShapeFacts DEF DmaTypeOK
  <2>2. QED
    BY <2>1, ShapeFacts, CycleFields
<1>4. DmaTypeOK'
  BY DeviceEffect
<1>5. Script' = Script
  BY <1>1 DEF Script, scriptVars
<1>6. Ended' = Ended /\ Now' = Now
  BY <1>1, <1>5 DEF Ended, Now
<1>7. QED
  BY <1>1, <1>3, <1>4, <1>5, <1>6 DEF ShapeInv, ProbeTypeOK, scriptVars

LEMMA ShapeStep ==
  ASSUME ShapeInv, [ProbeNext]_probeVars
  PROVE  ShapeInv'
<1>1. CASE OutPort
  BY <1>1, OutShape
<1>2. CASE InPort
  BY <1>2, InShape
<1>3. CASE LoadBits
  BY <1>3, LoadShape
<1>4. CASE StoreBits
  <2>1. /\ Ready("store") /\ ~Ended /\ Now.needs \subseteq seen /\ Advance /\ UNCHANGED <<scriptVars, val, seen>>
        /\ WriteBits(Access.loc, Xor(val[Access.var], Access.xor))
    BY <1>4 DEF StoreBits, Ready
  <2>2. QED
    BY <2>1, StoreTypes, WriteShape
<1>5. CASE PutBits
  <2>1. /\ Ready("put") /\ ~Ended /\ Now.needs \subseteq seen /\ Advance /\ UNCHANGED <<scriptVars, val, seen>>
        /\ WriteBits(Access.loc, Access.bits)
    BY <1>5 DEF PutBits, Ready
  <2>2. QED
    BY <2>1, PutTypes, WriteShape
<1>6. CASE PeekBits \/ FindLpcController \/ Skip \/ Raise
  BY <1>6, OtherShape
<1>7. CASE Device
  BY <1>7, DeviceShape
<1>8. CASE UNCHANGED probeVars
  <2>1. Script' = Script
    BY <1>8 DEF probeVars, Script
  <2>2. Ended' = Ended /\ Now' = Now
    BY <1>8, <2>1 DEF probeVars, Ended, Now
  <2>3. QED
    BY <1>8, <2>1, <2>2 DEF ShapeInv, ProbeTypeOK, DmaTypeOK, probeVars, dmaVars
<1>9. QED
  BY <1>1, <1>2, <1>3, <1>4, <1>5, <1>6, <1>7, <1>8 DEF ProbeNext, ScriptStep

(* A channel in use is running at first, with whatever terminal-count bit. *)
LEMMA ChannelInit ==
  ASSUME ProbeInit, NEW c \in Narrow
  PROVE  \E t \in BOOLEAN : ch[c] = IF c \in InUse THEN Running(c, t) ELSE ResetChannel(c, t)
<1>1. PICK done \in SUBSET DoneAtStart :
        ch = [d \in Chan |-> IF d \in InUse THEN Running(d, d \in done) ELSE ResetChannel(d, d \in done)]
  BY DEF ProbeInit
<1> DEFINE t == c \in done
<1>2. t \in BOOLEAN /\ ch[c] = IF c \in InUse THEN Running(c, t) ELSE ResetChannel(c, t)
  BY <1>1, NarrowChannels
<1> HIDE DEF t
<1>3. QED
  BY <1>2

LEMMA ShapeInit == ProbeInit => ShapeInv
<1> SUFFICES ASSUME ProbeInit PROVE ShapeInv
  OBVIOUS
<1>1. program \in {"z390", "h81"} /\ at = <<1, 1>> /\ faults = 0 /\ seen = {} /\ raised = FALSE /\ command = {}
  BY DEF ProbeInit
<1>2. Len(Script) = 16 \/ Len(Script) = 18
  BY <1>1, Z390Tasks, H81Tasks DEF Script
<1>3. at \in (1 .. Len(Script) + 1) \X (Nat \ {0})
  BY <1>1, <1>2
<1>4. at[2] <= Len(Now.steps) /\ ~(at[2] > 1)
  <2>1. 1 \in 1 .. Len(Script)
    BY <1>2
  <2>2. 1 <= Len(Script[1].steps)
    BY <1>1, <2>1, NoEmptyTask
  <2>3. QED
    BY <1>1, <2>2 DEF Now
<1>5. pci \in [PciRegs -> SUBSET Bits]
  BY ProbeAssumption DEF ProbeInit
<1>6. val \in [Names -> SUBSET Bits]
  BY DEF ProbeInit, Names
<1>7. faults \in 0 .. MaxFaults
  BY <1>1, ProbeAssumption
<1>8. 0 \in Data /\ 1 \in Data /\ Zero \in Pair /\ [Zero EXCEPT ![0] = 1] \in Pair
  BY ByteAssumption DEF Data, Zero, Pair, Flip
<1>9. \A c \in Chan, t \in BOOLEAN : ResetChannel(c, t) \in Channel
  BY <1>8 DEF ResetChannel, Channel
<1>10. \A c \in Narrow, t \in BOOLEAN :
         Running(c, t) \in Channel /\ Running(c, t).mode = 68 + c /\ ~Running(c, t).mask
  <2> TAKE c \in Narrow, t \in BOOLEAN
  <2>1. c \in 0 .. 3 /\ c \in Chan
    BY NarrowChannels DEF Narrow
  <2>2. 68 + c \in 0 .. 255
    BY <2>1
  <2>3. /\ ResetChannel(c, t).baseCount = Zero /\ ResetChannel(c, t).count = Zero
        /\ ResetChannel(c, t) \in Channel
    BY <1>9, <2>1 DEF ResetChannel
  <2> DEFINE r == ResetChannel(c, t)  one == [Zero EXCEPT ![0] = 1]
  <2>4. Running(c, t) = [r EXCEPT !.mask = FALSE, !.mode = 68 + c, !.page = 1, !.baseCount = one, !.count = one]
    BY <2>3 DEF Running
  <2> HIDE DEF r, one
  <2>5. one \in Pair /\ 1 \in Data /\ r \in Channel
    BY <1>8, <2>3 DEF r, one
  <2>6. QED
    BY <2>2, <2>4, <2>5 DEF Channel
<1>11. InUse \subseteq Narrow
  BY ProbeAssumption
<1>12. DmaTypeOK
  <2>1. PICK done \in SUBSET DoneAtStart :
          ch = [c \in Chan |-> IF c \in InUse THEN Running(c, c \in done) ELSE ResetChannel(c, c \in done)]
    BY DEF ProbeInit
  <2>2. \A c \in Chan : (c \in done) \in BOOLEAN
    OBVIOUS
  <2>3. ch \in [Chan -> Channel]
    BY <1>9, <1>10, <1>11, <2>1, <2>2
  <2>4. ff \in [Ctrl -> Flip]
    BY DEF ProbeInit, Flip
  <2>5. QED
    BY <2>3, <2>4 DEF DmaTypeOK
<1>13. \A c \in Narrow : \E t \in BOOLEAN : ch[c] = IF c \in InUse THEN Running(c, t) ELSE ResetChannel(c, t)
  BY ChannelInit
<1>14. \A c \in Narrow, t \in BOOLEAN : ResetChannel(c, t).mode = 0 /\ ResetChannel(c, t).mask
  <2> TAKE c \in Narrow, t \in BOOLEAN
  <2>1. c # 4
    BY NarrowChannels
  <2>2. QED
    BY <2>1 DEF ResetChannel
<1>15. \A c \in Narrow : ch[c].mode \in {0, 68 + c, 72 + c} /\ (ch[c].mask <=> c \notin InUse)
  BY <1>10, <1>13, <1>14
<1>16. was.masked = Narrow \ InUse
  BY <1>15 DEF ProbeInit
<1>17. ProbeTypeOK
  BY <1>1, <1>3, <1>5, <1>6, <1>7, <1>12 DEF ProbeTypeOK
<1>18. QED
  BY <1>3, <1>4, <1>6, <1>15, <1>16, <1>17 DEF ShapeInv

(* The scripts keep the shape of the state: every access names a register  *)
(* that exists, every value fits its register, and the script is always at *)
(* an access of one of its tasks or has ended.                             *)
THEOREM ProbeTypes == ProbeSpec => []ProbeTypeOK
<1>1. ShapeInv => ProbeTypeOK
  BY DEF ShapeInv
<1>2. QED
  BY ShapeInit, ShapeStep, <1>1, PTL DEF ProbeSpec

-----------------------------------------------------------------------------
(* A step of a script takes it one access on, out of the task after the    *)
(* last one, or out of a task it does not begin.                           *)
Proceeds == IF at[2] < Len(Now.steps) THEN GoesOn ELSE Leaves

LEMMA ScriptMoves ==
  ASSUME ShapeInv, ScriptStep
  PROVE  /\ ~Ended /\ UNCHANGED <<program, was, faults>> /\ Script' = Script
         /\ \/ Proceeds
            \/ (Skip \/ PeekBits) /\ at[2] = 1 /\ Leaves /\ UNCHANGED <<dmaVars, command, pci, val>>
<1>1. CASE OutPort \/ InPort \/ LoadBits \/ StoreBits \/ PutBits
  <2>1. ~Ended /\ Advance /\ UNCHANGED scriptVars
    BY <1>1 DEF OutPort, InPort, LoadBits, StoreBits, PutBits, Ready
  <2>2. QED
    BY <2>1 DEF Advance, Proceeds, GoesOn, Leaves, End, NextTask, scriptVars, Script
<1>2. CASE PeekBits
  <2>1. ~Ended /\ UNCHANGED <<scriptVars, dmaVars, command, pci>> /\ LowTask /\ at[2] = 1
    BY <1>2, OtherOps DEF PeekBits, Ready
  <2>2. Len(Now.steps) = 3
    BY <2>1, Lengths
  <2>3. CASE NextTask /\ UNCHANGED <<val, seen>>
    BY <1>2, <2>1, <2>3 DEF Leaves, NextTask, scriptVars, Script
  <2>4. CASE at' = <<at[1], at[2] + 1>>
    BY <2>1, <2>2, <2>4 DEF Proceeds, GoesOn, scriptVars, Script
  <2>5. QED
    BY <1>2, <2>3, <2>4 DEF PeekBits
<1>3. CASE FindLpcController
  <2>1. ~Ended /\ UNCHANGED scriptVars /\ NextTask /\ FindTask
    BY <1>3, OtherOps DEF FindLpcController, Ready
  <2>2. Len(Now.steps) = 1 /\ at[2] = 1
    BY <2>1, Lengths DEF FindTask
  <2>3. QED
    BY <2>1, <2>2 DEF Proceeds, Leaves, NextTask, scriptVars, Script
<1>4. CASE Skip
  <2>1. ~Ended /\ ~(Now.needs \subseteq seen) /\ NextTask
        /\ UNCHANGED <<scriptVars, dmaVars, command, pci, val>>
    BY <1>4 DEF Skip
  <2>2. at[2] = 1
    BY <2>1, Positions DEF ShapeInv
  <2>3. QED
    BY <1>4, <2>1, <2>2 DEF Leaves, NextTask, scriptVars, Script
<1>5. QED
  BY <1>1, <1>2, <1>3, <1>4 DEF ScriptStep

(* An access that raises moves the script to the next task, to the finally *)
(* clause or to the end, and nothing else.                                 *)
LEMMA RaiseMoves ==
  ASSUME ShapeInv, Raise
  PROVE  /\ ~Ended /\ faults' = faults + 1 /\ Script' = Script
         /\ UNCHANGED <<dmaVars, program, was, command, pci, val, seen>>
         /\ \/ Leaves
            \/ BitTask /\ at[2] \in {1, 2} /\ at' = <<at[1], 3>>
            \/ DisableTask /\ at[2] = 1 /\ at' = <<at[1], 2>>
<1>1. /\ ~Ended /\ faults' = faults + 1
      /\ UNCHANGED <<dmaVars, program, was, command, pci, val, seen>>
  BY DEF Raise
<1>2. Script' = Script
  BY <1>1 DEF Script
<1>3. CASE Now.caught \/ (Now.finally => at[2] = Len(Now.steps))
  <2>1. Leaves
    BY <1>3 DEF Raise, Leaves, NextTask, End
  <2>2. QED
    BY <1>1, <1>2, <2>1
<1>4. CASE ~Now.caught /\ Now.finally /\ at[2] # Len(Now.steps)
  <2>1. Leaves \/ (at[2] < Len(Now.steps) /\ at' = <<at[1], Len(Now.steps)>>)
    BY <1>4 DEF Raise, Leaves, NextTask, End
  <2>2. ~FindTask /\ ~ResidueTask /\ ~LowTask /\ ~SimpleTask(1) /\ ~SimpleTask(3) /\ ~OldTask
        /\ ~CtrlTask /\ ~CommandTask /\ ~TwoTask
    <3>1. ~ResidueTask /\ ~FindTask
      BY <1>4 DEF ResidueTask, FindTask, check_for_dma_residue, Caught, Task
    <3>2. ~LowTask
      BY <1>4 DEF LowTask, Caught, CaughtIf, Task
    <3>3. ~SimpleTask(1) /\ ~SimpleTask(3)
      BY <1>4 DEF SimpleTask, try_simple_dma_operation, Caught, Task
    <3>4. ~OldTask
      BY <1>4 DEF OldTask, test_traditional_dma_regs, Caught, Task
    <3>5. ~CtrlTask /\ ~CommandTask
      BY <1>4 DEF CtrlTask, CommandTask, Bare, Task
    <3>6. ~TwoTask
      BY <1>4 DEF TwoTask, safer_dma_test_two, CaughtIf, Task
    <3>7. QED
      BY <3>1, <3>2, <3>3, <3>4, <3>5, <3>6
  <2>3. BitTask \/ DisableTask
    BY <1>1, <2>2, Where
  <2>4. (BitTask => Len(Now.steps) = 3) /\ (DisableTask => Len(Now.steps) = 2)
    BY <1>1, Lengths
  <2>5. (BitTask => at[2] \in 1 .. 3) /\ (DisableTask => at[2] \in 1 .. 2)
    BY DEF BitTask, DisableTask
  <2>6. ASSUME BitTask, ~Leaves PROVE at[2] \in {1, 2} /\ at' = <<at[1], 3>>
    <3>1. at[2] < Len(Now.steps) /\ at' = <<at[1], Len(Now.steps)>>
      BY <2>1, <2>6, Zenon
    <3>2. Len(Now.steps) = 3 /\ at[2] \in 1 .. 3
      BY <2>4, <2>5, <2>6, Zenon
    <3>3. QED
      BY <3>1, <3>2
  <2>7. ASSUME DisableTask, ~Leaves PROVE at[2] = 1 /\ at' = <<at[1], 2>>
    <3>1. at[2] < Len(Now.steps) /\ at' = <<at[1], Len(Now.steps)>>
      BY <2>1, <2>7, Zenon
    <3>2. Len(Now.steps) = 2 /\ at[2] \in 1 .. 2
      BY <2>4, <2>5, <2>7, Zenon
    <3>3. QED
      BY <3>1, <3>2
  <2>8. QED
    BY <1>1, <1>2, <2>3, <2>6, <2>7, Zenon
<1>5. QED
  BY <1>3, <1>4, Zenon

(* Out of a task, nothing is under way.                                    *)
LEMMA Afresh ==
  ASSUME Leaves
  PROVE  /\ at'[2] = 1 /\ Undo' = {} /\ InFlight' = {} /\ ~AllMasked' /\ ~CommandMoved'
<1>1. at'[2] = 1
  BY DEF Leaves
<1>2. Undo' = {}
  BY <1>1 DEF Undo
<1>3. InFlight' = {} /\ ~AllMasked' /\ ~CommandMoved'
  BY <1>1 DEF InFlight, AllMasked, CommandMoved
<1>4. QED
  BY <1>1, <1>2, <1>3

(* The task the script is in.                                              *)
LEMMA Tasks ==
  ASSUME ShapeInv
  PROVE  /\ \A c \in {1, 3} : SimpleTask(c) <=> Simple(c) /\ ~Ended
         /\ TwoTask <=> Two /\ ~Ended
         /\ BitTask <=> OneBit /\ ~Ended
         /\ LowTask <=> TogglesLow /\ ~Ended
         /\ OldTask <=> H81At(1) /\ ~Ended
         /\ DisableTask <=> H81At(17) /\ ~Ended
         /\ Simple(1) \/ Simple(3) \/ Two \/ OneBit \/ TogglesLow \/ H81At(1) \/ H81At(17) => ~Ended
<1> DEFINE Any == Simple(1) \/ Simple(3) \/ Two \/ OneBit \/ TogglesLow \/ H81At(1) \/ H81At(17)
<1>1. Len(Script) = IF program = "z390" THEN 16 ELSE 18
  BY Positions
<1>2. at[1] \in Nat
  BY <1>1, Positions
<1>3. Any => ~Ended
  BY <1>1, <1>2 DEF Ended, Simple, Two, OneBit, TogglesLow, H81At
<1>4. /\ \A c \in {1, 3} : SimpleTask(c) => Simple(c)
      /\ TwoTask => Two
      /\ BitTask => OneBit
      /\ LowTask => TogglesLow
      /\ OldTask => H81At(1)
      /\ DisableTask => H81At(17)
  BY DEF SimpleTask, TwoTask, BitTask, LowTask, OldTask, DisableTask
<1>5. ASSUME ~Ended
      PROVE  /\ \A c \in {1, 3} : Simple(c) => SimpleTask(c)
             /\ Two => TwoTask
             /\ OneBit => BitTask
             /\ TogglesLow => LowTask
             /\ H81At(1) => OldTask
             /\ H81At(17) => DisableTask
  <2>1. \/ ResidueTask \/ FindTask \/ LowTask \/ SimpleTask(1) \/ SimpleTask(3)
        \/ OldTask \/ CtrlTask \/ BitTask \/ CommandTask \/ DisableTask \/ TwoTask
    BY <1>5, Where
  <2>2. ResidueTask => program = "z390" /\ at[1] \in 1 .. 7
    BY DEF ResidueTask
  <2>3. FindTask => program = "z390" /\ at[1] = 8
    BY DEF FindTask
  <2>4. CtrlTask \/ CommandTask => program = "h81" /\ at[1] \in {7, 16}
    BY DEF CtrlTask, CommandTask, H81At
  <2>5. QED
    BY <1>2, <1>4, <2>1, <2>2, <2>3, <2>4 DEF Simple, Two, OneBit, TogglesLow, H81At
<1>6. ASSUME Ended
      PROVE  /\ \A c \in {1, 3} : ~Simple(c)
             /\ ~Two /\ ~OneBit /\ ~TogglesLow /\ ~H81At(1) /\ ~H81At(17)
  BY <1>3, <1>6
<1>7. QED
  BY <1>3, <1>4, <1>5, <1>6

-----------------------------------------------------------------------------
(* The channels, step by step.                                             *)

(* The accesses that change a narrow channel.                              *)
ChannelAccess ==
  \/ \E c \in {1, 3} : SimpleTask(c) /\ at[2] \in {1, 4, 5, 8}
  \/ TwoTask /\ at[2] \in {8, 9, 26}

MaskedAs(S) == \A c \in Narrow : ch'[c] = [ch[c] EXCEPT !.mask = (c \in S)]

LEMMA SimpleApart ==
  ASSUME NEW c \in {1, 3}, Simple(c)
  PROVE  \A d \in {1, 3} : Simple(d) => d = c
BY DEF Simple

LEMMA StoreMeans ==
  ASSUME NEW r, NEW n, Access = Store(r, n)
  PROVE  Access.loc = r /\ Access.var = n /\ Xor(val[Access.var], Access.xor) = val[n]
BY DEF Store, Xor

LEMMA PutMeans ==
  ASSUME NEW r, NEW b, Access = Put(r, b)
  PROVE  Access.loc = r /\ Access.bits = b
BY DEF Put

LEMMA ToggledMeans ==
  ASSUME NEW r, NEW n, NEW b, Access = Toggled(r, n, b)
  PROVE  Access.loc = r /\ Access.var = n /\ Access.xor = {b}
BY DEF Toggled

(* Where a store or a put goes.                                            *)
LEMMA StorePlaces ==
  ASSUME ShapeInv, Ready("store")
  PROVE  \/ TwoTask /\ at[2] = 26 /\ Access = Store("maskall", "mask")
         \/ Access.loc # "maskall" /\ ~ChannelAccess
<1>1. /\ \A r, n : Store(r, n).loc = r
      /\ \A r, n, b : Toggled(r, n, b).loc = r
  BY DEF Store, Toggled
<1>2. \A i \in 27 .. 31 : HiddenRegs[i - 26] # "maskall"
  BY DEF HiddenRegs
<1>3. LowReg \in PciRegs => LowReg # "maskall"
  BY DEF PciRegs
<1>4. ~Ended
  BY DEF Ready
<1>5. ASSUME LowTask \/ OldTask \/ BitTask \/ DisableTask PROVE ~ChannelAccess
  BY <1>5 DEF ChannelAccess, LowTask, OldTask, BitTask, DisableTask, SimpleTask, TwoTask,
              TogglesLow, H81At, OneBit, Simple, Two
<1>6. ASSUME TwoTask, at[2] \notin {8, 9, 26} PROVE ~ChannelAccess
  BY <1>6 DEF ChannelAccess, SimpleTask, TwoTask, H81At, Simple, Two
<1>7. CASE \/ LowTask /\ at[2] = 2 /\ Access = Toggled(LowReg, "reg", 0)
           \/ LowTask /\ at[2] = 3 /\ Access = Store(LowReg, "reg")
  BY <1>1, <1>3, <1>5, <1>7 DEF LowTask
<1>8. CASE \/ OldTask /\ at[2] = 2 /\ Access = Toggled("command", "cmd", 2)
           \/ OldTask /\ at[2] = 4 /\ Access = Store("command", "cmd")
           \/ BitTask /\ at[2] = 1 /\ \E b \in 0 .. 7 : Access = Toggled("ctrl", "ctrl", b)
           \/ BitTask /\ at[2] = 3 /\ Access = Store("ctrl", "ctrl")
           \/ DisableTask /\ at[2] = 1 /\ Access = Toggled("command", "cmd", 2)
           \/ DisableTask /\ at[2] = 2 /\ Access = Store("command", "cmd")
  BY <1>1, <1>5, <1>8
<1>9. CASE \/ TwoTask /\ at[2] \in {11, 14, 17} /\ \E b \in {8, 16, 24} : Access = Toggled("ctrl", "reg", b)
           \/ TwoTask /\ at[2] \in {12, 15, 18} /\ Access = Store("ctrl", "reg")
           \/ TwoTask /\ at[2] = 21 /\ Access = Store("addr", "reg")
           \/ TwoTask /\ at[2] = 24 /\ Access = Store("tc", "reg")
           \/ TwoTask /\ at[2] = 25 /\ Access = Store("command", "cmd")
  BY <1>1, <1>6, <1>9
<1>10. CASE TwoTask /\ at[2] \in 27 .. 31 /\ Access = Store(HiddenRegs[at[2] - 26], HiddenRegs[at[2] - 26])
  BY <1>1, <1>2, <1>6, <1>10
<1>11. QED
  BY <1>7, <1>8, <1>9, <1>10, StoreOps

LEMMA ChannelSteps ==
  ASSUME ShapeInv, ScriptStep
  PROVE  \/ Quiet /\ ~ChannelAccess
         \/ \E c \in {1, 3} : SimpleTask(c) /\ at[2] \in {1, 8} /\ Masking(c, TRUE)
         \/ \E c \in {1, 3} : SimpleTask(c) /\ at[2] = 4 /\ ModeSetting(c, 72 + c)
         \/ \E c \in {1, 3} : SimpleTask(c) /\ at[2] = 5 /\ Masking(c, FALSE)
         \/ TwoTask /\ at[2] = 8 /\ MaskedAs(Narrow)
         \/ TwoTask /\ at[2] = 9 /\ ModeSetting(1, 69)
         \/ TwoTask /\ at[2] = 26 /\ MaskedAs(val["mask"])
<1>1. UNCHANGED ch => Quiet
  BY DEF Quiet
<1>2. ASSUME TwoTask, at[2] \notin {8, 9, 26} PROVE ~ChannelAccess
  BY <1>2 DEF ChannelAccess, SimpleTask, TwoTask, H81At, Simple, Two
<1>3. ASSUME NEW c \in {1, 3}, SimpleTask(c), at[2] \notin {1, 4, 5, 8} PROVE ~ChannelAccess
  BY <1>3 DEF ChannelAccess, SimpleTask, TwoTask, H81At, Simple, Two
<1>4. ASSUME ResidueTask \/ FindTask \/ LowTask \/ OldTask \/ CtrlTask \/ BitTask \/ CommandTask \/ DisableTask
      PROVE  ~ChannelAccess
  <2>1. ASSUME ResidueTask \/ FindTask \/ LowTask PROVE ~ChannelAccess
    BY <2>1 DEF ChannelAccess, ResidueTask, FindTask, LowTask, SimpleTask, TwoTask, TogglesLow, H81At, Simple, Two
  <2>2. ASSUME OldTask \/ CtrlTask \/ BitTask \/ CommandTask \/ DisableTask PROVE ~ChannelAccess
    BY <2>2 DEF ChannelAccess, OldTask, CtrlTask, BitTask, CommandTask, DisableTask, SimpleTask, TwoTask,
                H81At, OneBit, Simple, Two
  <2>3. QED
    BY <1>4, <2>1, <2>2
<1>5. CASE OutPort
  <2>1. ASSUME ResidueTask \/ \E c \in {1, 3} : SimpleTask(c) /\ at[2] \in {2, 6}
        PROVE  ~ChannelAccess
    <3>1. at[2] \in {2, 6} => at[2] \notin {1, 4, 5, 8}
      OBVIOUS
    <3>2. QED
      BY <1>3, <1>4, <2>1, <3>1, Zenon
  <2>2. QED
    BY <1>5, <2>1, OutEffect, Zenon
<1>6. CASE InPort
  <2>1. Quiet /\ Ready("in")
    BY <1>6, InEffect DEF InPort
  <2>2. ~ChannelAccess
    BY <1>3, <1>4, <2>1, InOps
  <2>3. QED
    BY <2>1, <2>2
<1>7. CASE LoadBits
  <2>1. Quiet /\ Ready("load")
    BY <1>7, LoadEffect DEF LoadBits
  <2>2. ~ChannelAccess
    BY <1>2, <1>4, <2>1, LoadOps
  <2>3. QED
    BY <2>1, <2>2
<1>8. CASE StoreBits
  <2>1. Ready("store") /\ WriteBits(Access.loc, Xor(val[Access.var], Access.xor))
    BY <1>8 DEF StoreBits
  <2>2. /\ Access.loc # "maskall" => ch' = ch
        /\ Access.loc = "maskall" =>
             \A c \in Narrow : ch'[c] = [ch[c] EXCEPT !.mask = (c \in Xor(val[Access.var], Access.xor))]
    BY <2>1, StoreTypes, WriteEffect
  <2>3. CASE TwoTask /\ at[2] = 26 /\ Access = Store("maskall", "mask")
    BY <2>2, <2>3, StoreMeans DEF MaskedAs
  <2>4. QED
    BY <1>1, <2>1, <2>2, <2>3, StorePlaces
<1>9. CASE PutBits
  <2>1. Ready("put") /\ WriteBits(Access.loc, Access.bits)
    BY <1>9 DEF PutBits
  <2>2. /\ Access.loc # "maskall" => ch' = ch
        /\ Access.loc = "maskall" => \A c \in Narrow : ch'[c] = [ch[c] EXCEPT !.mask = (c \in Access.bits)]
    BY <2>1, PutTypes, WriteEffect
  <2>3. CASE TwoTask /\ at[2] = 8 /\ Access = Put("maskall", Narrow)
    BY <2>2, <2>3, PutMeans DEF MaskedAs
  <2>4. CASE \/ TwoTask /\ at[2] = 20 /\ Access = Put("addr", Pattern)
             \/ TwoTask /\ at[2] = 23 /\ Access = Put("tc", Pattern)
    <3>1. Access.loc # "maskall"
      BY <2>4, PutMeans
    <3>2. at[2] \notin {8, 9, 26} /\ TwoTask
      BY <2>4
    <3>3. QED
      BY <1>1, <1>2, <2>2, <3>1, <3>2
  <2>5. QED
    BY <2>1, <2>3, <2>4, OtherOps
<1>10. CASE PeekBits \/ FindLpcController
  <2>1. UNCHANGED ch /\ (LowTask \/ FindTask)
    BY <1>10, OtherOps DEF PeekBits, FindLpcController, dmaVars
  <2>2. QED
    BY <1>1, <1>4, <2>1
<1>11. CASE Skip
  <2>1. UNCHANGED ch /\ at[2] = 1 /\ ~(Now.needs \subseteq seen)
    BY <1>11, Positions DEF Skip, dmaVars, ShapeInv
  <2>2. \A c \in {1, 3} : ~SimpleTask(c)
    BY <2>1 DEF SimpleTask, try_simple_dma_operation, Caught, Task
  <2>3. ~ChannelAccess
    BY <2>1, <2>2 DEF ChannelAccess
  <2>4. QED
    BY <1>1, <2>1, <2>3
<1>12. QED
  BY <1>5, <1>6, <1>7, <1>8, <1>9, <1>10, <1>11 DEF ScriptStep

(* The masks of a task that keeps channels masked hold all through it.     *)
LEMMA DeviceMasks ==
  ASSUME ShapeInv, Device
  PROVE  \E c \in Narrow : /\ ~ch[c].mask
                           /\ \A d \in Narrow : ch'[d] = IF d = c THEN Cycle(ch[d]) ELSE ch[d]
<1>1. PICK c \in Narrow : ~ch[c].mask /\ ch' = [ch EXCEPT ![c] = Cycle(ch[c])]
  BY DeviceEffect
<1>2. \A d \in Narrow : ch'[d] = IF d = c THEN Cycle(ch[d]) ELSE ch[d]
  BY <1>1, NarrowChannels, ShapeFacts DEF DmaTypeOK
<1>3. QED
  BY <1>1, <1>2

(* What stays as it is when only a device moves.                           *)
LEMMA DeviceMoves ==
  ASSUME Device
  PROVE  /\ UNCHANGED <<program, was, faults, command, pci, at, val, seen, raised>>
         /\ Script' = Script /\ Ended' = Ended /\ AllMasked' = AllMasked /\ InFlight' = InFlight
         /\ Two' = Two /\ Undo' = Undo /\ \A c \in {1, 3} : Simple(c)' = Simple(c)
<1>1. UNCHANGED <<program, was, faults, command, pci, at, val, seen, raised>>
  BY DEF Device, scriptVars
<1>2. Script' = Script /\ Two' = Two /\ \A c \in {1, 3} : Simple(c)' = Simple(c)
  BY <1>1 DEF Script, Two, H81At, Simple
<1>3. Ended' = Ended /\ AllMasked' = AllMasked
  BY <1>1, <1>2 DEF Ended, AllMasked
<1>4. InFlight' = InFlight
  BY <1>1 DEF InFlight, Simple
<1>5. Undo' = Undo
  BY <1>1 DEF Undo, TogglesLow, LowReg, OneBit, Two, H81At
<1>6. QED
  BY <1>1, <1>2, <1>3, <1>4, <1>5

(* What is so of the next state, when the script goes on in its task.      *)
LEMMA OnInTask ==
  ASSUME ShapeInv, ~Ended, UNCHANGED <<program, was>>, GoesOn
  PROVE  /\ at'[1] = at[1] /\ at'[2] = at[2] + 1 /\ at'[2] > 1
         /\ Two' = Two /\ OneBit' = OneBit /\ TogglesLow' = TogglesLow /\ LowReg' = LowReg
         /\ \A c \in {1, 3} : Simple(c)' = Simple(c)
         /\ Ended' = Ended
<1>1. at'[1] = at[1] /\ at'[2] = at[2] + 1 /\ at'[2] > 1
  BY Positions DEF GoesOn
<1>2. Script' = Script
  BY DEF Script
<1>3. QED
  BY <1>1, <1>2 DEF Two, OneBit, TogglesLow, LowReg, H81At, Simple, Ended

LEMMA HeldDevice ==
  ASSUME ShapeInv, HeldInv, Device
  PROVE  HeldInv'
<1>1. PICK c \in Narrow : ~ch[c].mask /\ \A d \in Narrow : ch'[d] = IF d = c THEN Cycle(ch[d]) ELSE ch[d]
  BY DeviceMasks
<1>2. \A d \in Narrow : ch[d].mask => ch'[d].mask
  BY <1>1, ShapeFacts, CycleFields
<1>3. 1 \in Narrow /\ 3 \in Narrow
  BY DEF Narrow
<1>4. QED
  BY <1>2, <1>3, DeviceMoves DEF HeldInv

LEMMA HeldScript ==
  ASSUME ShapeInv, HeldInv, ScriptStep
  PROVE  HeldInv'
<1>1. ~Ended /\ UNCHANGED <<program, was, faults>>
  BY ScriptMoves
<1>2. CASE Leaves
  <2>1. at'[2] = 1 /\ ~AllMasked'
    BY <1>2, Afresh
  <2>2. QED
    BY <2>1 DEF HeldInv
<1>3. CASE ~Leaves
  <2>1. GoesOn
    BY <1>3, ScriptMoves DEF Proceeds
  <2>2. /\ at'[1] = at[1] /\ at'[2] = at[2] + 1 /\ Two' = Two
        /\ \A c \in {1, 3} : Simple(c)' = Simple(c)
    BY <1>1, <2>1, OnInTask
  <2>3. at[2] \in Nat
    BY Positions
  <2>4. \A c \in {1, 3} : c \in Narrow
    BY DEF Narrow
  <2>5. ASSUME NEW c \in {1, 3}, NEW b \in BOOLEAN, Masking(c, b)
        PROVE  ch'[c].mask = b
    <3>1. ch'[c] = [ch[c] EXCEPT !.mask = b]
      BY <2>4, <2>5, FieldsSet, ShapeFacts
    <3>2. ch[c] \in Channel
      BY <2>4, ShapeFacts
    <3>3. QED
      BY <3>1, <3>2 DEF Channel
  <2>6. ASSUME NEW c \in {1, 3}, NEW m, ModeSetting(c, m)
        PROVE  \A d \in Narrow : ch'[d].mask = ch[d].mask
    <3>1. c \in Narrow /\ FALSE \in BOOLEAN
      BY <2>4
    <3>2. \A d \in Narrow : ch'[d] = IF d = c THEN [ch[d] EXCEPT !.mode = m] ELSE ch[d]
      BY <2>6, <3>1, FieldsSet, ShapeFacts
    <3>3. QED
      BY <3>2, ShapeFacts DEF Channel
  <2>7. ASSUME NEW S, MaskedAs(S) PROVE \A d \in Narrow : ch'[d].mask = (d \in S)
    BY <2>7, ShapeFacts DEF MaskedAs, Channel
  <2>8. ASSUME NEW c \in {1, 3}, SimpleTask(c)
        PROVE  ~AllMasked' /\ \A d \in {1, 3} : Simple(d)' => d = c
    <3>1. Simple(c)
      BY <2>8 DEF SimpleTask
    <3>2. ~Two
      BY <3>1 DEF Simple, Two, H81At
    <3>3. ~AllMasked'
      BY <2>2, <3>2 DEF AllMasked
    <3>4. QED
      BY <2>2, <3>1, <3>3, SimpleApart
  <2>9. ASSUME TwoTask
        PROVE  \A d \in {1, 3} : ~Simple(d)'
    <3>1. Two
      BY <2>9 DEF TwoTask
    <3>2. \A d \in {1, 3} : ~Simple(d)
      BY <3>1 DEF Simple, Two, H81At
    <3>3. QED
      BY <2>2, <3>2
  <2>10. CASE Quiet /\ ~ChannelAccess
    <3>1. \A d \in Narrow : ch'[d].mask = ch[d].mask
      BY <2>10, QuietFields, ShapeFacts
    <3>2. AllMasked' => AllMasked
      <4>1. HAVE AllMasked'
      <4>2. Two /\ at[2] + 1 \in 9 .. 26
        BY <2>2, <4>1 DEF AllMasked
      <4>3. TwoTask
        BY <1>1, <4>2, Tasks
      <4>4. at[2] # 8
        BY <2>10, <4>3 DEF ChannelAccess
      <4>5. QED
        BY <2>3, <4>2, <4>4 DEF AllMasked
    <3>3. ASSUME NEW c \in {1, 3}, Simple(c)', at'[2] \in 2 .. 5
          PROVE  Simple(c) /\ at[2] \in 2 .. 5
      <4>1. Simple(c) /\ at[2] + 1 \in 2 .. 5
        BY <2>2, <3>3
      <4>2. SimpleTask(c)
        BY <1>1, <4>1, Tasks
      <4>3. at[2] # 1
        BY <2>10, <4>2 DEF ChannelAccess
      <4>4. QED
        BY <2>3, <4>1, <4>3
    <3>4. QED
      BY <2>4, <3>1, <3>2, <3>3 DEF HeldInv
  <2>11. CASE \E c \in {1, 3} : SimpleTask(c) /\ at[2] \in {1, 8} /\ Masking(c, TRUE)
    BY <2>5, <2>8, <2>11 DEF HeldInv
  <2>12. CASE \E c \in {1, 3} : SimpleTask(c) /\ at[2] = 4 /\ ModeSetting(c, 72 + c)
    <3>1. PICK c \in {1, 3} : SimpleTask(c) /\ at[2] = 4 /\ ModeSetting(c, 72 + c)
      BY <2>12
    <3>2. ch[c].mask
      BY <3>1 DEF SimpleTask, HeldInv
    <3>3. ch'[c].mask
      BY <2>4, <2>6, <3>1, <3>2
    <3>4. QED
      BY <2>8, <3>1, <3>3 DEF HeldInv
  <2>13. CASE \E c \in {1, 3} : SimpleTask(c) /\ at[2] = 5 /\ Masking(c, FALSE)
    <3>1. at'[2] = 6
      BY <2>2, <2>13
    <3>2. QED
      BY <2>8, <2>13, <3>1 DEF HeldInv
  <2>14. CASE TwoTask /\ at[2] = 8 /\ MaskedAs(Narrow)
    BY <2>7, <2>9, <2>14 DEF HeldInv
  <2>15. CASE TwoTask /\ at[2] = 9 /\ ModeSetting(1, 69)
    <3>1. AllMasked
      BY <2>15 DEF AllMasked, TwoTask
    <3>2. QED
      BY <2>6, <2>9, <2>15, <3>1 DEF HeldInv
  <2>16. CASE TwoTask /\ at[2] = 26 /\ MaskedAs(val["mask"])
    <3>1. at'[2] = 27
      BY <2>2, <2>16
    <3>2. ~AllMasked'
      BY <3>1 DEF AllMasked
    <3>3. QED
      BY <2>9, <2>16, <3>2 DEF HeldInv
  <2>17. QED
    BY <2>10, <2>11, <2>12, <2>13, <2>14, <2>15, <2>16, ChannelSteps
<1>4. QED
  BY <1>2, <1>3

LEMMA HeldRaise ==
  ASSUME ShapeInv, HeldInv, Raise
  PROVE  HeldInv'
<1>1. CASE Leaves
  <2>1. at'[2] = 1 /\ ~AllMasked'
    BY <1>1, Afresh
  <2>2. QED
    BY <2>1 DEF HeldInv
<1>2. CASE at'[1] = at[1] /\ (BitTask \/ DisableTask)
  <2>1. program' = program /\ program = "h81" /\ at'[1] # 18
    BY <1>2, RaiseMoves DEF BitTask, OneBit, DisableTask, H81At
  <2>2. QED
    BY <2>1 DEF HeldInv, AllMasked, Two, H81At, Simple
<1>3. QED
  BY <1>1, <1>2, RaiseMoves

LEMMA HeldStep ==
  ASSUME ShapeInv, HeldInv, [ProbeNext]_probeVars
  PROVE  HeldInv'
<1>1. CASE UNCHANGED probeVars
  BY <1>1 DEF probeVars, dmaVars, HeldInv, AllMasked, Two, H81At, Simple
<1>2. QED
  BY <1>1, HeldDevice, HeldScript, HeldRaise DEF ProbeNext

LEMMA HeldInit == ProbeInit => HeldInv
BY DEF ProbeInit, HeldInv, AllMasked, Two, H81At, Simple

(* A script sets the mode of channels 1 and 3 alone, and only while they   *)
(* are masked, and no step of a script or of a device writes the base      *)
(* registers or the page of a narrow channel.                              *)
THEOREM ProbeProgramming == ProbeSpec => ProgrammingKept
<1> DEFINE Kept == \A c \in Narrow :
                     /\ ch'[c].baseAddr = ch[c].baseAddr
                     /\ ch'[c].baseCount = ch[c].baseCount
                     /\ ch'[c].page = ch[c].page
                     /\ ch'[c].mode # ch[c].mode => c \in {1, 3} /\ ch[c].mask
<1>1. ASSUME ShapeInv, HeldInv, [ProbeNext]_probeVars
      PROVE  [Kept]_probeVars
  <2>1. CASE UNCHANGED probeVars
    BY <2>1
  <2>2. CASE Raise
    <3>1. ch' = ch
      BY <1>1, <2>2, RaiseMoves DEF dmaVars
    <3>2. QED
      BY <3>1
  <2>3. CASE Device
    <3>1. PICK c \in Narrow : \A d \in Narrow : ch'[d] = IF d = c THEN Cycle(ch[d]) ELSE ch[d]
      BY <1>1, <2>3, DeviceMasks
    <3>2. QED
      BY <1>1, <3>1, ShapeFacts, CycleFields
  <2>4. CASE ScriptStep
    <3>1. CASE Quiet
      BY <1>1, <3>1, QuietFields, ShapeFacts
    <3>2. \A c \in {1, 3} : c \in Narrow
      BY DEF Narrow
    <3>3. ASSUME NEW c \in {1, 3}, NEW b \in BOOLEAN, Masking(c, b) PROVE Kept
      <4>1. \A d \in Narrow : ch'[d] = IF d = c THEN [ch[d] EXCEPT !.mask = b] ELSE ch[d]
        BY <1>1, <3>2, <3>3, FieldsSet, ShapeFacts
      <4>2. \A d \in Narrow : ch[d] \in Channel
        BY <1>1, ShapeFacts
      <4>3. ASSUME NEW d \in Narrow
            PROVE  /\ ch'[d].baseAddr = ch[d].baseAddr /\ ch'[d].baseCount = ch[d].baseCount
                   /\ ch'[d].page = ch[d].page /\ ch'[d].mode = ch[d].mode
        <5>1. ch[d] \in Channel /\ (ch'[d] = ch[d] \/ ch'[d] = [ch[d] EXCEPT !.mask = b])
          BY <4>1, <4>2
        <5>2. QED
          BY <5>1 DEF Channel
      <4>4. QED
        BY <4>3
    <3>4. ASSUME NEW c \in {1, 3}, NEW m, ModeSetting(c, m), ch[c].mask PROVE Kept
      <4>1. c \in Narrow /\ FALSE \in BOOLEAN
        BY <3>2
      <4>2. \A d \in Narrow : ch'[d] = IF d = c THEN [ch[d] EXCEPT !.mode = m] ELSE ch[d]
        BY <1>1, <3>4, <4>1, FieldsSet, ShapeFacts
      <4>3. \A d \in Narrow : ch[d] \in Channel
        BY <1>1, ShapeFacts
      <4>4. \A d \in Narrow : /\ ch'[d].baseAddr = ch[d].baseAddr
                              /\ ch'[d].baseCount = ch[d].baseCount
                              /\ ch'[d].page = ch[d].page
                              /\ d # c => ch'[d].mode = ch[d].mode
        BY <4>2, <4>3 DEF Channel
      <4>5. QED
        BY <3>4, <4>4
    <3>5. ASSUME NEW S, MaskedAs(S) PROVE Kept
      <4>1. \A d \in Narrow : ch[d] \in Channel
        BY <1>1, ShapeFacts
      <4>2. ASSUME NEW d \in Narrow
            PROVE  /\ ch'[d].baseAddr = ch[d].baseAddr /\ ch'[d].baseCount = ch[d].baseCount
                   /\ ch'[d].page = ch[d].page /\ ch'[d].mode = ch[d].mode
        <5> DEFINE b == d \in S
        <5>1. ch[d] \in Channel /\ ch'[d] = [ch[d] EXCEPT !.mask = b]
          BY <3>5, <4>1 DEF MaskedAs
        <5> HIDE DEF b
        <5>2. QED
          BY <5>1 DEF Channel
      <4>3. QED
        BY <4>2
    <3>6. CASE \E c \in {1, 3} : SimpleTask(c) /\ at[2] = 4 /\ ModeSetting(c, 72 + c)
      BY <1>1, <3>4, <3>6 DEF SimpleTask, HeldInv
    <3>7. CASE TwoTask /\ at[2] = 9 /\ ModeSetting(1, 69)
      BY <1>1, <3>2, <3>4, <3>7 DEF TwoTask, AllMasked, HeldInv
    <3>8. CASE \/ \E c \in {1, 3} : SimpleTask(c) /\ at[2] \in {1, 8} /\ Masking(c, TRUE)
               \/ \E c \in {1, 3} : SimpleTask(c) /\ at[2] = 5 /\ Masking(c, FALSE)
      BY <3>3, <3>8
    <3>9. CASE MaskedAs(Narrow) \/ MaskedAs(val["mask"])
      BY <3>5, <3>9
    <3> HIDE DEF Kept
    <3>10. \/ Quiet
           \/ \E c \in {1, 3} : SimpleTask(c) /\ at[2] \in {1, 8} /\ Masking(c, TRUE)
           \/ \E c \in {1, 3} : SimpleTask(c) /\ at[2] = 4 /\ ModeSetting(c, 72 + c)
           \/ \E c \in {1, 3} : SimpleTask(c) /\ at[2] = 5 /\ Masking(c, FALSE)
           \/ TwoTask /\ at[2] = 9 /\ ModeSetting(1, 69)
           \/ MaskedAs(Narrow) \/ MaskedAs(val["mask"])
      BY <1>1, <2>4, ChannelSteps
    <3>11. QED
      BY <3>1, <3>6, <3>7, <3>8, <3>9, <3>10
  <2>5. QED
    BY <1>1, <2>1, <2>2, <2>3, <2>4 DEF ProbeNext
<1> HIDE DEF Kept
<1>2. ProbeSpec => [][Kept]_probeVars
  BY <1>1, ShapeInit, ShapeStep, HeldInit, HeldStep, PTL DEF ProbeSpec
<1>3. QED
  BY <1>2 DEF ProgrammingKept, Kept

-----------------------------------------------------------------------------
(* The masks.                                                              *)

LEMMA MaskedSet ==
  ASSUME DmaTypeOK, NEW S, MaskedAs(S)
  PROVE  \A d \in Narrow : ch'[d].mask = (d \in S) /\ ch'[d].count = ch[d].count /\ ch'[d].tc = ch[d].tc
<1>1. \A d \in Narrow : ch[d] \in Channel
  BY NarrowChannels DEF DmaTypeOK
<1>2. ASSUME NEW d \in Narrow
      PROVE  ch'[d].mask = (d \in S) /\ ch'[d].count = ch[d].count /\ ch'[d].tc = ch[d].tc
  <2> DEFINE b == d \in S
  <2>1. ch[d] \in Channel /\ ch'[d] = [ch[d] EXCEPT !.mask = b]
    BY <1>1 DEF MaskedAs
  <2> HIDE DEF b
  <2>2. ch'[d].mask = b /\ ch'[d].count = ch[d].count /\ ch'[d].tc = ch[d].tc
    BY <2>1 DEF Channel
  <2>3. QED
    BY <2>2 DEF b
<1>3. QED
  BY <1>2

LEMMA MaskingSet ==
  ASSUME DmaTypeOK, NEW c \in {1, 3}, NEW b \in BOOLEAN, Masking(c, b)
  PROVE  \A d \in Narrow : /\ ch'[d].mask = IF d = c THEN b ELSE ch[d].mask
                           /\ ch'[d].count = ch[d].count /\ ch'[d].tc = ch[d].tc
<1>1. \A d \in Narrow : ch[d] \in Channel
  BY NarrowChannels DEF DmaTypeOK
<1>2. c \in Narrow
  BY DEF Narrow
<1>3. \A d \in Narrow : ch'[d] = IF d = c THEN [ch[d] EXCEPT !.mask = b] ELSE ch[d]
  BY <1>2, FieldsSet
<1>4. ASSUME NEW d \in Narrow
      PROVE  /\ ch'[d].mask = IF d = c THEN b ELSE ch[d].mask
             /\ ch'[d].count = ch[d].count /\ ch'[d].tc = ch[d].tc
  <2>1. ch[d] \in Channel /\ ch'[d] = IF d = c THEN [ch[d] EXCEPT !.mask = b] ELSE ch[d]
    BY <1>1, <1>3
  <2>2. CASE d = c
    BY <2>1, <2>2 DEF Channel
  <2>3. CASE d # c
    BY <2>1, <2>3
  <2>4. QED
    BY <2>2, <2>3
<1>5. QED
  BY <1>4

LEMMA ModeSet ==
  ASSUME DmaTypeOK, NEW c \in {1, 3}, NEW m, ModeSetting(c, m)
  PROVE  \A d \in Narrow : ch'[d].mask = ch[d].mask /\ ch'[d].count = ch[d].count /\ ch'[d].tc = ch[d].tc
<1>1. \A d \in Narrow : ch[d] \in Channel
  BY NarrowChannels DEF DmaTypeOK
<1>2. c \in Narrow /\ FALSE \in BOOLEAN
  BY DEF Narrow
<1>3. \A d \in Narrow : ch'[d] = IF d = c THEN [ch[d] EXCEPT !.mode = m] ELSE ch[d]
  BY <1>2, FieldsSet
<1>4. ASSUME NEW d \in Narrow
      PROVE  ch'[d].mask = ch[d].mask /\ ch'[d].count = ch[d].count /\ ch'[d].tc = ch[d].tc
  <2>1. ch[d] \in Channel /\ ch'[d] = IF d = c THEN [ch[d] EXCEPT !.mode = m] ELSE ch[d]
    BY <1>1, <1>3
  <2>2. QED
    BY <2>1 DEF Channel
<1>5. QED
  BY <1>4

(* No access of a script changes a count, or sets a terminal count.        *)
LEMMA CountsStay ==
  ASSUME ShapeInv, ScriptStep \/ Raise
  PROVE  \A c \in Narrow : ch'[c].count = ch[c].count /\ (ch'[c].tc => ch[c].tc)
<1>1. DmaTypeOK
  BY ShapeFacts
<1>2. CASE Quiet
  BY <1>1, <1>2, QuietFields
<1>3. CASE \E c \in {1, 3}, b \in BOOLEAN : Masking(c, b)
  BY <1>1, <1>3, MaskingSet
<1>4. CASE \E c \in {1, 3}, m \in 0 .. 255 : ModeSetting(c, m)
  BY <1>1, <1>4, ModeSet
<1>5. CASE MaskedAs(Narrow) \/ MaskedAs(val["mask"])
  BY <1>1, <1>5, MaskedSet
<1>6. CASE Raise
  BY <1>6, RaiseMoves DEF dmaVars
<1>7. CASE ScriptStep
  <2>1. \A c \in {1, 3} : 72 + c \in 0 .. 255
    OBVIOUS
  <2>2. 1 \in {1, 3} /\ 69 \in 0 .. 255
    OBVIOUS
  <2>3. \/ Quiet
        \/ \E c \in {1, 3}, b \in BOOLEAN : Masking(c, b)
        \/ \E c \in {1, 3}, m \in 0 .. 255 : ModeSetting(c, m)
        \/ MaskedAs(Narrow) \/ MaskedAs(val["mask"])
    BY <1>7, <2>1, <2>2, ChannelSteps
  <2>4. QED
    BY <1>2, <1>3, <1>4, <1>5, <2>3
<1>8. QED
  BY <1>6, <1>7

(* What a device's cycle does to a channel that is not in auto-init mode.  *)
LEMMA CycleCounts ==
  ASSUME NEW c \in Narrow, NEW r \in Channel, r.mode \in {0, 68 + c, 72 + c}, ~r.mask
  PROVE  \/ ~Cycle(r).mask /\ Cycle(r).tc = r.tc
         \/ Cycle(r).mask /\ Cycle(r).count = AllOnes
<1>1. ~AutoInit(r)
  <2>1. c \in {0, 1, 2, 3}
    BY NarrowChannels
  <2>2. r.mode \in {0, 68, 69, 70, 71, 72, 73, 74, 75}
    BY <2>1
  <2>3. QED
    BY <2>2 DEF AutoInit
<1>2. CASE r.count # Zero
  <2>1. Cycle(r) = [r EXCEPT !.addr = Inc(r.addr), !.count = Dec(r.count)]
    BY <1>2 DEF Cycle
  <2>2. QED
    BY <2>1 DEF Channel
<1>3. CASE r.count = Zero
  <2>1. Cycle(r) = [r EXCEPT !.addr = Inc(r.addr), !.count = Dec(r.count), !.tc = TRUE, !.mask = TRUE]
    BY <1>1, <1>3 DEF Cycle
  <2>2. Cycle(r).mask /\ Cycle(r).count = Dec(Zero)
    BY <1>3, <2>1 DEF Channel
  <2>3. Dec(Zero) = AllOnes
    BY ByteAssumption DEF Dec, Zero, AllOnes, Flip
  <2>4. QED
    BY <2>2, <2>3
<1>4. QED
  BY <1>2, <1>3

LEMMA InFlightFacts ==
  ASSUME ShapeInv
  PROVE  /\ program = "h81" => InFlight = {}
         /\ Ended => InFlight = {}
         /\ \A c \in {1, 3} : Simple(c) => InFlight = (IF at[2] > 5 THEN {c} ELSE {})
         /\ Cardinality(InFlight) <= 1 /\ IsFiniteSet(InFlight)
<1>1. program = "h81" \/ Ended => InFlight = {}
  BY Tasks DEF InFlight, Simple
<1>2. \A c \in {1, 3} : Simple(c) => InFlight = (IF at[2] > 5 THEN {c} ELSE {})
  BY SimpleApart DEF InFlight
<1>3. InFlight = {} \/ \E c : InFlight = {c}
  BY <1>2 DEF InFlight
<1>4. Cardinality(InFlight) <= 1 /\ IsFiniteSet(InFlight)
  <2>1. CASE InFlight = {}
    <3>1. IsFiniteSet({}) /\ Cardinality({}) = 0
      BY FS_EmptySet, Zenon
    <3>2. Cardinality({}) <= 1
      BY <3>1
    <3>3. QED
      BY <2>1, <3>1, <3>2, Zenon
  <2>2. ASSUME NEW c, InFlight = {c} PROVE Cardinality(InFlight) <= 1 /\ IsFiniteSet(InFlight)
    <3>1. IsFiniteSet({c}) /\ Cardinality({c}) = 1
      BY FS_Singleton, Zenon
    <3>2. Cardinality({c}) <= 1
      BY <3>1
    <3>3. QED
      BY <2>2, <3>1, <3>2, Zenon
  <2>3. QED
    BY <1>3, <2>1, <2>2
<1>5. QED
  BY <1>1, <1>2, <1>4

(* What safer_dma_test_two saves of the mask register.                     *)
LEMMA MaskSaved ==
  ASSUME ShapeInv, ScriptStep, MaskReadable
  PROVE  \/ val'["mask"] = val["mask"] /\ ~(TwoTask /\ at[2] = 7)
         \/ TwoTask /\ at[2] = 7 /\ ch' = ch /\ val'["mask"] = {c \in Narrow : ch[c].mask}
<1>1. val \in [Names -> SUBSET Bits] /\ "mask" \in Names
  BY ShapeFacts DEF Names
<1>2. \A n, b : n # "mask" /\ val' = [val EXCEPT ![n] = b] => val'["mask"] = val["mask"]
  BY <1>1
<1>3. CASE LoadBits
  <2>1. Ready("load")
    BY <1>3 DEF LoadBits
  <2>2. PICK bits \in SUBSET Bits :
          /\ val' = [val EXCEPT ![Access.var] = bits]
          /\ Access.loc = "maskall" => ch' = ch /\ (MaskReadable => bits = {c \in Narrow : ch[c].mask})
    BY <1>3, LoadEffect
  <2>3. \A r, n : Load(r, n).loc = r /\ Load(r, n).var = n
    BY DEF Load
  <2>4. CASE TwoTask /\ at[2] = 7 /\ Access = Load("maskall", "mask")
    BY <1>1, <2>2, <2>3, <2>4
  <2>5. CASE Access.var # "mask" /\ ~(TwoTask /\ at[2] = 7)
    BY <1>2, <2>2, <2>5
  <2>6. \A i \in 1 .. 5 : HiddenRegs[i] # "mask"
    BY DEF HiddenRegs
  <2>7. ASSUME OldTask \/ CtrlTask \/ CommandTask PROVE ~TwoTask
    BY <2>7 DEF OldTask, CtrlTask, CommandTask, TwoTask, Two, H81At
  <2>8. QED
    BY <2>1, <2>3, <2>4, <2>5, <2>6, <2>7, LoadOps
<1>4. CASE PeekBits
  <2>1. LowTask /\ Access = Peek(LowReg, "reg")
    BY <1>4, OtherOps DEF PeekBits
  <2>2. Access.var = "reg"
    BY <2>1 DEF Peek
  <2>3. ~TwoTask
    BY <2>1 DEF LowTask, TogglesLow, TwoTask, Two, H81At
  <2>4. val' = val \/ val' = [val EXCEPT !["reg"] = pci[Access.loc]]
    BY <1>4, <2>2 DEF PeekBits
  <2>5. QED
    BY <1>2, <2>3, <2>4
<1>5. CASE OutPort \/ InPort \/ StoreBits \/ PutBits \/ FindLpcController
  <2>1. val' = val
    BY <1>5 DEF OutPort, InPort, StoreBits, PutBits, FindLpcController
  <2>2. ~(TwoTask /\ at[2] = 7)
    <3>1. ~Ended /\ Access.op # "load"
      BY <1>5 DEF OutPort, InPort, StoreBits, PutBits, FindLpcController, Ready
    <3>2. QED
      BY <3>1, TwoAccess DEF Load
  <2>3. QED
    BY <2>1, <2>2
<1>6. CASE Skip
  <2>1. val' = val /\ ~(at[2] = 7)
    BY <1>6, Positions DEF Skip, ShapeInv
  <2>2. QED
    BY <2>1
<1>7. QED
  BY <1>3, <1>4, <1>5, <1>6 DEF ScriptStep

(* No access of a script adds to the channels left open by mistake.        *)
LEMMA StraysScript ==
  ASSUME ShapeInv, MaskInv, ScriptStep
  PROVE  /\ Strays' \subseteq Strays
         /\ program = "h81" => Open' \cap was.masked = {}
<1>1. DmaTypeOK /\ ~Ended /\ UNCHANGED <<program, was, faults>>
  BY ShapeFacts, ScriptMoves
<1>2. program = "h81" => Open \cap was.masked = {} /\ InFlight = {} /\ InFlight' = {}
  <2>1. program = "h81" => InFlight = {} /\ InFlight' = {}
    BY <1>1 DEF InFlight, Simple
  <2>2. QED
    BY <2>1 DEF MaskInv
<1>3. TwoTask => program = "h81" /\ Two
  BY DEF TwoTask, Two, H81At
<1>4. \A c \in {1, 3} : SimpleTask(c) => program # "h81" /\ Simple(c)
  BY DEF SimpleTask, Simple
<1>5. Open' = {c \in Narrow : ~ch'[c].mask}
  BY DEF Open
<1>6. CASE Quiet /\ ~ChannelAccess
  <2>1. Open' = Open
    BY <1>1, <1>5, <1>6, QuietFields DEF Open
  <2>2. ASSUME NEW c \in InFlight PROVE c \in InFlight'
    <3>1. c \in {1, 3} /\ Simple(c) /\ at[2] > 5
      BY <2>2 DEF InFlight
    <3>2. SimpleTask(c) /\ at[2] \in {6, 7}
      <4>1. SimpleTask(c)
        BY <1>1, <3>1, Tasks
      <4>2. at[2] \in 1 .. 8
        BY <4>1 DEF SimpleTask
      <4>3. at[2] # 8
        BY <1>6, <3>1, <4>1 DEF ChannelAccess
      <4>4. QED
        BY <3>1, <4>1, <4>2, <4>3
    <3>3. Len(Now.steps) = 8
      BY <1>1, <3>1, <3>2, Lengths
    <3>4. GoesOn
      BY <3>2, <3>3, ScriptMoves DEF Proceeds
    <3>5. Simple(c)' /\ at'[2] > 5
      BY <1>1, <3>1, <3>2, <3>4, OnInTask
    <3>6. QED
      BY <3>1, <3>5 DEF InFlight
  <2>3. QED
    BY <1>1, <1>2, <2>1, <2>2 DEF Strays
<1>7. CASE \E c \in {1, 3} : SimpleTask(c) /\ at[2] \in {1, 8} /\ Masking(c, TRUE)
  <2>1. PICK c \in {1, 3} : SimpleTask(c) /\ Masking(c, TRUE)
    BY <1>7
  <2>2. Open' = Open \ {c}
    <3>1. \A d \in Narrow : ch'[d].mask = IF d = c THEN TRUE ELSE ch[d].mask
      BY <1>1, <2>1, MaskingSet
    <3>2. QED
      BY <1>5, <3>1 DEF Open
  <2>3. InFlight \subseteq {c}
    BY <1>4, <2>1, InFlightFacts
  <2>4. QED
    BY <1>1, <1>4, <2>1, <2>2, <2>3 DEF Strays
<1>8. CASE \E c \in {1, 3} : SimpleTask(c) /\ at[2] = 4 /\ ModeSetting(c, 72 + c)
  <2>1. PICK c \in {1, 3} : SimpleTask(c) /\ at[2] = 4 /\ ModeSetting(c, 72 + c)
    BY <1>8
  <2>2. Open' = Open
    <3>1. \A d \in Narrow : ch'[d].mask = ch[d].mask
      BY <1>1, <2>1, ModeSet
    <3>2. QED
      BY <1>5, <3>1 DEF Open
  <2>3. InFlight = {}
    BY <1>4, <2>1, InFlightFacts
  <2>4. QED
    BY <1>1, <1>4, <2>1, <2>2, <2>3 DEF Strays
<1>9. CASE \E c \in {1, 3} : SimpleTask(c) /\ at[2] = 5 /\ Masking(c, FALSE)
  <2>1. PICK c \in {1, 3} : SimpleTask(c) /\ at[2] = 5 /\ Masking(c, FALSE)
    BY <1>9
  <2>2. Open' \subseteq Open \cup {c}
    <3>1. \A d \in Narrow : d # c => ch'[d].mask = ch[d].mask
      BY <1>1, <2>1, MaskingSet
    <3>2. QED
      BY <1>5, <3>1 DEF Open
  <2>3. InFlight = {}
    BY <1>4, <2>1, InFlightFacts
  <2>4. Len(Now.steps) = 8
    BY <1>1, <2>1, Lengths
  <2>5. GoesOn
    BY <2>1, <2>4, ScriptMoves DEF Proceeds
  <2>6. Simple(c)' /\ at'[2] = 6
    BY <1>1, <1>4, <2>1, <2>5, OnInTask
  <2>7. c \in InFlight'
    BY <2>6 DEF InFlight
  <2>8. QED
    BY <1>1, <1>4, <2>1, <2>2, <2>3, <2>7 DEF Strays
<1>10. CASE TwoTask /\ at[2] = 8 /\ MaskedAs(Narrow)
  <2>1. Open' = {}
    <3>1. \A d \in Narrow : ch'[d].mask = (d \in Narrow)
      BY <1>1, <1>10, MaskedSet
    <3>2. QED
      BY <1>5, <3>1
  <2>2. QED
    BY <2>1 DEF Strays
<1>11. CASE TwoTask /\ at[2] = 9 /\ ModeSetting(1, 69)
  <2>1. Open' = Open
    <3>1. \A d \in Narrow : ch'[d].mask = ch[d].mask
      BY <1>1, <1>11, ModeSet
    <3>2. QED
      BY <1>5, <3>1 DEF Open
  <2>2. QED
    BY <1>1, <1>2, <1>3, <1>11, <2>1 DEF Strays
<1>12. CASE TwoTask /\ at[2] = 26 /\ MaskedAs(val["mask"])
  <2>1. was.masked \subseteq val["mask"]
    BY <1>3, <1>12 DEF MaskInv
  <2>2. Open' \cap was.masked = {}
    <3>1. \A d \in Narrow : ch'[d].mask = (d \in val["mask"])
      BY <1>1, <1>12, MaskedSet
    <3>2. QED
      BY <1>5, <2>1, <3>1
  <2>3. QED
    BY <1>1, <1>2, <1>3, <1>12, <2>2 DEF Strays
<1>13. QED
  BY <1>6, <1>7, <1>8, <1>9, <1>10, <1>11, <1>12, ChannelSteps

LEMMA StraysFinite ==
  IsFiniteSet(Strays)
<1>1. IsFiniteSet(Narrow)
  <2>1. 0 \in Int /\ 3 \in Int
    OBVIOUS
  <2>2. IsFiniteSet(0 .. 3)
    BY <2>1, FS_Interval, Zenon
  <2>3. QED
    BY <2>2, Zenon DEF Narrow
<1>2. Strays \in SUBSET Narrow
  BY DEF Strays, Open
<1>3. QED
  BY <1>1, <1>2, FS_Subset

LEMMA MaskScript ==
  ASSUME ShapeInv, MaskInv, ScriptStep, MaskReadable
  PROVE  MaskInv'
<1>1. DmaTypeOK /\ ~Ended /\ UNCHANGED <<program, was, faults>>
  BY ShapeFacts, ScriptMoves
<1>2. Strays' \subseteq Strays /\ (program = "h81" => Open' \cap was.masked = {})
  BY StraysScript
<1>3. Cardinality(Strays') <= faults'
  <2>1. IsFiniteSet(Strays)
    BY StraysFinite
  <2>2. Cardinality(Strays') <= Cardinality(Strays)
    BY <1>2, <2>1, FS_Subset
  <2>3. Cardinality(Strays') \in Nat /\ Cardinality(Strays) \in Nat /\ faults \in Nat
    <3>1. IsFiniteSet(Strays')
      BY <1>2, <2>1, FS_Subset
    <3>2. QED
      BY <2>1, <3>1, FS_CardinalityType, ShapeFacts, ProbeAssumption
  <2>4. QED
    BY <1>1, <2>2, <2>3 DEF MaskInv
<1>4. ASSUME Two', at'[2] > 7
      PROVE  TwoTask /\ at[2] > 6 /\ at'[2] = at[2] + 1
  <2>1. ~Leaves
    BY <1>4, Afresh
  <2>2. GoesOn
    BY <2>1, ScriptMoves DEF Proceeds
  <2>3. Two /\ at'[2] = at[2] + 1
    BY <1>1, <1>4, <2>2, OnInTask
  <2>4. QED
    BY <1>1, <1>4, <2>3, Tasks, Positions
<1>5. program = "h81" => Open \cap was.masked = {}
  BY DEF MaskInv
<1>6. was.masked \subseteq Narrow
  BY DEF ShapeInv
<1>7. Two' => program = "h81"
  BY <1>1 DEF Two, H81At
<1>8. ASSUME Two', at'[2] > 7
      PROVE  was.masked \subseteq val'["mask"]
  <2>1. TwoTask /\ at[2] > 6
    BY <1>4, <1>8
  <2>2. CASE val'["mask"] = {c \in Narrow : ch[c].mask}
    BY <1>5, <1>6, <1>7, <1>8, <2>2 DEF Open
  <2>3. CASE val'["mask"] = val["mask"] /\ at[2] # 7
    <3>1. Two /\ at[2] > 7
      BY <2>1, <2>3, Positions DEF TwoTask
    <3>2. QED
      BY <2>3, <3>1 DEF MaskInv
  <2>4. QED
    BY <2>1, <2>2, <2>3, MaskSaved
<1>9. ASSUME Two', at'[2] \in 8 .. 26
      PROVE  \A c \in Narrow \cap val'["mask"] : ch'[c].mask
  <2>1. TwoTask /\ at[2] > 6 /\ at[2] < 26 /\ at[2] \in Nat
    <3>1. at'[2] > 7 /\ at'[2] < 27
      BY <1>9
    <3>2. at[2] \in Nat
      BY Positions
    <3>3. TwoTask /\ at[2] > 6 /\ at'[2] = at[2] + 1
      BY <1>4, <1>9, <3>1
    <3>4. QED
      BY <3>1, <3>2, <3>3
  <2>2. CASE at[2] = 7
    <3>1. ch' = ch /\ val'["mask"] = {c \in Narrow : ch[c].mask}
      BY <2>1, <2>2, MaskSaved
    <3>2. QED
      BY <3>1
  <2>3. CASE at[2] # 7
    <3>1. val'["mask"] = val["mask"] /\ \A c \in Narrow \cap val["mask"] : ch[c].mask
      <4>1. Two /\ at[2] \in 8 .. 26
        BY <2>1, <2>3 DEF TwoTask
      <4>2. QED
        BY <2>3, <4>1, MaskSaved DEF MaskInv
    <3>2. CASE Quiet
      BY <1>1, <3>1, <3>2, QuietFields
    <3>3. CASE MaskedAs(Narrow)
      BY <1>1, <3>3, MaskedSet
    <3>4. CASE ModeSetting(1, 69)
      BY <1>1, <3>1, <3>4, ModeSet
    <3>5. \A c \in {1, 3} : ~SimpleTask(c)
      BY <2>1 DEF SimpleTask, Simple, TwoTask, Two, H81At
    <3>6. at[2] # 26
      BY <2>1
    <3>7. QED
      BY <3>2, <3>3, <3>4, <3>5, <3>6, ChannelSteps, Zenon
  <2>4. QED
    BY <2>2, <2>3
<1>10. QED
  BY <1>1, <1>2, <1>3, <1>8, <1>9 DEF MaskInv

(* A device opens no channel.                                              *)
LEMMA DeviceCloses ==
  ASSUME ShapeInv, Device
  PROVE  \E c \in Narrow :
           /\ ~ch[c].mask /\ \A d \in Narrow \ {c} : ch'[d] = ch[d]
           /\ \/ ~ch'[c].mask /\ ch'[c].tc = ch[c].tc
              \/ ch'[c].mask /\ ch'[c].count = AllOnes
<1>1. PICK c \in Narrow : ~ch[c].mask /\ \A d \in Narrow : ch'[d] = IF d = c THEN Cycle(ch[d]) ELSE ch[d]
  BY DeviceMasks
<1>2. \/ ~ch'[c].mask /\ ch'[c].tc = ch[c].tc
      \/ ch'[c].mask /\ ch'[c].count = AllOnes
  BY <1>1, CycleCounts, ShapeFacts
<1>3. QED
  BY <1>1, <1>2

LEMMA MaskDevice ==
  ASSUME ShapeInv, MaskInv, Device
  PROVE  MaskInv'
<1>1. PICK c \in Narrow : ~ch[c].mask /\ \A d \in Narrow \ {c} : ch'[d] = ch[d]
  BY DeviceCloses
<1>2. Open' \subseteq Open /\ \A d \in Narrow : ch[d].mask => ch'[d].mask
  BY <1>1 DEF Open
<1>3. UNCHANGED <<program, was, faults, at, val>> /\ InFlight' = InFlight /\ Two' = Two
  BY DeviceMoves
<1>4. Strays' \subseteq Strays
  BY <1>2, <1>3 DEF Strays
<1>5. Cardinality(Strays') <= faults'
  <2>1. IsFiniteSet(Strays)
    BY StraysFinite
  <2>2. Cardinality(Strays') <= Cardinality(Strays) /\ IsFiniteSet(Strays')
    BY <1>4, <2>1, FS_Subset
  <2>3. Cardinality(Strays') \in Nat /\ Cardinality(Strays) \in Nat /\ faults \in Nat
    BY <2>1, <2>2, FS_CardinalityType, ShapeFacts, ProbeAssumption
  <2>4. QED
    BY <1>3, <2>2, <2>3 DEF MaskInv
<1>6. QED
  BY <1>2, <1>3, <1>5 DEF MaskInv

LEMMA MaskRaise ==
  ASSUME ShapeInv, MaskInv, Raise
  PROVE  MaskInv'
<1>1. UNCHANGED <<ch, program, was, val>> /\ faults' = faults + 1
  BY RaiseMoves DEF dmaVars
<1>2. Open' = Open
  BY <1>1 DEF Open
<1>3. Strays' \subseteq Strays \cup InFlight
  BY <1>1, <1>2 DEF Strays
<1>4. Cardinality(Strays') <= faults'
  <2>1. IsFiniteSet(Strays) /\ IsFiniteSet(InFlight) /\ Cardinality(InFlight) <= 1
    BY StraysFinite, InFlightFacts
  <2>2. /\ IsFiniteSet(Strays \cup InFlight)
        /\ Cardinality(Strays \cup InFlight) =
             Cardinality(Strays) + Cardinality(InFlight) - Cardinality(Strays \cap InFlight)
    BY <2>1, FS_Union
  <2>3. Cardinality(Strays') <= Cardinality(Strays \cup InFlight) /\ IsFiniteSet(Strays')
    BY <1>3, <2>2, FS_Subset
  <2>4. IsFiniteSet(Strays \cap InFlight)
    BY <2>1, FS_Subset
  <2>5. Cardinality(Strays) \in Nat /\ Cardinality(InFlight) \in Nat /\ Cardinality(Strays') \in Nat
        /\ Cardinality(Strays \cap InFlight) \in Nat /\ faults \in Nat
    BY <2>1, <2>3, <2>4, FS_CardinalityType, ShapeFacts, ProbeAssumption
  <2>6. Cardinality(Strays) <= faults
    BY DEF MaskInv
  <2>7. QED
    BY <1>1, <2>1, <2>2, <2>3, <2>5, <2>6
<1>5. ~Two' \/ at'[2] = 1
  <2>1. CASE Leaves
    BY <2>1, Afresh
  <2>2. CASE at'[1] = at[1] /\ (BitTask \/ DisableTask)
    BY <2>2 DEF Two, H81At, BitTask, OneBit, DisableTask
  <2>3. QED
    BY <2>1, <2>2, RaiseMoves
<1>6. QED
  BY <1>1, <1>2, <1>4, <1>5 DEF MaskInv

LEMMA MaskStep ==
  ASSUME ShapeInv, MaskInv, MaskReadable, [ProbeNext]_probeVars
  PROVE  MaskInv'
<1>1. CASE UNCHANGED probeVars
  <2>1. UNCHANGED <<program, was, faults, at, val, ch>>
    BY <1>1 DEF probeVars, dmaVars
  <2>2. Strays' = Strays /\ Open' = Open /\ Two' = Two
    BY <2>1 DEF Strays, Open, InFlight, Simple, Two, H81At
  <2>3. QED
    BY <2>1, <2>2 DEF MaskInv
<1>2. QED
  BY <1>1, MaskDevice, MaskScript, MaskRaise DEF ProbeNext

LEMMA MaskInit == ProbeInit => MaskInv
<1> SUFFICES ASSUME ProbeInit PROVE MaskInv
  OBVIOUS
<1>1. at = <<1, 1>> /\ faults = 0 /\ was.masked = {c \in Narrow : ch[c].mask}
  BY DEF ProbeInit
<1>2. Open \cap was.masked = {} /\ Strays = {}
  BY <1>1 DEF Open, Strays
<1>3. Cardinality(Strays) <= faults
  BY <1>1, <1>2, FS_EmptySet
<1>4. QED
  BY <1>1, <1>2, <1>3 DEF MaskInv

-----------------------------------------------------------------------------
(* The counts.                                                             *)

LEMMA CountDevice ==
  ASSUME ShapeInv, MaskInv, CountInv, Device
  PROVE  CountInv'
<1>0. Open # {}
  BY DeviceCloses DEF Open
<1>1. PICK c \in Narrow :
        /\ ~ch[c].mask /\ \A d \in Narrow \ {c} : ch'[d] = ch[d]
        /\ ~ch'[c].mask \/ (ch'[c].mask /\ ch'[c].count = AllOnes)
  BY DeviceCloses
<1>2. UNCHANGED <<program, faults, at, val>> /\ Two' = Two /\ AllMasked' = AllMasked
  BY DeviceMoves
<1>3. InUse \subseteq Narrow
  BY ProbeAssumption
<1>4. ASSUME NEW d \in InUse
      PROVE  d \in Open' \/ ch'[d].count = AllOnes \/ AllMasked \/ (program = "z390" /\ d \in {1, 3})
  <2>1. ClosedFor(d)
    BY <1>0 DEF CountInv, AllLeftMasked
  <2>2. QED
    BY <1>1, <1>3, <2>1 DEF Open, ClosedFor
<1>5. ASSUME Two, at[2] \in 8 .. 26, NEW d \in InUse \cap val["mask"], ch[d].count = AllOnes
      PROVE  ch'[d].count = AllOnes
  <2>1. ch[d].mask
    BY <1>3, <1>5 DEF MaskInv
  <2>2. QED
    BY <1>1, <1>3, <1>5, <2>1
<1>6. QED
  BY <1>2, <1>4, <1>5 DEF CountInv, ClosedFor

LEMMA CountScript ==
  ASSUME ShapeInv, MaskInv, CountInv, MaskReadable, ScriptStep
  PROVE  CountInv'
<1>1. DmaTypeOK /\ ~Ended /\ UNCHANGED <<program, was, faults>> /\ InUse \subseteq Narrow /\ at[2] \in Nat
  BY ShapeFacts, ScriptMoves, ProbeAssumption, Positions
<1>2. \A c \in Narrow : ch'[c].count = ch[c].count
  BY CountsStay
<1>3. /\ \A c \in InUse : \/ c \in Open \/ ch[c].count = AllOnes \/ AllMasked
                          \/ program = "z390" /\ c \in {1, 3}
      /\ Two /\ at[2] \in 8 .. 26 => \A c \in InUse \cap val["mask"] : ch[c].count = AllOnes
  BY <1>1 DEF CountInv, ClosedFor, AllLeftMasked
<1>4. ASSUME TwoTask, at[2] \in 8 .. 25
      PROVE  AllMasked'
  <2>1. Len(Now.steps) = 31 /\ Two
    BY <1>1, <1>4, Lengths DEF TwoTask
  <2>2. GoesOn
    BY <1>4, <2>1, ScriptMoves DEF Proceeds
  <2>3. Two' /\ at'[2] = at[2] + 1
    BY <1>1, <2>1, <2>2, OnInTask
  <2>4. QED
    BY <1>4, <2>3 DEF AllMasked
<1>5. \A c \in InUse : \/ c \in Open' \/ ch'[c].count = AllOnes \/ AllMasked'
                       \/ program = "z390" /\ c \in {1, 3}
  <2>1. CASE TwoTask /\ at[2] \in 8 .. 25
    BY <1>4, <2>1
  <2>2. CASE TwoTask /\ at[2] = 26 /\ MaskedAs(val["mask"])
    <3>1. \A c \in InUse \cap val["mask"] : ch[c].count = AllOnes
      BY <1>3, <2>2 DEF TwoTask
    <3>2. \A c \in Narrow \ val["mask"] : c \in Open'
      BY <1>1, <2>2, MaskedSet DEF Open
    <3>3. QED
      BY <1>1, <1>2, <3>1, <3>2
  <2>3. CASE \E c \in {1, 3} : SimpleTask(c) /\ \A d \in Narrow \ {c} : ch'[d].mask = ch[d].mask
    <3>1. PICK c \in {1, 3} : SimpleTask(c) /\ \A d \in Narrow \ {c} : ch'[d].mask = ch[d].mask
      BY <2>3
    <3>2. program = "z390" /\ ~AllMasked
      BY <3>1 DEF SimpleTask, Simple, AllMasked, Two, H81At
    <3>3. QED
      BY <1>1, <1>2, <1>3, <3>1, <3>2 DEF Open
  <2>4. CASE Quiet /\ ~(TwoTask /\ at[2] \in {8, 9, 26})
    <3>1. AllMasked => TwoTask /\ at[2] \in 9 .. 26
      BY <1>1, Tasks DEF AllMasked
    <3>2. AllMasked => AllMasked'
      <4>1. AllMasked => TwoTask /\ at[2] \in 8 .. 25
        BY <1>1, <2>4, <3>1
      <4>2. QED
        BY <1>4, <4>1
    <3>3. Open' = Open
      BY <1>1, <2>4, QuietFields DEF Open
    <3>4. QED
      BY <1>1, <1>2, <1>3, <3>2, <3>3
  <2>5. CASE \E c \in {1, 3} : SimpleTask(c) /\ \/ Masking(c, TRUE)
                                                \/ ModeSetting(c, 72 + c)
                                                \/ Masking(c, FALSE)
    <3>1. PICK c \in {1, 3} : SimpleTask(c) /\ \/ Masking(c, TRUE)
                                               \/ ModeSetting(c, 72 + c)
                                               \/ Masking(c, FALSE)
      BY <2>5
    <3>2. ASSUME NEW b \in BOOLEAN, Masking(c, b)
          PROVE  \A d \in Narrow \ {c} : ch'[d].mask = ch[d].mask
      BY <1>1, <3>2, MaskingSet
    <3>3. ASSUME ModeSetting(c, 72 + c)
          PROVE  \A d \in Narrow \ {c} : ch'[d].mask = ch[d].mask
      BY <1>1, <3>3, ModeSet
    <3>4. \A d \in Narrow \ {c} : ch'[d].mask = ch[d].mask
      BY <3>1, <3>2, <3>3
    <3>5. QED
      BY <2>3, <3>1, <3>4
  <2>6. CASE TwoTask /\ at[2] \in {8, 9}
    BY <2>1, <2>6
  <2>7. Quiet /\ ~ChannelAccess => Quiet /\ ~(TwoTask /\ at[2] \in {8, 9, 26})
    BY DEF ChannelAccess
  <2>8. QED
    BY <2>2, <2>4, <2>5, <2>6, <2>7, ChannelSteps
<1>6. ASSUME Two', at'[2] \in 8 .. 26, NEW c \in InUse \cap val'["mask"]
      PROVE  ch'[c].count = AllOnes
  <2>1. ~Leaves
    BY <1>6, Afresh
  <2>2. GoesOn
    BY <2>1, ScriptMoves DEF Proceeds
  <2>3. Two /\ at[2] \in 7 .. 25
    <3>1. Two' = Two /\ at'[2] = at[2] + 1
      BY <1>1, <2>2, OnInTask
    <3>2. QED
      BY <1>1, <1>6, <3>1
  <2>4. TwoTask
    BY <1>1, <2>3, Tasks
  <2>5. CASE at[2] = 7
    <3>1. c \in Narrow /\ ch[c].mask
      BY <1>6, <2>4, <2>5, MaskSaved
    <3>2. ~AllMasked /\ program # "z390"
      BY <2>3, <2>5 DEF AllMasked, Two, H81At
    <3>3. ch[c].count = AllOnes
      BY <1>3, <1>6, <3>1, <3>2 DEF Open
    <3>4. QED
      BY <1>2, <3>1, <3>3
  <2>6. CASE at[2] # 7
    <3>1. val'["mask"] = val["mask"]
      BY <2>6, MaskSaved
    <3>2. QED
      BY <1>1, <1>2, <1>3, <1>6, <2>3, <2>6, <3>1
  <2>7. QED
    BY <2>5, <2>6
<1>7. QED
  BY <1>1, <1>5, <1>6 DEF CountInv, ClosedFor

(* An exception while all channels are masked is caught by the last task,  *)
(* so that it ends the script; elsewhere it leaves the channels alone.     *)
LEMMA CountRaise ==
  ASSUME ShapeInv, HeldInv, CountInv, Raise
  PROVE  CountInv'
<1>1. ~Ended /\ faults' = faults + 1 /\ Script' = Script /\ UNCHANGED <<ch, program, val>>
  BY RaiseMoves DEF dmaVars
<1>2. Open' = Open /\ faults' > 0
  BY <1>1, ShapeFacts, ProbeAssumption DEF Open
<1>3. ~(Two' /\ at'[2] \in 8 .. 26)
  <2>1. CASE Leaves
    BY <2>1, Afresh
  <2>2. CASE at'[1] = at[1] /\ (BitTask \/ DisableTask)
    BY <2>2 DEF Two, H81At, BitTask, OneBit, DisableTask
  <2>3. QED
    BY <2>1, <2>2, RaiseMoves
<1>4. CASE AllMasked
  <2>1. Open = {} /\ program = "h81" /\ at[1] = 18 /\ Len(Script) = 18
    BY <1>4, Positions DEF HeldInv, Open, AllMasked, Two, H81At
  <2>2. ~BitTask /\ ~DisableTask
    BY <1>4 DEF AllMasked, Two, H81At, BitTask, OneBit, DisableTask
  <2>3. Leaves
    BY <2>2, RaiseMoves
  <2>4. at'[1] = 19
    BY <2>1, <2>3 DEF Leaves
  <2>5. Ended'
    BY <1>1, <2>1, <2>4 DEF Ended
  <2>6. AllLeftMasked'
    BY <1>1, <1>2, <2>1, <2>5 DEF AllLeftMasked
  <2>7. QED
    BY <1>3, <2>6 DEF CountInv
<1>5. CASE ~AllMasked
  <2>1. \A c \in InUse : ClosedFor(c)'
    BY <1>1, <1>2, <1>5 DEF CountInv, ClosedFor, AllLeftMasked
  <2>2. QED
    BY <1>3, <2>1 DEF CountInv
<1>6. QED
  BY <1>4, <1>5

LEMMA CountStep ==
  ASSUME ShapeInv, HeldInv, MaskInv, CountInv, MaskReadable, [ProbeNext]_probeVars
  PROVE  CountInv'
<1>1. CASE UNCHANGED probeVars
  <2>1. UNCHANGED <<program, faults, at, val, ch>>
    BY <1>1 DEF probeVars, dmaVars
  <2>2. Open' = Open /\ Two' = Two /\ AllMasked' = AllMasked /\ Ended' = Ended
    BY <2>1 DEF Open, Two, H81At, AllMasked, Ended, Script
  <2>3. QED
    BY <2>1, <2>2 DEF CountInv, ClosedFor, AllLeftMasked
<1>2. QED
  BY <1>1, CountDevice, CountScript, CountRaise DEF ProbeNext

LEMMA CountInit == ProbeInit => CountInv
<1> SUFFICES ASSUME ProbeInit PROVE CountInv
  OBVIOUS
<1>1. at = <<1, 1>> /\ was.masked = {c \in Narrow : ch[c].mask}
  BY DEF ProbeInit
<1>2. was.masked = Narrow \ InUse /\ InUse \subseteq Narrow
  BY ShapeInit, ProbeAssumption DEF ShapeInv
<1>3. \A c \in InUse : c \in Open
  BY <1>1, <1>2 DEF Open
<1>4. ~Two
  BY <1>1 DEF Two, H81At
<1>5. QED
  BY <1>3, <1>4 DEF CountInv, ClosedFor

-----------------------------------------------------------------------------
(* Channels open past their end, and channels closed for good.             *)

(* A channel in use that is open has not completed, unless h81 opened it   *)
(* again from what it had saved of the mask register; z390 opens no channel*)
(* but 1 and 3.                                                            *)
EndInv ==
  /\ \A c \in InUse \cap Open :
       PastTheEnd(c) => \/ program = "z390" /\ c \in {1, 3}
                        \/ program = "h81" /\ "hidden" \in seen /\ c \notin val["mask"]
  /\ program = "z390" => Open \cap was.masked \subseteq {1, 3}

(* With no exception, try_simple_dma_operation masks its channel last.     *)
ClosedInv ==
  program = "z390" /\ faults = 0 =>
    /\ ~raised
    /\ at[1] > 15 => 1 \notin Open
    /\ at[1] > 16 => 3 \notin Open

(* What a script has seen it does not forget.                              *)
LEMMA SeenGrows ==
  ASSUME ShapeInv, ScriptStep
  PROVE  seen \subseteq seen'
BY DEF ScriptStep, OutPort, InPort, LoadBits, PeekBits, StoreBits, PutBits, FindLpcController, Skip

(* Without an exception under way the tasks follow one another.            *)
LEMMA InOrder ==
  ASSUME ShapeInv, ScriptStep, ~raised
  PROVE  ~raised' /\ (at'[1] = at[1] \/ at' = <<at[1] + 1, 1>>)
<1>1. CASE Advance
  BY <1>1 DEF Advance, NextTask
<1>2. CASE PeekBits \/ FindLpcController \/ Skip
  BY <1>2 DEF PeekBits, FindLpcController, Skip, NextTask
<1>3. QED
  BY <1>1, <1>2 DEF ScriptStep, OutPort, InPort, LoadBits, StoreBits, PutBits

(* What an access does to the masks.                                       *)
LEMMA OpenScript ==
  ASSUME ShapeInv, ScriptStep
  PROVE  \/ Open' = Open /\ ~ChannelAccess
         \/ \E c \in {1, 3} : SimpleTask(c) /\ at[2] \in {1, 8} /\ Open' = Open \ {c}
         \/ \E c \in {1, 3} : SimpleTask(c) /\ at[2] = 4 /\ Open' = Open
         \/ \E c \in {1, 3} : SimpleTask(c) /\ at[2] = 5 /\ Open' = Open \cup {c}
         \/ TwoTask /\ at[2] = 8 /\ Open' = {}
         \/ TwoTask /\ at[2] = 9 /\ Open' = Open
         \/ TwoTask /\ at[2] = 26 /\ Open' = Narrow \ val["mask"]
<1>1. DmaTypeOK /\ {1, 3} \subseteq Narrow
  BY ShapeFacts DEF Narrow
<1>2. ASSUME NEW c \in {1, 3}, NEW b \in BOOLEAN, Masking(c, b)
      PROVE  Open' = IF b THEN Open \ {c} ELSE Open \cup {c}
  <2>1. \A d \in Narrow : ch'[d].mask = IF d = c THEN b ELSE ch[d].mask
    BY <1>1, <1>2, MaskingSet
  <2>2. QED
    BY <1>1, <2>1 DEF Open
<1>3. ASSUME NEW c \in {1, 3}, NEW m, ModeSetting(c, m) PROVE Open' = Open
  BY <1>1, <1>3, ModeSet DEF Open
<1>4. ASSUME NEW S, MaskedAs(S) PROVE Open' = Narrow \ S
  <2>1. \A d \in Narrow : ch'[d].mask = (d \in S)
    BY <1>1, <1>4, MaskedSet
  <2>2. QED
    BY <2>1 DEF Open
<1>5. Quiet => Open' = Open
  BY <1>1, QuietFields DEF Open
<1>6. CASE \E c \in {1, 3} : SimpleTask(c) /\ at[2] \in {1, 8} /\ Masking(c, TRUE)
  BY <1>2, <1>6
<1>7. CASE \E c \in {1, 3} : SimpleTask(c) /\ at[2] = 5 /\ Masking(c, FALSE)
  BY <1>2, <1>7
<1>8. CASE \E c \in {1, 3} : SimpleTask(c) /\ at[2] = 4 /\ ModeSetting(c, 72 + c)
  BY <1>3, <1>8
<1>9. CASE TwoTask /\ at[2] = 9 /\ ModeSetting(1, 69)
  BY <1>3, <1>9
<1>10. CASE \/ TwoTask /\ at[2] = 8 /\ MaskedAs(Narrow)
            \/ TwoTask /\ at[2] = 26 /\ MaskedAs(val["mask"])
  BY <1>4, <1>10
<1>11. QED
  BY <1>5, <1>6, <1>7, <1>8, <1>9, <1>10, ChannelSteps

(* A unit more takes a channel that has not completed to zero, or past the *)
(* end, and then masks it.                                                 *)
LEMMA CycleEnd ==
  ASSUME NEW c \in Narrow, NEW r \in Channel, r.mode \in {0, 68 + c, 72 + c}, ~r.mask,
         r.count[1] = 0, ~(r.count[0] > 1)
  PROVE  Cycle(r).mask \/ (Cycle(r).count[1] = 0 /\ ~(Cycle(r).count[0] > 1))
<1>1. r.count \in Pair /\ r.count[0] \in Nat
  BY ByteAssumption DEF Channel, Pair, Data, Flip
<1>2. CASE r.count[0] = 0
  <2>1. r.count = Zero
    BY <1>1, <1>2 DEF Pair, Zero, Flip
  <2>2. ~AutoInit(r)
    <3>1. c \in {0, 1, 2, 3}
      BY NarrowChannels
    <3>2. r.mode \in {0, 68, 69, 70, 71, 72, 73, 74, 75}
      BY <3>1
    <3>3. QED
      BY <3>2 DEF AutoInit
  <2>3. Cycle(r) = [r EXCEPT !.addr = Inc(r.addr), !.count = Dec(r.count), !.tc = TRUE, !.mask = TRUE]
    BY <2>1, <2>2 DEF Cycle
  <2>4. QED
    BY <2>3 DEF Channel
<1>3. CASE r.count[0] = 1
  <2>1. r.count # Zero
    BY <1>3 DEF Zero, Flip
  <2>2. Cycle(r) = [r EXCEPT !.addr = Inc(r.addr), !.count = Dec(r.count)]
    BY <2>1 DEF Cycle
  <2>3. Dec(r.count)[1] = 0 /\ Dec(r.count)[0] = 0
    BY <1>1, <1>3 DEF Dec, Pair, Flip
  <2>4. Cycle(r).count = Dec(r.count)
    BY <2>2 DEF Channel
  <2>5. QED
    BY <2>3, <2>4
<1>4. QED
  BY <1>1, <1>2, <1>3

LEMMA EndDevice ==
  ASSUME ShapeInv, EndInv, Device
  PROVE  EndInv'
<1>1. PICK c \in Narrow : ~ch[c].mask /\ \A d \in Narrow : ch'[d] = IF d = c THEN Cycle(ch[d]) ELSE ch[d]
  BY DeviceMasks
<1>2. UNCHANGED <<program, was, val, seen>> /\ InUse \subseteq Narrow
  BY DeviceMoves, ProbeAssumption
<1>3. Open' \subseteq Open
  BY <1>1, CycleFields, ShapeFacts DEF Open
<1>4. ASSUME NEW d \in InUse \cap Open', PastTheEnd(d)' PROVE PastTheEnd(d)
  <2>1. d \in Narrow /\ ~ch'[d].mask /\ ch[d] \in Channel /\ ch[d].mode \in {0, 68 + d, 72 + d}
    BY <1>2, <1>4, ShapeFacts DEF Open
  <2>2. CASE d = c
    BY <1>1, <1>4, <2>1, <2>2, CycleEnd DEF PastTheEnd
  <2>3. CASE d # c
    BY <1>1, <1>4, <2>1, <2>3 DEF PastTheEnd
  <2>4. QED
    BY <2>2, <2>3
<1>5. QED
  BY <1>2, <1>3, <1>4 DEF EndInv

LEMMA EndScript ==
  ASSUME ShapeInv, EndInv, MaskReadable, ScriptStep
  PROVE  EndInv'
<1>1. UNCHANGED <<program, was>> /\ seen \subseteq seen' /\ InUse \subseteq Narrow /\ ~Ended
  BY ScriptMoves, SeenGrows, ProbeAssumption
<1>2. \A c \in Narrow : PastTheEnd(c)' = PastTheEnd(c)
  BY CountsStay DEF PastTheEnd
<1>3. TwoTask => program = "h81" /\ (at[2] > 1 => "hidden" \in seen)
  <2>1. safer_dma_test_two.needs = {"hidden"}
    BY DEF safer_dma_test_two, CaughtIf, Task
  <2>2. QED
    BY <1>1, <2>1 DEF TwoTask, Two, H81At, ShapeInv
<1>4. \A c \in {1, 3} : SimpleTask(c) => program = "z390"
  BY DEF SimpleTask, Simple
<1>5. \/ val'["mask"] = val["mask"]
      \/ TwoTask /\ Open' = Open /\ Open \cap val'["mask"] = {}
  <2>1. \/ val'["mask"] = val["mask"]
        \/ TwoTask /\ ch' = ch /\ val'["mask"] = {c \in Narrow : ch[c].mask}
    BY MaskSaved
  <2>2. QED
    BY <2>1 DEF Open
<1>6. CASE Open' = Open
  BY <1>1, <1>2, <1>3, <1>5, <1>6 DEF EndInv
<1>7. CASE \E c \in {1, 3} : SimpleTask(c) /\ Open' = Open \ {c}
  BY <1>1, <1>2, <1>4, <1>7 DEF EndInv
<1>8. CASE \E c \in {1, 3} : SimpleTask(c) /\ Open' = Open \cup {c}
  BY <1>1, <1>2, <1>4, <1>8 DEF EndInv
<1>9. CASE TwoTask /\ Open' = {}
  BY <1>9 DEF EndInv
<1>10. CASE TwoTask /\ at[2] = 26 /\ Open' = Narrow \ val["mask"]
  <2>1. val'["mask"] = val["mask"]
    BY <1>10, MaskSaved
  <2>2. QED
    BY <1>1, <1>3, <1>10, <2>1 DEF EndInv
<1>11. QED
  BY <1>6, <1>7, <1>8, <1>9, <1>10, OpenScript

LEMMA EndStep ==
  ASSUME ShapeInv, EndInv, MaskReadable, [ProbeNext]_probeVars
  PROVE  EndInv'
<1>1. CASE UNCHANGED <<ch, program, was, val, seen>>
  BY <1>1 DEF EndInv, Open, PastTheEnd
<1>2. UNCHANGED probeVars \/ Raise => UNCHANGED <<ch, program, was, val, seen>>
  BY RaiseMoves DEF probeVars, dmaVars
<1>3. QED
  BY <1>1, <1>2, EndDevice, EndScript DEF ProbeNext

LEMMA EndInit == ProbeInit => EndInv
<1> SUFFICES ASSUME ProbeInit PROVE EndInv
  OBVIOUS
<1>1. was.masked = {c \in Narrow : ch[c].mask} /\ InUse \subseteq Narrow
  BY ProbeAssumption DEF ProbeInit
<1>2. ASSUME NEW c \in InUse PROVE ~PastTheEnd(c)
  <2>1. PICK t \in BOOLEAN : ch[c] = Running(c, t)
    BY <1>1, <1>2, ChannelInit
  <2>2. Running(c, t).count[1] = 0 /\ Running(c, t).count[0] = 1
    BY DEF Running, ResetChannel, Zero, Flip
  <2>3. QED
    BY <2>1, <2>2 DEF PastTheEnd
<1>3. QED
  BY <1>1, <1>2 DEF EndInv, Open

LEMMA ClosedScript ==
  ASSUME ShapeInv, ClosedInv, ScriptStep
  PROVE  ClosedInv'
<1> SUFFICES ASSUME program = "z390", faults = 0
             PROVE  /\ ~raised'
                    /\ at'[1] > 15 => 1 \notin Open'
                    /\ at'[1] > 16 => 3 \notin Open'
  BY ScriptMoves DEF ClosedInv
<1>1. ~raised /\ (at[1] > 15 => 1 \notin Open) /\ (at[1] > 16 => 3 \notin Open)
  BY DEF ClosedInv
<1>2. ~raised' /\ at'[1] \in {at[1], at[1] + 1} /\ ~Ended /\ at[1] \in Nat /\ at[1] <= 16
  <2>1. Len(Script) = 16 /\ at[1] \in Nat
    BY Positions
  <2>2. ~Ended
    BY ScriptMoves
  <2>3. at[1] <= 16
    BY <2>1, <2>2 DEF Ended
  <2>4. QED
    BY <1>1, <2>1, <2>2, <2>3, InOrder
<1>3. ~TwoTask
  BY DEF TwoTask, Two, H81At
<1>4. ASSUME NEW c \in {1, 3}, SimpleTask(c)
      PROVE  at[1] = IF c = 1 THEN 15 ELSE 16
  BY <1>4 DEF SimpleTask, Simple
<1>5. ASSUME NEW c \in {1, 3}, SimpleTask(c), at[2] # 8 PROVE at'[1] = at[1]
  <2>1. Len(Now.steps) = 8 /\ at[2] \in 1 .. 8
    BY <1>2, <1>5, Lengths DEF SimpleTask
  <2>2. ~Skip /\ ~PeekBits
    <3>1. Now.needs = {}
      BY <1>5 DEF SimpleTask, try_simple_dma_operation, Caught, Task
    <3>2. ~LowTask
      BY <1>4, <1>5 DEF LowTask, TogglesLow
    <3>3. QED
      BY <3>1, <3>2, OtherOps DEF Skip, PeekBits
  <2>3. GoesOn
    BY <1>5, <2>1, <2>2, ScriptMoves DEF Proceeds
  <2>4. QED
    BY <2>3 DEF GoesOn
<1>6. at[1] \in {15, 16} => \E c \in {1, 3} : SimpleTask(c)
  BY <1>2, Tasks DEF Simple
<1>7. CASE \E c \in {1, 3} : SimpleTask(c) /\ at[2] = 8 /\ Open' = Open \ {c}
  BY <1>1, <1>2, <1>4, <1>7
<1>8. CASE \E c \in {1, 3} : SimpleTask(c) /\ at[2] # 8 /\ Open' \subseteq Open \cup {c}
  BY <1>1, <1>2, <1>4, <1>5, <1>8
<1>9. CASE Open' = Open /\ ~ChannelAccess
  <2>1. ~\E c \in {1, 3} : SimpleTask(c) /\ at[2] = 8
    BY <1>9 DEF ChannelAccess
  <2>2. CASE at[1] \in {15, 16}
    BY <1>6, <1>8, <1>9, <2>1, <2>2
  <2>3. CASE at[1] \notin {15, 16}
    BY <1>1, <1>2, <1>9, <2>3
  <2>4. QED
    BY <2>2, <2>3
<1>10. \/ Open' = Open /\ ~ChannelAccess
       \/ \E c \in {1, 3} : SimpleTask(c) /\ at[2] = 8 /\ Open' = Open \ {c}
       \/ \E c \in {1, 3} : SimpleTask(c) /\ at[2] # 8 /\ Open' \subseteq Open \cup {c}
  BY <1>3, OpenScript
<1>11. QED
  BY <1>7, <1>8, <1>9, <1>10

LEMMA ClosedStep ==
  ASSUME ShapeInv, ClosedInv, [ProbeNext]_probeVars
  PROVE  ClosedInv'
<1>1. CASE UNCHANGED probeVars
  BY <1>1 DEF probeVars, dmaVars, ClosedInv, Open
<1>2. CASE Device
  <2>1. PICK c \in Narrow : ~ch[c].mask /\ \A d \in Narrow \ {c} : ch'[d] = ch[d]
    BY <1>2, DeviceCloses
  <2>2. Open' \subseteq Open
    BY <2>1 DEF Open
  <2>3. QED
    BY <1>2, <2>2, DeviceMoves DEF ClosedInv
<1>3. CASE Raise
  <2>1. faults' # 0
    BY <1>3, RaiseMoves, ShapeFacts, ProbeAssumption
  <2>2. QED
    BY <2>1 DEF ClosedInv
<1>4. QED
  BY <1>1, <1>2, <1>3, ClosedScript DEF ProbeNext

LEMMA ClosedInit == ProbeInit => ClosedInv
BY DEF ProbeInit, ClosedInv

(* Where the mask register reads back the masks: z390 ends with channels 1 *)
(* and 3 masked if nothing raised, opens no other channel, leaves at most  *)
(* one open that was masked for each access that raised, and closes no     *)
(* other that has not completed.  h81 opens none that was masked, masks one*)
(* in use only if it completed or, an access having raised, all four, and  *)
(* opens one past its end only if that completed after it had been read as *)
(* open.                                                                   *)
THEOREM ProbeMasks ==
  ASSUME MaskReadable
  PROVE  ProbeSpec => []MasksKept
<1> DEFINE Inv == ShapeInv /\ HeldInv /\ MaskInv /\ CountInv /\ EndInv /\ ClosedInv
<1>1. ASSUME Inv
      PROVE  MasksKept
  <2> SUFFICES ASSUME Ended PROVE MasksKept
    BY DEF MasksKept
  <2>1. InFlight = {} /\ ~AllMasked /\ InUse \subseteq Narrow
    BY <1>1, InFlightFacts, Tasks, ProbeAssumption DEF AllMasked
  <2>2. Cardinality(Open \cap was.masked) <= faults
    <3>1. Strays = Open \cap was.masked
      BY <2>1 DEF Strays
    <3>2. QED
      BY <1>1, <3>1 DEF MaskInv
  <2>3. ASSUME NEW c \in InUse \ Open, ~(program = "z390" /\ c \in {1, 3}), ~AllLeftMasked
        PROVE  PastTheEnd(c)
    <3>1. ch[c].count = AllOnes
      BY <1>1, <2>1, <2>3 DEF CountInv, ClosedFor
    <3>2. QED
      BY <3>1, ByteAssumption DEF PastTheEnd, AllOnes, Flip
  <2>4. CASE program = "z390"
    <3>1. at[1] > 16
      BY <1>1, <2>4, Positions DEF Ended
    <3>2. faults = 0 => Open \cap {1, 3} = {}
      BY <1>1, <2>4, <3>1, Positions DEF ClosedInv
    <3>3. \A c \in InUse \ {1, 3} : c \in Open <=> ~PastTheEnd(c)
      BY <1>1, <2>3, <2>4 DEF EndInv, AllLeftMasked
    <3>4. Open \cap was.masked \subseteq {1, 3}
      BY <1>1, <2>4 DEF EndInv
    <3>5. QED
      BY <2>2, <2>4, <3>2, <3>3, <3>4 DEF MasksKept
  <2>5. CASE program = "h81"
    <3>1. Open \cap was.masked = {}
      BY <1>1, <2>5 DEF MaskInv
    <3>2. \A c \in InUse \ Open : PastTheEnd(c) \/ (faults > 0 /\ Open = {})
      BY <2>3, <2>5 DEF AllLeftMasked
    <3>3. \A c \in InUse \cap Open : PastTheEnd(c) => "hidden" \in seen /\ c \notin val["mask"]
      BY <1>1, <2>5 DEF EndInv
    <3>4. QED
      BY <2>5, <3>1, <3>2, <3>3 DEF MasksKept
  <2>6. QED
    BY <1>1, <2>4, <2>5, Positions
<1>2. Inv /\ [ProbeNext]_probeVars => Inv'
  BY ShapeStep, HeldStep, MaskStep, CountStep, EndStep, ClosedStep
<1>3. ProbeInit => Inv
  BY ShapeInit, HeldInit, MaskInit, CountInit, EndInit, ClosedInit
<1> HIDE DEF Inv
<1>4. QED
  BY <1>1, <1>2, <1>3, PTL DEF ProbeSpec

-----------------------------------------------------------------------------
(* The command register.                                                   *)

(* What the scripts save of the command register is the status register.   *)
LEMMA CommandSaved ==
  ASSUME ShapeInv, ScriptStep
  PROVE  \/ /\ val'["cmd"] = val["cmd"]
            /\ ~(OldTask /\ at[2] = 1) /\ (CommandTask => Skip)
         \/ /\ (OldTask /\ at[2] = 1) \/ CommandTask \/ (TwoTask /\ at[2] = 6)
            /\ Quiet
            /\ 2 \in val'["cmd"] => ch[2].tc
            /\ ~ch'[2].tc
<1>0. /\ ~Ended
      /\ OldTask /\ at[2] = 1 => Access = Load("command", "cmd")
      /\ CommandTask => Access = Load("command", "cmd")
      /\ OldTask => ~Skip
  <2>1. ~Ended
    BY ScriptMoves
  <2>2. OldTask => Now.needs = {}
    BY DEF OldTask, test_traditional_dma_regs, Caught, Task
  <2>3. QED
    BY <2>1, <2>2, H81Access DEF Skip
<1>1. val \in [Names -> SUBSET Bits] /\ "cmd" \in Names
  BY ShapeFacts DEF Names
<1>2. \A n, b : n # "cmd" /\ val' = [val EXCEPT ![n] = b] => val'["cmd"] = val["cmd"]
  BY <1>1
<1>3. CASE LoadBits
  <2>1. Ready("load") /\ Quiet
    BY <1>3, LoadEffect DEF LoadBits
  <2>2. PICK bits \in SUBSET Bits :
          /\ val' = [val EXCEPT ![Access.var] = bits]
          /\ Access.loc = "command" => (2 \in bits => ch[2].tc) /\ ~ch'[2].tc
    <3>1. 2 \in Narrow
      BY DEF Narrow
    <3>2. PICK bits \in SUBSET Bits :
            /\ val' = [val EXCEPT ![Access.var] = bits]
            /\ Access.loc = "command" => \A c \in Narrow : /\ c \in bits <=> ch[c].tc
                                                           /\ ~ch'[c].tc
      BY <1>3, LoadEffect
    <3>3. Access.loc = "command" => (2 \in bits => ch[2].tc) /\ ~ch'[2].tc
      BY <3>1, <3>2, Zenon
    <3>4. QED
      BY <3>2, <3>3
  <2>3. \A r, n : Load(r, n).loc = r /\ Load(r, n).var = n
    BY DEF Load
  <2>4. ASSUME Access = Load("command", "cmd") PROVE (2 \in val'["cmd"] => ch[2].tc) /\ ~ch'[2].tc
    <3>1. val'["cmd"] = bits /\ Access.loc = "command"
      BY <1>1, <2>2, <2>3, <2>4
    <3>2. QED
      BY <2>2, <3>1
  <2>5. CASE Access.var # "cmd"
    <3>1. Access # Load("command", "cmd")
      BY <2>3, <2>5
    <3>2. QED
      BY <1>0, <1>2, <2>1, <2>2, <2>5, <3>1 DEF Ready
  <2>6. \A i \in 1 .. 5 : HiddenRegs[i] # "cmd"
    BY DEF HiddenRegs
  <2>7. \/ Access.var # "cmd"
        \/ /\ (OldTask /\ at[2] = 1) \/ CommandTask \/ (TwoTask /\ at[2] = 6)
           /\ Access = Load("command", "cmd")
    BY <2>1, <2>3, <2>6, LoadOps
  <2>8. QED
    BY <2>1, <2>4, <2>5, <2>7
<1>4. CASE PeekBits
  <2>1. Access.var = "reg"
    BY <1>4, OtherOps DEF PeekBits, Peek
  <2>2. val' = val \/ val' = [val EXCEPT !["reg"] = pci[Access.loc]]
    BY <1>4, <2>1 DEF PeekBits
  <2>3. Access # Load("command", "cmd") /\ ~Skip
    BY <1>4 DEF PeekBits, Ready, Skip, Load
  <2>4. QED
    BY <1>0, <1>2, <2>2, <2>3
<1>5. CASE OutPort \/ InPort \/ StoreBits \/ PutBits \/ FindLpcController
  <2>1. val' = val /\ Access.op # "load"
    BY <1>5 DEF OutPort, InPort, StoreBits, PutBits, FindLpcController, Ready
  <2>2. Access # Load("command", "cmd")
    BY <2>1 DEF Load
  <2>3. QED
    BY <1>0, <2>1, <2>2
<1>6. CASE Skip
  BY <1>0, <1>6 DEF Skip
<1>7. QED
  BY <1>3, <1>4, <1>5, <1>6 DEF ScriptStep

(* The accesses that put the command register back.                        *)
CommandBack == (OldTask /\ at[2] = 4) \/ (DisableTask /\ at[2] = 2) \/ (TwoTask /\ at[2] = 25)

LEMMA CommandSteps ==
  ASSUME ShapeInv, ScriptStep
  PROVE  \/ command' = command /\ ~CommandBack
         \/ (OldTask /\ at[2] = 2) \/ (DisableTask /\ at[2] = 1 /\ GoesOn)
         \/ CommandBack /\ command' = val["cmd"] \cap (0 .. 7)
<1>1. CASE StoreBits
  <2>1. /\ Ready("store") /\ ~Ended
        /\ WriteBits(Access.loc, Xor(val[Access.var], Access.xor))
    BY <1>1 DEF StoreBits, Ready
  <2>2. /\ Access.loc # "command" => command' = command
        /\ Access.loc = "command" => command' = Xor(val[Access.var], Access.xor) \cap (0 .. 7)
    BY <2>1, StoreTypes, WriteEffect
  <2>3. CASE \/ OldTask /\ at[2] = 4 /\ Access = Store("command", "cmd")
             \/ DisableTask /\ at[2] = 2 /\ Access = Store("command", "cmd")
             \/ TwoTask /\ at[2] = 25 /\ Access = Store("command", "cmd")
    <3>1. Access.loc = "command" /\ Xor(val[Access.var], Access.xor) = val["cmd"]
      BY <2>3, StoreMeans
    <3>2. QED
      BY <2>2, <2>3, <3>1 DEF CommandBack
  <2>4. CASE OldTask /\ at[2] = 2
    BY <2>4
  <2>5. CASE DisableTask /\ at[2] = 1
    <3>1. Len(Now.steps) = 2
      BY <2>1, <2>5, Lengths
    <3>2. ~Skip /\ ~PeekBits
      <4>1. ~Skip
        BY <2>1 DEF Skip, Ready
      <4>2. ~PeekBits
        BY <2>1 DEF PeekBits, Ready
      <4>3. QED
        BY <4>1, <4>2
    <3>3. GoesOn
      BY <2>5, <3>1, <3>2, ScriptMoves DEF Proceeds
    <3>4. QED
      BY <2>5, <3>3
  <2>6. ASSUME Access.loc # "command", ~CommandBack
        PROVE  command' = command /\ ~CommandBack
    BY <2>2, <2>6
  <2>7. /\ \A r, n : Store(r, n).loc = r
        /\ \A r, n, b : Toggled(r, n, b).loc = r
    BY DEF Store, Toggled
  <2>8. ASSUME LowTask \/ BitTask PROVE ~CommandBack
    BY <2>8 DEF CommandBack, LowTask, TogglesLow, BitTask, OneBit, OldTask, DisableTask, TwoTask, Two, H81At
  <2>9. ASSUME TwoTask, at[2] # 25 PROVE ~CommandBack
    BY <2>9 DEF CommandBack, OldTask, DisableTask, TwoTask, Two, H81At
  <2>10. CASE \/ LowTask /\ at[2] = 2 /\ Access = Toggled(LowReg, "reg", 0)
              \/ LowTask /\ at[2] = 3 /\ Access = Store(LowReg, "reg")
              \/ BitTask /\ at[2] = 1 /\ \E b \in 0 .. 7 : Access = Toggled("ctrl", "ctrl", b)
              \/ BitTask /\ at[2] = 3 /\ Access = Store("ctrl", "ctrl")
    <3>1. LowTask => LowReg # "command"
      BY DEF LowTask, PciRegs
    <3>2. Access.loc # "command"
      BY <2>7, <2>10, <3>1
    <3>3. QED
      BY <2>6, <2>8, <2>10, <3>2
  <2>11. CASE \/ TwoTask /\ at[2] \in {11, 14, 17} /\ \E b \in {8, 16, 24} : Access = Toggled("ctrl", "reg", b)
              \/ TwoTask /\ at[2] \in {12, 15, 18} /\ Access = Store("ctrl", "reg")
              \/ TwoTask /\ at[2] = 21 /\ Access = Store("addr", "reg")
              \/ TwoTask /\ at[2] = 24 /\ Access = Store("tc", "reg")
              \/ TwoTask /\ at[2] = 26 /\ Access = Store("maskall", "mask")
              \/ TwoTask /\ at[2] \in 27 .. 31 /\ Access = Store(HiddenRegs[at[2] - 26], HiddenRegs[at[2] - 26])
    <3>1. \A i \in 27 .. 31 : HiddenRegs[i - 26] # "command"
      BY DEF HiddenRegs
    <3>2. Access.loc # "command"
      BY <2>7, <2>11, <3>1
    <3>3. TwoTask /\ at[2] # 25
      BY <2>11
    <3>4. QED
      BY <2>6, <2>9, <3>2, <3>3
  <2>12. QED
    BY <2>1, <2>3, <2>4, <2>5, <2>10, <2>11, StoreOps
<1>2. CASE PutBits
  <2>1. Ready("put") /\ ~Ended /\ WriteBits(Access.loc, Access.bits)
    BY <1>2 DEF PutBits, Ready
  <2>2. Access.loc # "command" => command' = command
    BY <2>1, PutTypes, WriteEffect
  <2>3. \A r, b : Put(r, b).loc = r
    BY DEF Put
  <2>4. Access.loc # "command" /\ TwoTask /\ at[2] # 25
    BY <2>1, <2>3, OtherOps
  <2>5. ~CommandBack
    BY <2>4 DEF CommandBack, OldTask, DisableTask, TwoTask, Two, H81At
  <2>6. QED
    BY <2>2, <2>4, <2>5
<1>3. CASE OutPort \/ InPort \/ LoadBits \/ PeekBits \/ FindLpcController
  <2>1. command' = command /\ ~Ended /\ Access.op # "store"
    BY <1>3 DEF OutPort, InPort, LoadBits, PeekBits, FindLpcController, Ready
  <2>2. ~CommandBack
    <3>1. \A r, n : Access # Store(r, n)
      BY <2>1 DEF Store
    <3>2. ~(OldTask /\ at[2] = 4) /\ ~(DisableTask /\ at[2] = 2)
      BY <2>1, <3>1, H81Access
    <3>3. ~(TwoTask /\ at[2] = 25)
      BY <2>1, <3>1, TwoAccess
    <3>4. QED
      BY <3>2, <3>3 DEF CommandBack
  <2>3. QED
    BY <2>1, <2>2
<1>4. CASE Skip
  <2>1. command' = command /\ at[2] = 1
    BY <1>4, Positions DEF Skip, ShapeInv
  <2>2. QED
    BY <2>1 DEF CommandBack
<1>5. QED
  BY <1>1, <1>2, <1>3, <1>4 DEF ScriptStep

(* A channel 2 that has completed stays so, unless the script opens it.    *)
LEMMA Done2Script ==
  ASSUME ShapeInv, ScriptStep, Done2, ~(TwoTask /\ at[2] = 26 /\ 2 \notin val["mask"])
  PROVE  Done2'
<1>1. DmaTypeOK /\ 2 \in Narrow /\ 2 \notin {1, 3}
  BY ShapeFacts DEF Narrow
<1>2. ch[2].mask /\ ch[2].count = AllOnes /\ 2 \in InUse
  BY DEF Done2
<1>3. ch'[2].count = AllOnes
  BY <1>1, <1>2, CountsStay
<1>4. ch'[2].mask
  <2>1. CASE Quiet
    BY <1>1, <1>2, <2>1, QuietFields
  <2>2. ASSUME NEW c \in {1, 3}, NEW b \in BOOLEAN, Masking(c, b) PROVE ch'[2].mask
    BY <1>1, <1>2, <2>2, MaskingSet
  <2>3. ASSUME NEW c \in {1, 3}, NEW m, ModeSetting(c, m) PROVE ch'[2].mask
    BY <1>1, <1>2, <2>3, ModeSet
  <2>4. ASSUME NEW S, MaskedAs(S), 2 \in S PROVE ch'[2].mask
    BY <1>1, <2>4, MaskedSet
  <2>5. 2 \in Narrow /\ (TwoTask /\ at[2] = 26 => 2 \in val["mask"])
    BY <1>1
  <2>6. \/ Quiet
        \/ \E c \in {1, 3}, b \in BOOLEAN : Masking(c, b)
        \/ \E c \in {1, 3}, m \in 0 .. 255 : ModeSetting(c, m)
        \/ MaskedAs(Narrow)
        \/ TwoTask /\ at[2] = 26 /\ MaskedAs(val["mask"])
    <3>1. \A c \in {1, 3} : 72 + c \in 0 .. 255
      OBVIOUS
    <3>2. 1 \in {1, 3} /\ 69 \in 0 .. 255
      OBVIOUS
    <3>3. QED
      BY <3>1, <3>2, ChannelSteps
  <2>7. QED
    BY <2>1, <2>2, <2>3, <2>4, <2>5, <2>6
<1>5. QED
  BY <1>2, <1>3, <1>4 DEF Done2

LEMMA Done2Device ==
  ASSUME ShapeInv, MaskInv, Device, program = "h81"
  PROVE  /\ Done2 => Done2'
         /\ ch'[2].tc => ch[2].tc \/ Done2'
<1>1. PICK c \in Narrow :
        /\ ~ch[c].mask /\ \A d \in Narrow \ {c} : ch'[d] = ch[d]
        /\ \/ ~ch'[c].mask /\ ch'[c].tc = ch[c].tc
           \/ ch'[c].mask /\ ch'[c].count = AllOnes
  BY DeviceCloses
<1>2. 2 \in Narrow
  BY DEF Narrow
<1>3. CASE c # 2
  BY <1>1, <1>2, <1>3 DEF Done2
<1>4. CASE c = 2
  <2>1. 2 \in InUse
    <3>1. 2 \in Open
      BY <1>1, <1>2, <1>4 DEF Open
    <3>2. QED
      BY <1>2, <3>1 DEF MaskInv, ShapeInv
  <2>2. ~Done2
    BY <1>1, <1>4 DEF Done2
  <2>3. QED
    BY <1>1, <1>4, <2>1, <2>2 DEF Done2
<1>5. QED
  BY <1>3, <1>4

(* Past the saving of the mask register, safer_dma_test_two goes on or the *)
(* script ends.                                                            *)
LEMMA LateScript ==
  ASSUME ShapeInv, ScriptStep \/ Raise, LatePart
  PROVE  LatePart'
<1>1. ~Ended /\ UNCHANGED <<program, was>> /\ Script' = Script
  BY ScriptMoves, RaiseMoves
<1>2. Two /\ at[2] > 7 /\ TwoTask
  BY <1>1, Tasks DEF LatePart
<1>3. CASE Leaves
  <2>1. Len(Script) = 18 /\ at[1] = 18
    BY <1>2, Positions DEF Two, H81At
  <2>2. at'[1] = 19
    BY <1>3, <2>1 DEF Leaves
  <2>3. Ended'
    BY <1>1, <2>1, <2>2 DEF Ended
  <2>4. QED
    BY <2>3 DEF LatePart
<1>4. CASE GoesOn
  <2>1. Two' /\ at'[2] = at[2] + 1 /\ at[2] \in Nat
    <3>1. at[2] \in Nat
      BY Positions
    <3>2. QED
      BY <1>1, <1>2, <1>4, <3>1, OnInTask
  <2>2. QED
    BY <1>2, <2>1 DEF LatePart
<1>5. ScriptStep => GoesOn \/ Leaves
  BY ScriptMoves DEF Proceeds
<1>6. Raise => Leaves
  <2>1. ~BitTask /\ ~DisableTask
    BY <1>2 DEF BitTask, OneBit, DisableTask, Two, H81At
  <2>2. QED
    BY <2>1, RaiseMoves
<1>7. QED
  BY <1>3, <1>4, <1>5, <1>6

(* A bit of an earlier transfer is no longer part of what the script saved *)
(* once it has saved it again, before task 17.                             *)
LEMMA StaleStays ==
  ASSUME ShapeInv, ScriptStep, program = "h81", ~raised, Stale
  PROVE  /\ Stale' \/ StaleLeft'
         /\ (CommandTask => Skip) => Stale'
<1>1. /\ ~Ended /\ UNCHANGED <<program, was>> /\ at[1] \in Nat /\ at[1] <= 18
      /\ at'[1] = at[1] \/ at' = <<at[1] + 1, 1>>
  <2>1. Len(Script) = 18 /\ at[1] \in Nat
    BY Positions
  <2>2. ~Ended /\ UNCHANGED <<program, was>>
    BY ScriptMoves
  <2>3. at[1] <= 18
    BY <2>1, <2>2 DEF Ended
  <2>4. QED
    BY <2>1, <2>2, <2>3, InOrder
<1>2. CASE at[1] >= 17
  <2>1. "hidden" \notin seen
    BY <1>1, <1>2 DEF Stale
  <2>2. DisableTask \/ TwoTask
    BY <1>1, <1>2, Tasks DEF H81At, Two
  <2>3. Now.needs = {"hidden"}
    BY <2>2 DEF DisableTask, TwoTask, WithFinally, safer_dma_test_two, CaughtIf, Task
  <2>4. seen' = seen
    BY <2>1, <2>3 DEF ScriptStep, OutPort, InPort, LoadBits, PeekBits, StoreBits, PutBits,
                      FindLpcController, Skip, Ready
  <2>5. QED
    BY <1>1, <2>1, <2>4 DEF Stale
<1>3. CASE at[1] < 17 /\ at'[1] < 17
  BY <1>1, <1>3 DEF Stale
<1>4. CASE at[1] = 16 /\ at'[1] = 17
  <2>1. StaleLeft'
    BY <1>1, <1>4 DEF Stale, StaleLeft, H81At
  <2>2. CommandTask
    <3>1. ~\/ ResidueTask \/ FindTask \/ LowTask \/ SimpleTask(1) \/ SimpleTask(3)
           \/ OldTask \/ CtrlTask \/ BitTask \/ DisableTask \/ TwoTask
      BY <1>4 DEF ResidueTask, FindTask, LowTask, TogglesLow, SimpleTask, Simple, OldTask, CtrlTask,
                  BitTask, OneBit, DisableTask, TwoTask, Two, H81At
    <3>2. QED
      BY <1>1, <3>1, Where
  <2>3. Now.needs = {"hidden"}
    BY <2>2 DEF CommandTask, Bare, Task
  <2>4. Skip => Stale'
    BY <1>1, <2>3 DEF Skip, Stale
  <2>5. QED
    BY <2>1, <2>2, <2>4
<1>5. QED
  BY <1>1, <1>2, <1>3, <1>4

(* Task 17 toggles it away, or is skipped as nothing hidden was seen.      *)
LEMMA StaleGoes ==
  ASSUME ShapeInv, ScriptStep, program = "h81", ~raised, StaleLeft
  PROVE  Stale' \/ CommandMoved'
<1>1. ~Ended /\ UNCHANGED <<program, was>> /\ DisableTask /\ at[2] = 1
  BY ScriptMoves, Tasks DEF StaleLeft
<1>2. Now.needs = {"hidden"}
  BY <1>1 DEF DisableTask, WithFinally, Task
<1>3. CASE Skip
  BY <1>1, <1>2, <1>3 DEF Skip, Stale, StaleLeft
<1>4. CASE ~Skip
  <2>1. ~PeekBits
    <3>1. ~LowTask
      BY <1>1 DEF DisableTask, H81At, LowTask, TogglesLow
    <3>2. QED
      BY <3>1, OtherOps DEF PeekBits
  <2>2. Len(Now.steps) = 2
    BY <1>1, Lengths
  <2>3. GoesOn
    BY <1>1, <1>4, <2>1, <2>2, ScriptMoves DEF Proceeds
  <2>4. at'[1] = 17 /\ at'[2] = 2
    BY <1>1, <2>3, OnInTask DEF StaleLeft, H81At
  <2>5. QED
    BY <1>1, <2>4 DEF CommandMoved, H81At, StaleLeft
<1>5. QED
  BY <1>3, <1>4

LEMMA CommandScript ==
  ASSUME ShapeInv, MaskInv, CommandInv, MaskReadable, ScriptStep
  PROVE  CommandInv'
<1>1. ~Ended /\ UNCHANGED <<program, was, faults>> /\ at[2] \in Nat
  BY ScriptMoves, Positions
<1>2. ASSUME program = "z390" PROVE command' = command
  <2>1. ~OldTask /\ ~DisableTask /\ ~TwoTask
    BY <1>2 DEF OldTask, DisableTask, TwoTask, Two, H81At
  <2>2. QED
    BY <2>1, CommandSteps DEF CommandBack
<1>3. ASSUME program = "h81", faults = 0
      PROVE  /\ ~raised'
             /\ 2 \in val'["cmd"] => Done2' \/ Stale'
             /\ 2 \in command' => Done2' \/ CommandMoved' \/ Stale' \/ StaleLeft'
             /\ Two' /\ at'[2] > 7 /\ 2 \in val'["cmd"] => 2 \in val'["mask"]
             /\ Two' /\ at'[2] = 26 /\ 2 \in command' => 2 \in val'["cmd"]
             /\ ch'[2].tc => Done2' \/ StaleBit' \/ LatePart'
  <2>1. /\ ~raised
        /\ 2 \in val["cmd"] => Done2 \/ Stale
        /\ 2 \in command => Done2 \/ CommandMoved \/ Stale \/ StaleLeft
        /\ Two /\ at[2] > 7 /\ 2 \in val["cmd"] => 2 \in val["mask"]
        /\ Two /\ at[2] = 26 /\ 2 \in command => 2 \in val["cmd"]
        /\ ch[2].tc => Done2 \/ StaleBit \/ LatePart
    BY <1>3 DEF CommandInv
  <2>2. ASSUME 2 \in val["cmd"], TwoTask, at[2] = 26 PROVE 2 \in val["mask"]
    BY <2>1, <2>2 DEF TwoTask
  <2>3. ASSUME 2 \in val["cmd"], CommandTask => Skip PROVE Done2' \/ Stale'
    <3>1. CASE Done2
      BY <2>2, <2>3, <3>1, Done2Script
    <3>2. CASE Stale
      BY <1>3, <2>1, <2>3, <3>2, StaleStays
    <3>3. QED
      BY <2>1, <2>3, <3>1, <3>2
  <2>4. ASSUME ch[2].tc, (OldTask /\ at[2] = 1) \/ CommandTask \/ (TwoTask /\ at[2] = 6)
        PROVE  Done2' \/ Stale'
    <3>1. ~LatePart
      BY <1>1, <2>4 DEF LatePart, OldTask, CommandTask, TwoTask, Two, H81At
    <3>2. ~(TwoTask /\ at[2] = 26)
      BY <2>4 DEF OldTask, CommandTask, TwoTask, Two, H81At
    <3>3. CASE Done2
      BY <3>2, <3>3, Done2Script
    <3>4. CASE StaleBit
      <4>1. at[1] = 1 /\ 2 \in was.done
        BY <3>4 DEF StaleBit, H81At
      <4>2. at'[1] = 1 \/ at'[1] = 2
        BY <2>1, <4>1, InOrder
      <4>3. QED
        BY <1>1, <4>1, <4>2 DEF Stale
    <3>5. QED
      BY <2>1, <2>4, <3>1, <3>3, <3>4
  <2>5. 2 \in val'["cmd"] => Done2' \/ Stale'
    BY <2>3, <2>4, CommandSaved
  <2>6. ASSUME 2 \in command' PROVE TwoTask /\ at[2] = 25 => 2 \in val["cmd"]
    <3>1. TwoTask => ~OldTask /\ ~DisableTask
      BY DEF TwoTask, Two, H81At, OldTask, DisableTask
    <3>2. QED
      BY <2>6, <3>1, CommandSteps DEF CommandBack
  <2>7. ASSUME Two', at'[2] > 7
        PROVE  TwoTask /\ at[2] > 6 /\ at'[2] = at[2] + 1
    <3>1. ~Leaves
      BY <2>7, Afresh
    <3>2. GoesOn
      BY <3>1, ScriptMoves DEF Proceeds
    <3>3. Two /\ at'[2] = at[2] + 1
      BY <1>1, <2>7, <3>2, OnInTask
    <3>4. TwoTask
      BY <1>1, <3>3, Tasks
    <3>5. QED
      BY <1>1, <2>7, <3>3, <3>4
  <2>8. ASSUME Two', at'[2] > 7 PROVE val'["cmd"] = val["cmd"]
    <3>1. TwoTask /\ at[2] # 6
      BY <2>7, <2>8
    <3>2. ~OldTask /\ ~CommandTask
      BY <3>1 DEF TwoTask, Two, H81At, OldTask, CommandTask
    <3>3. QED
      BY <3>1, <3>2, CommandSaved
  <2>9. ASSUME Two', at'[2] > 7, 2 \in val'["cmd"] PROVE 2 \in val'["mask"]
    <3>1. TwoTask /\ at[2] > 6 /\ 2 \in val["cmd"] /\ 2 \in Narrow
      BY <2>7, <2>8, <2>9 DEF Narrow
    <3>2. CASE at[2] = 7
      <4>0. ~Stale
        <5>1. safer_dma_test_two.needs = {"hidden"}
          BY DEF safer_dma_test_two, CaughtIf, Task
        <5>2. "hidden" \in seen /\ at[1] = 18
          BY <1>1, <3>1, <3>2, <5>1 DEF ShapeInv, TwoTask, Two, H81At
        <5>3. QED
          BY <5>2 DEF Stale
      <4>1. val'["mask"] = {c \in Narrow : ch[c].mask} /\ ch[2].mask
        BY <2>1, <3>1, <3>2, <4>0, MaskSaved DEF Done2
      <4>2. QED
        BY <3>1, <4>1
    <3>3. CASE at[2] # 7
      <4>1. Two /\ at[2] > 7 /\ val'["mask"] = val["mask"]
        BY <1>1, <3>1, <3>3, MaskSaved DEF TwoTask
      <4>2. QED
        BY <2>1, <3>1, <4>1
    <3>4. QED
      BY <3>2, <3>3
  <2>10. ASSUME Two', at'[2] = 26, 2 \in command' PROVE 2 \in val'["cmd"]
    <3>1. at'[2] > 7
      BY <2>10
    <3>2. TwoTask /\ at[2] = 25
      BY <1>1, <2>7, <2>10, <3>1
    <3>3. QED
      BY <2>6, <2>8, <2>10, <3>1, <3>2
  <2>11. ASSUME 2 \in command' PROVE Done2' \/ CommandMoved' \/ Stale' \/ StaleLeft'
    <3>2. CASE CommandBack /\ command' = val["cmd"] \cap (0 .. 7)
      <4>1. ~CommandTask
        BY <3>2 DEF CommandBack, OldTask, DisableTask, TwoTask, Two, CommandTask, H81At
      <4>2. QED
        BY <2>3, <2>11, <3>2, <4>1
    <3>3. CASE OldTask /\ at[2] = 2
      <4>1. Len(Now.steps) = 5 /\ H81At(1)
        BY <1>1, <3>3, Lengths DEF OldTask
      <4>2. GoesOn
        BY <3>3, <4>1, ScriptMoves DEF Proceeds
      <4>3. at'[1] = at[1] /\ at'[2] = 3
        BY <1>1, <3>3, <4>2, OnInTask
      <4>4. H81At(1)' /\ at'[2] = 3
        BY <1>1, <4>1, <4>3 DEF H81At
      <4>5. QED
        BY <4>4 DEF CommandMoved
    <3>4. CASE DisableTask /\ at[2] = 1 /\ GoesOn
      <4>1. at'[1] = at[1] /\ at'[2] = 2
        BY <1>1, <3>4, OnInTask
      <4>2. H81At(17)' /\ at'[2] = 2
        BY <1>1, <3>4, <4>1 DEF DisableTask, H81At
      <4>3. QED
        BY <4>2 DEF CommandMoved
    <3>5. CASE command' = command /\ ~CommandBack
      <4>1. Done2 \/ CommandMoved \/ Stale \/ StaleLeft
        BY <2>1, <2>11, <3>5
      <4>2. ASSUME Done2 PROVE Done2'
        <5>1. ASSUME TwoTask, at[2] = 26 PROVE 2 \in val["mask"]
          BY <2>1, <2>2, <2>11, <3>5, <5>1 DEF TwoTask
        <5>2. QED
          BY <4>2, <5>1, Done2Script
      <4>3. ASSUME CommandMoved PROVE CommandMoved'
        <5>1. ~(H81At(1) /\ at[2] = 4) /\ ~(H81At(17) /\ at[2] = 2)
          BY <1>1, <3>5, Tasks DEF CommandBack
        <5>2. H81At(1) /\ at[2] = 3
          BY <4>3, <5>1 DEF CommandMoved
        <5>3. OldTask
          BY <1>1, <5>2, Tasks
        <5>4. Len(Now.steps) = 5
          BY <1>1, <5>3, Lengths
        <5>5. GoesOn
          BY <5>2, <5>4, ScriptMoves DEF Proceeds
        <5>6. at'[1] = at[1] /\ at'[2] = 4
          BY <1>1, <5>2, <5>5, OnInTask
        <5>7. H81At(1)' /\ at'[2] = 4
          BY <1>1, <5>2, <5>6 DEF H81At
        <5>8. QED
          BY <5>7 DEF CommandMoved
      <4>4. ASSUME Stale PROVE Stale' \/ StaleLeft'
        BY <1>3, <2>1, <4>4, StaleStays
      <4>5. ASSUME StaleLeft PROVE Stale' \/ CommandMoved'
        BY <1>3, <2>1, <4>5, StaleGoes
      <4>6. QED
        BY <4>1, <4>2, <4>3, <4>4, <4>5
    <3>6. QED
      BY <3>2, <3>3, <3>4, <3>5, CommandSteps
  <2>12. ASSUME ch'[2].tc PROVE Done2' \/ StaleBit' \/ LatePart'
    <3>1. ch[2].tc
      BY <2>12, CountsStay DEF Narrow
    <3>2. ASSUME LatePart PROVE LatePart'
      BY <3>2, LateScript
    <3>3. ASSUME Done2, ~LatePart PROVE Done2'
      <4>1. ~(TwoTask /\ at[2] = 26)
        BY <3>3 DEF LatePart, TwoTask
      <4>2. QED
        BY <3>3, <4>1, Done2Script
    <3>4. ~StaleBit
      <4>1. OldTask /\ at[2] = 1 => ~ch'[2].tc
        BY CommandSaved
      <4>2. StaleBit => OldTask /\ at[2] = 1
        BY <1>1, Tasks DEF StaleBit
      <4>3. QED
        BY <2>12, <4>1, <4>2
    <3>5. QED
      BY <2>1, <3>1, <3>2, <3>3, <3>4
  <2>13. ~raised'
    BY <2>1, InOrder
  <2>14. QED
    BY <2>5, <2>9, <2>10, <2>11, <2>12, <2>13
<1>4. QED
  BY <1>1, <1>2, <1>3 DEF CommandInv

LEMMA CommandDevice ==
  ASSUME ShapeInv, MaskInv, CommandInv, Device
  PROVE  CommandInv'
<1>1. /\ UNCHANGED <<program, faults, command, at, val, raised>> /\ LatePart' = LatePart /\ Two' = Two
      /\ CommandMoved' = CommandMoved /\ Stale' = Stale /\ StaleLeft' = StaleLeft /\ StaleBit' = StaleBit
  BY DeviceMoves DEF CommandMoved, H81At, LatePart, Stale, StaleLeft, StaleBit
<1>2. program = "h81" => (Done2 => Done2') /\ (ch'[2].tc => ch[2].tc \/ Done2')
  BY Done2Device
<1>3. QED
  BY <1>1, <1>2 DEF CommandInv

LEMMA CommandRaise ==
  ASSUME ShapeInv, CommandInv, Raise
  PROVE  CommandInv'
<1>1. UNCHANGED <<program, command>> /\ faults' # 0
  BY RaiseMoves, ShapeFacts, ProbeAssumption
<1>2. QED
  BY <1>1 DEF CommandInv

LEMMA CommandStep ==
  ASSUME ShapeInv, MaskInv, CommandInv, MaskReadable, [ProbeNext]_probeVars
  PROVE  CommandInv'
<1>1. CASE UNCHANGED probeVars
  <2>1. UNCHANGED <<program, faults, command, at, val, ch, was, seen, raised>>
    BY <1>1 DEF probeVars, dmaVars
  <2>2. /\ Done2' = Done2 /\ CommandMoved' = CommandMoved /\ Two' = Two /\ LatePart' = LatePart
        /\ Stale' = Stale /\ StaleLeft' = StaleLeft /\ StaleBit' = StaleBit
    BY <2>1 DEF Done2, CommandMoved, Two, H81At, Ended, Script, LatePart, Stale, StaleLeft, StaleBit
  <2>3. QED
    BY <2>1, <2>2 DEF CommandInv
<1>2. QED
  BY <1>1, CommandDevice, CommandScript, CommandRaise DEF ProbeNext

LEMMA CommandInit == ProbeInit => CommandInv
<1> SUFFICES ASSUME ProbeInit PROVE CommandInv
  OBVIOUS
<1>1. /\ at = <<1, 1>> /\ command = {} /\ val = [n \in {"reg", "cmd", "mask"} \cup PciRegs |-> {}]
      /\ ~raised /\ was.done = {c \in Narrow : ch[c].tc}
  BY DEF ProbeInit
<1>2. val["cmd"] = {}
  BY <1>1
<1>3. ~Two
  BY <1>1 DEF Two, H81At
<1>4. program = "h81" /\ ch[2].tc => StaleBit
  BY <1>1 DEF StaleBit, H81At, Narrow
<1>5. QED
  BY <1>1, <1>2, <1>3, <1>4 DEF CommandInv

(* Where the mask register reads back the masks, a script that ended with  *)
(* no exception left controller 0 disabled only if channel 2 completed     *)
(* while it ran, or if the bit of an earlier transfer of channel 2 was     *)
(* still there when it began and no hidden register had it save once more. *)
THEOREM ProbeDisables ==
  ASSUME MaskReadable
  PROVE  ProbeSpec => []DisabledOnlyAfterChannel2
<1>1. ASSUME ShapeInv, CommandInv
      PROVE  DisabledOnlyAfterChannel2
  <2>1. SUFFICES ASSUME Ended, faults = 0, 2 \in command
                 PROVE  (2 \in InUse /\ PastTheEnd(2)) \/ (2 \in was.done /\ "hidden" \notin seen)
    BY DEF DisabledOnlyAfterChannel2
  <2>2. program = "h81"
    BY <1>1, <2>1, Positions DEF CommandInv
  <2>0. Len(Script) = 18 /\ at[1] \in Nat
    BY <1>1, <2>2, Positions
  <2>3. ~CommandMoved /\ ~StaleLeft /\ at[1] > 17
    BY <2>0, <2>1 DEF CommandMoved, StaleLeft, H81At, Ended
  <2>4. Done2 \/ Stale
    BY <1>1, <2>1, <2>2, <2>3 DEF CommandInv
  <2>5. Done2 => 2 \in InUse /\ PastTheEnd(2)
    BY ByteAssumption DEF Done2, PastTheEnd, AllOnes, Flip
  <2>6. Stale => 2 \in was.done /\ "hidden" \notin seen
    BY <2>0, <2>3 DEF Stale
  <2>7. QED
    BY <2>4, <2>5, <2>6
<1>2. ShapeInv /\ MaskInv /\ CommandInv /\ [ProbeNext]_probeVars => (ShapeInv /\ MaskInv /\ CommandInv)'
  BY ShapeStep, MaskStep, CommandStep
<1>3. QED
  BY <1>1, <1>2, ShapeInit, MaskInit, CommandInit, PTL DEF ProbeSpec

-----------------------------------------------------------------------------
(* The LPC registers.                                                      *)

LEMMA HiddenNames ==
  /\ \A i \in 1 .. 5 : HiddenRegs[i] \in PciRegs /\ HiddenRegs[i] \in Names
  /\ \A i \in 1 .. 5 : HiddenRegs[i] \notin {"reg", "cmd", "mask"}
  /\ \A i, j \in 1 .. 5 : HiddenRegs[i] = HiddenRegs[j] => i = j
  /\ {"ctrl", "addr", "tc"} \subseteq PciRegs
  /\ {"reg", "cmd", "mask", "ctrl"} \subseteq Names
BY DEF HiddenRegs, PciRegs, Names

(* The register to be put back, where the script is.                       *)
LEMMA UndoAt ==
  /\ TogglesLow /\ LowReg \in PciRegs => Undo = (IF at[2] = 3 THEN {LowReg} ELSE {}) /\ UndoVar = "reg"
  /\ OneBit => Undo = (IF at[2] \in {2, 3} THEN {"ctrl"} ELSE {}) /\ UndoVar = "ctrl"
  /\ Two => /\ UndoVar = "reg"
            /\ at[2] \in {12, 15, 18} => Undo = {"ctrl"}
            /\ at[2] = 21 => Undo = {"addr"}
            /\ at[2] = 24 => Undo = {"tc"}
            /\ at[2] \notin {12, 15, 18, 21, 24} => Undo = {}
  /\ ~TogglesLow /\ ~OneBit /\ ~Two => Undo = {}
<1>1. {"ctrl", "addr", "tc"} \subseteq PciRegs
  BY HiddenNames
<1>2. TogglesLow => ~OneBit /\ ~Two
  BY DEF TogglesLow, OneBit, Two, H81At
<1>3. OneBit => ~Two
  BY DEF OneBit, Two, H81At
<1>4. TogglesLow /\ LowReg \in PciRegs => Undo = (IF at[2] = 3 THEN {LowReg} ELSE {}) /\ UndoVar = "reg"
  BY <1>2 DEF Undo, UndoVar
<1>5. OneBit => Undo = (IF at[2] \in {2, 3} THEN {"ctrl"} ELSE {}) /\ UndoVar = "ctrl"
  BY <1>1, <1>2, <1>3 DEF Undo, UndoVar
<1>6. ASSUME Two
      PROVE  /\ UndoVar = "reg"
             /\ at[2] \in {12, 15, 18} => Undo = {"ctrl"}
             /\ at[2] = 21 => Undo = {"addr"}
             /\ at[2] = 24 => Undo = {"tc"}
             /\ at[2] \notin {12, 15, 18, 21, 24} => Undo = {}
  BY <1>1, <1>2, <1>3, <1>6 DEF Undo, UndoVar
<1>7. ~TogglesLow /\ ~OneBit /\ ~Two => Undo = {}
  BY DEF Undo
<1>8. QED
  BY <1>4, <1>5, <1>6, <1>7

(* And where it goes on to.                                                *)
LEMMA UndoNext ==
  ASSUME ShapeInv, ~Ended, UNCHANGED <<program, was>>, GoesOn
  PROVE  /\ LowTask => Undo' = (IF at[2] = 2 THEN {LowReg} ELSE {}) /\ UndoVar' = "reg"
         /\ BitTask => Undo' = (IF at[2] \in {1, 2} THEN {"ctrl"} ELSE {}) /\ UndoVar' = "ctrl"
         /\ TwoTask => /\ UndoVar' = "reg"
                       /\ at[2] \in {11, 14, 17} => Undo' = {"ctrl"}
                       /\ at[2] = 20 => Undo' = {"addr"}
                       /\ at[2] = 23 => Undo' = {"tc"}
                       /\ at[2] \notin {11, 14, 17, 20, 23} => Undo' = {}
         /\ ~LowTask /\ ~BitTask /\ ~TwoTask => Undo' = {}
<1>1. /\ at'[2] = at[2] + 1 /\ Two' = Two /\ OneBit' = OneBit /\ TogglesLow' = TogglesLow /\ LowReg' = LowReg
  BY OnInTask
<1>2. at[2] \in Nat
  BY Positions
<1>3. {"ctrl", "addr", "tc"} \subseteq PciRegs
  BY HiddenNames
<1>4. TogglesLow => ~OneBit /\ ~Two
  BY DEF TogglesLow, OneBit, Two, H81At
<1>5. OneBit => ~Two
  BY DEF OneBit, Two, H81At
<1>6. LowTask => TogglesLow /\ LowReg \in PciRegs
  BY DEF LowTask
<1>7. (BitTask => OneBit) /\ (TwoTask => Two)
  BY DEF BitTask, TwoTask
<1>8. LowTask => Undo' = (IF at[2] = 2 THEN {LowReg} ELSE {}) /\ UndoVar' = "reg"
  BY <1>1, <1>2, <1>4, <1>6 DEF Undo, UndoVar
<1>9. BitTask => Undo' = (IF at[2] \in {1, 2} THEN {"ctrl"} ELSE {}) /\ UndoVar' = "ctrl"
  BY <1>1, <1>2, <1>3, <1>4, <1>5, <1>7 DEF Undo, UndoVar
<1>10. ASSUME TwoTask
       PROVE  /\ UndoVar' = "reg"
              /\ at[2] \in {11, 14, 17} => Undo' = {"ctrl"}
              /\ at[2] = 20 => Undo' = {"addr"}
              /\ at[2] = 23 => Undo' = {"tc"}
              /\ at[2] \notin {11, 14, 17, 20, 23} => Undo' = {}
  <2>1. Two' /\ ~OneBit' /\ ~TogglesLow'
    BY <1>1, <1>4, <1>5, <1>7, <1>10
  <2>2. UndoVar' = "reg"
    BY <2>1 DEF UndoVar
  <2>3. at'[2] \in {12, 15, 18} => Undo' = {"ctrl"}
    BY <1>3, <2>1 DEF Undo
  <2>4. at'[2] = 21 => Undo' = {"addr"}
    BY <1>3, <2>1 DEF Undo
  <2>5. at'[2] = 24 => Undo' = {"tc"}
    BY <1>3, <2>1 DEF Undo
  <2>6. at'[2] \notin {12, 15, 18, 21, 24} => Undo' = {}
    BY <2>1 DEF Undo
  <2>7. QED
    BY <1>1, <1>2, <2>2, <2>3, <2>4, <2>5, <2>6
<1>11. ~LowTask /\ ~BitTask /\ ~TwoTask => Undo' = {}
  <2>1. ~LowTask /\ ~BitTask /\ ~TwoTask => ~TogglesLow /\ ~OneBit /\ ~Two
    BY Tasks
  <2>2. ~TogglesLow' /\ ~OneBit' /\ ~Two' => Undo' = {}
    BY DEF Undo
  <2>3. QED
    BY <1>1, <2>1, <2>2
<1>12. QED
  BY <1>8, <1>9, <1>10, <1>11

(* What the scripts' accesses do to the LPC registers and to what is saved *)
(* of them.                                                                *)
BackKept == \A r \in PciRegs : Back(r)' = Back(r)

LEMMA ToggleKeeps ==
  ASSUME ShapeInv, NEW r \in PciRegs, NEW bits, PciWritten(r, bits), val' = val,
         Undo = {}, Undo' = {r}, val[UndoVar'] = pci[r]
  PROVE  BackKept /\ \A q \in Undo' \cap ReadOnly : pci'[q] = val'[UndoVar']
<1>1. pci \in [PciRegs -> SUBSET Bits]
  BY ShapeFacts
<1>2. \A q \in PciRegs : q # r => pci'[q] = pci[q]
  BY <1>1 DEF PciWritten
<1>3. r \in ReadOnly => pci'[r] = pci[r]
  BY DEF PciWritten
<1>4. QED
  BY <1>2, <1>3 DEF BackKept, Back

LEMMA RestoreKeeps ==
  ASSUME ShapeInv, NEW r \in PciRegs, PciWritten(r, val[UndoVar]),
         Undo = {r}, Undo' = {}, r \in ReadOnly => pci[r] = val[UndoVar]
  PROVE  BackKept /\ pci'[r] = val[UndoVar]
<1>1. pci \in [PciRegs -> SUBSET Bits]
  BY ShapeFacts
<1>2. \A q \in PciRegs : q # r => pci'[q] = pci[q]
  BY <1>1 DEF PciWritten
<1>3. pci'[r] = val[UndoVar]
  BY <1>1 DEF PciWritten
<1>4. QED
  BY <1>2, <1>3 DEF BackKept, Back

LEMMA QuietKeeps ==
  ASSUME pci' = pci, \/ Undo = {} /\ Undo' = {}
                     \/ Undo' = Undo /\ val'[UndoVar'] = val[UndoVar]
  PROVE  BackKept
BY DEF BackKept, Back

LEMMA ScriptAccess ==
  ASSUME ShapeInv, ScriptStep
  PROVE  /\ Skip => /\ at[2] = 1 /\ NextTask /\ ~(Now.needs \subseteq seen)
                    /\ UNCHANGED <<pci, val, seen>>
         /\ ~Skip => Now.needs \subseteq seen
         /\ ~Skip /\ Access.op = "store" => /\ UNCHANGED <<val, seen>>
                                            /\ Access.loc \in PciRegs =>
                                                 PciWritten(Access.loc, Xor(val[Access.var], Access.xor))
                                            /\ Access.loc \notin PciRegs => pci' = pci
         /\ ~Skip /\ Access.op = "put" => /\ UNCHANGED <<val, seen>>
                                          /\ Access.loc \in PciRegs => PciWritten(Access.loc, Access.bits)
                                          /\ Access.loc \notin PciRegs => pci' = pci
         /\ ~Skip /\ Access.op = "load" => /\ UNCHANGED <<pci, seen>>
                                           /\ \E bits : /\ val' = [val EXCEPT ![Access.var] = bits]
                                                        /\ Access.loc \in PciRegs => bits = pci[Access.loc]
         /\ ~Skip /\ Access.op = "peek" => /\ pci' = pci
                                           /\ \/ NextTask /\ UNCHANGED <<val, seen>>
                                              \/ /\ val' = [val EXCEPT ![Access.var] = pci[Access.loc]]
                                                 /\ at' = <<at[1], at[2] + 1>>
         /\ ~Skip /\ Access.op \in {"out", "in", "find"} => UNCHANGED <<pci, val>>
<1>1. Skip => at[2] = 1 /\ NextTask /\ ~(Now.needs \subseteq seen) /\ UNCHANGED <<pci, val, seen>>
  BY Positions DEF Skip, ShapeInv
<1>2. ~Skip => \/ OutPort /\ Ready("out")
               \/ InPort /\ Ready("in")
               \/ LoadBits /\ Ready("load")
               \/ PeekBits /\ Ready("peek")
               \/ StoreBits /\ Ready("store")
               \/ PutBits /\ Ready("put")
               \/ FindLpcController /\ Ready("find")
  BY DEF ScriptStep, OutPort, InPort, LoadBits, PeekBits, StoreBits, PutBits, FindLpcController
<1>3. \A o : Ready(o) => Access.op = o /\ Now.needs \subseteq seen
  BY DEF Ready
<1>4. StoreBits => /\ UNCHANGED <<val, seen>>
                   /\ Access.loc \in PciRegs => PciWritten(Access.loc, Xor(val[Access.var], Access.xor))
                   /\ Access.loc \notin PciRegs => pci' = pci
  BY StoreTypes, WriteEffect DEF StoreBits
<1>5. PutBits => /\ UNCHANGED <<val, seen>>
                 /\ Access.loc \in PciRegs => PciWritten(Access.loc, Access.bits)
                 /\ Access.loc \notin PciRegs => pci' = pci
  BY PutTypes, WriteEffect DEF PutBits
<1>6. LoadBits => /\ UNCHANGED <<pci, seen>>
                  /\ \E bits : /\ val' = [val EXCEPT ![Access.var] = bits]
                               /\ Access.loc \in PciRegs => bits = pci[Access.loc]
  <2>1. LoadBits => UNCHANGED <<pci, seen>>
    BY DEF LoadBits
  <2>2. QED
    BY <2>1, LoadEffect
<1>7. PeekBits => /\ pci' = pci
                  /\ \/ NextTask /\ UNCHANGED <<val, seen>>
                     \/ /\ val' = [val EXCEPT ![Access.var] = pci[Access.loc]]
                        /\ at' = <<at[1], at[2] + 1>>
  BY DEF PeekBits
<1>8. OutPort \/ InPort \/ FindLpcController => UNCHANGED <<pci, val>>
  BY DEF OutPort, InPort, FindLpcController
<1>9. ~Skip /\ Access.op = "store" => StoreBits
  BY <1>2, <1>3
<1>10. ~Skip /\ Access.op = "put" => PutBits
  BY <1>2, <1>3
<1>11. ~Skip /\ Access.op = "load" => LoadBits
  BY <1>2, <1>3
<1>12. ~Skip /\ Access.op = "peek" => PeekBits
  BY <1>2, <1>3
<1>13. ~Skip /\ Access.op \in {"out", "in", "find"} => OutPort \/ InPort \/ FindLpcController
  BY <1>2, <1>3
<1>14. ~Skip => Now.needs \subseteq seen
  BY <1>2, <1>3
<1>15. QED
  BY <1>1, <1>4, <1>5, <1>6, <1>7, <1>8, <1>9, <1>10, <1>11, <1>12, <1>13, <1>14, Zenon

(* What Saved asks for, by the task the script is in.                      *)
LEMMA SavedFresh ==
  ASSUME Leaves, OneBit' /\ "hidden" \in seen' => val'["ctrl"] = pci'["ctrl"]
  PROVE  Saved'
<1>1. at'[2] = 1 /\ Undo' = {}
  BY Afresh
<1>2. OneBit' /\ "hidden" \in seen' => val'["ctrl"] = Back("ctrl")'
  BY <1>1 DEF Back
<1>3. \A i \in 1 .. 5 : ~(at'[2] > i)
  BY <1>1
<1>4. QED
  BY <1>1, <1>2, <1>3 DEF Saved

LEMMA SavedLow ==
  ASSUME ShapeInv, ~Ended, UNCHANGED <<program, was>>, GoesOn, LowTask,
         \A q \in Undo' \cap ReadOnly : pci'[q] = val'[UndoVar'],
         at[2] = 1 => val'["reg"] = pci'[LowReg]
  PROVE  Saved'
<1>1. at'[2] = at[2] + 1 /\ LowReg' = LowReg /\ Two' = Two /\ OneBit' = OneBit
  BY OnInTask
<1>2. ~Two' /\ ~OneBit'
  BY <1>1 DEF LowTask, TogglesLow, Two, OneBit, H81At
<1>3. at[2] \in Nat
  BY Positions
<1>4. TogglesLow' /\ at'[2] = 2 => val'["reg"] = pci'[LowReg']
  BY <1>1, <1>3
<1>5. QED
  BY <1>2, <1>4 DEF Saved

LEMMA SavedBit ==
  ASSUME ShapeInv, ~Ended, UNCHANGED <<program, was>>, GoesOn \/ (BitTask /\ at' = <<at[1], 3>>), BitTask,
         Undo' = {"ctrl"}, UndoVar' = "ctrl", "ctrl" \in ReadOnly => pci'["ctrl"] = val'["ctrl"]
  PROVE  Saved'
<1>1. OneBit' /\ ~Two' /\ ~TogglesLow'
  <2>1. at'[1] = at[1]
    BY OnInTask
  <2>2. QED
    BY <2>1 DEF BitTask, OneBit, Two, TogglesLow, H81At
<1>2. Back("ctrl")' = val'["ctrl"]
  BY DEF Back
<1>3. QED
  BY <1>1, <1>2 DEF Saved

LEMMA SavedTwo ==
  ASSUME ShapeInv, ~Ended, UNCHANGED <<program, was>>, GoesOn, TwoTask,
         \A q \in Undo' \cap ReadOnly : pci'[q] = val'[UndoVar'],
         \A i \in 1 .. 5 : at[2] >= i => val'[HiddenRegs[i]] = Back(HiddenRegs[i])',
         at[2] \in {10, 13, 16} => val'["reg"] = pci'["ctrl"],
         at[2] = 19 => val'["reg"] = pci'["addr"],
         at[2] = 22 => val'["reg"] = pci'["tc"]
  PROVE  Saved'
<1>1. at'[2] = at[2] + 1 /\ Two' = Two /\ OneBit' = OneBit /\ TogglesLow' = TogglesLow
  BY OnInTask
<1>2. ~OneBit' /\ ~TogglesLow'
  BY <1>1 DEF TwoTask, TogglesLow, Two, OneBit, H81At
<1>3. at[2] \in Nat
  BY Positions
<1>4. \A i \in 1 .. 5 : at'[2] > i => val'[HiddenRegs[i]] = Back(HiddenRegs[i])'
  BY <1>1, <1>3
<1>5. /\ at'[2] \in {11, 14, 17} => val'["reg"] = pci'["ctrl"]
      /\ at'[2] = 20 => val'["reg"] = pci'["addr"]
      /\ at'[2] = 23 => val'["reg"] = pci'["tc"]
  BY <1>1, <1>3
<1>6. QED
  BY <1>2, <1>4, <1>5 DEF Saved

LEMMA RegsLow ==
  ASSUME ShapeInv, Saved, ScriptStep, LowTask
  PROVE  BackKept /\ Saved'
<1>1. /\ ~Ended /\ UNCHANGED <<program, was, faults>> /\ LowReg \in PciRegs /\ at[2] \in 1 .. 3
      /\ Len(Now.steps) = 3 /\ TogglesLow
  BY ScriptMoves, Lengths DEF LowTask
<1>2. Undo = (IF at[2] = 3 THEN {LowReg} ELSE {}) /\ UndoVar = "reg"
  BY <1>1, UndoAt
<1>3. GoesOn => Undo' = (IF at[2] = 2 THEN {LowReg} ELSE {}) /\ UndoVar' = "reg"
  BY <1>1, UndoNext
<1>4. Leaves => ~OneBit'
  <2> SUFFICES ASSUME Leaves, OneBit' PROVE FALSE
    OBVIOUS
  <2>1. program = "h81" /\ at'[1] \in 8 .. 15
    BY <1>1 DEF OneBit
  <2>2. at[1] \in 2 .. 6
    BY <1>1, <2>1 DEF TogglesLow
  <2>3. Len(Script) = 18
    BY <2>1, Positions
  <2>4. at'[1] = at[1] + 1 \/ at'[1] = 19
    BY <2>3 DEF Leaves
  <2>5. QED
    BY <2>1, <2>2, <2>4
<1>5. Leaves => Undo' = {} /\ Saved'
  BY <1>4, Afresh, SavedFresh
<1>6. CASE at[2] = 1
  <2>1. Access.op = "peek" /\ Access.loc = LowReg /\ Access.var = "reg"
    BY <1>1, <1>6, EarlyAccess DEF Peek
  <2>2. CASE Skip \/ NextTask
    <3>1. Leaves /\ pci' = pci
      BY <2>1, <2>2, ScriptAccess DEF Leaves, NextTask
    <3>2. QED
      BY <1>2, <1>5, <1>6, <3>1, QuietKeeps
  <2>3. CASE ~Skip /\ ~NextTask
    <3>1. pci' = pci /\ val' = [val EXCEPT !["reg"] = pci[LowReg]] /\ GoesOn
      BY <1>1, <1>6, <2>1, <2>3, ScriptAccess DEF GoesOn
    <3>2. Undo = {} /\ Undo' = {}
      BY <1>2, <1>3, <1>6, <3>1
    <3>3. val'["reg"] = pci'[LowReg]
      BY <3>1, HiddenNames, ShapeFacts
    <3>4. QED
      BY <1>1, <3>1, <3>2, <3>3, QuietKeeps, SavedLow
  <2>4. QED
    BY <2>2, <2>3
<1>7. CASE at[2] = 2
  <2>1. Access.op = "store" /\ Access.loc = LowReg
    BY <1>1, <1>7, EarlyAccess DEF Toggled
  <2>2. val' = val /\ \E b : PciWritten(LowReg, b)
    BY <1>1, <1>7, <2>1, ScriptAccess
  <2>3. GoesOn
    BY <1>1, <1>7, ScriptMoves DEF Proceeds
  <2>4. Undo = {} /\ Undo' = {LowReg} /\ UndoVar' = "reg"
    BY <1>2, <1>3, <1>7, <2>3
  <2>5. val["reg"] = pci[LowReg]
    BY <1>1, <1>7 DEF Saved
  <2>6. BackKept /\ \A q \in Undo' \cap ReadOnly : pci'[q] = val'[UndoVar']
    BY <1>1, <2>2, <2>4, <2>5, ToggleKeeps
  <2>7. QED
    BY <1>1, <1>7, <2>3, <2>6, SavedLow
<1>8. CASE at[2] = 3
  <2>1. Access = Store(LowReg, "reg")
    BY <1>1, <1>8, EarlyAccess
  <2>2. Access.op = "store" /\ Access.loc = LowReg /\ Xor(val[Access.var], Access.xor) = val["reg"]
    BY <2>1, StoreMeans DEF Store
  <2>3. PciWritten(LowReg, val["reg"])
    BY <1>1, <1>8, <2>2, ScriptAccess
  <2>4. Leaves
    BY <1>1, <1>8, ScriptMoves DEF Proceeds
  <2>5. LowReg \in ReadOnly => pci[LowReg] = val["reg"]
    BY <1>2, <1>8 DEF Saved
  <2>6. Undo = {LowReg} /\ Undo' = {}
    BY <1>2, <1>5, <1>8, <2>4
  <2>7. QED
    BY <1>1, <1>2, <1>5, <2>3, <2>4, <2>5, <2>6, RestoreKeeps
<1>9. QED
  BY <1>1, <1>6, <1>7, <1>8

LEMMA RegsBit ==
  ASSUME ShapeInv, Saved, ScriptStep, BitTask
  PROVE  BackKept /\ Saved'
<1>1. /\ ~Ended /\ UNCHANGED <<program, was, faults>> /\ at[2] \in 1 .. 3
      /\ Len(Now.steps) = 3 /\ OneBit /\ "ctrl" \in PciRegs
  BY ScriptMoves, Lengths, HiddenNames DEF BitTask
<1>2. Undo = (IF at[2] \in {2, 3} THEN {"ctrl"} ELSE {}) /\ UndoVar = "ctrl"
  BY <1>1, UndoAt
<1>3. GoesOn => Undo' = (IF at[2] \in {1, 2} THEN {"ctrl"} ELSE {}) /\ UndoVar' = "ctrl"
  BY <1>1, UndoNext
<1>4. Now.needs = {"hidden"}
  BY DEF BitTask, WithFinally, Task
<1>5. CASE at[2] = 1
  <2>1. Access.op = "store" /\ Access.loc = "ctrl"
    BY <1>1, <1>5, H81Access DEF Toggled
  <2>2. CASE Skip
    <3>1. Leaves /\ UNCHANGED <<pci, val, seen>> /\ "hidden" \notin seen
      BY <1>4, <2>2, ScriptAccess DEF Leaves, NextTask
    <3>2. Undo' = {} /\ Saved'
      BY <3>1, Afresh, SavedFresh
    <3>3. QED
      BY <1>2, <1>5, <3>1, <3>2, QuietKeeps
  <2>3. CASE ~Skip
    <3>1. val' = val /\ "hidden" \in seen /\ \E b : PciWritten("ctrl", b)
      BY <1>1, <1>4, <2>1, <2>3, ScriptAccess
    <3>2. ~PeekBits
      BY <2>1 DEF PeekBits, Ready
    <3>3. GoesOn
      BY <1>1, <1>5, <2>3, <3>2, ScriptMoves DEF Proceeds
    <3>4. Undo = {} /\ Undo' = {"ctrl"} /\ UndoVar' = "ctrl"
      BY <1>2, <1>3, <1>5, <3>3
    <3>5. val["ctrl"] = pci["ctrl"]
      BY <1>1, <3>1, <3>4 DEF Saved, Back
    <3>6. BackKept /\ \A q \in Undo' \cap ReadOnly : pci'[q] = val'[UndoVar']
      BY <1>1, <3>1, <3>4, <3>5, ToggleKeeps
    <3>7. "ctrl" \in ReadOnly => pci'["ctrl"] = val'["ctrl"]
      BY <3>4, <3>6
    <3>8. QED
      BY <1>1, <3>3, <3>4, <3>6, <3>7, SavedBit
  <2>4. QED
    BY <2>2, <2>3
<1>6. CASE at[2] = 2
  <2>1. Access.op = "in"
    BY <1>1, <1>6, H81Access DEF In
  <2>2. UNCHANGED <<pci, val>>
    BY <1>6, <2>1, ScriptAccess
  <2>3. GoesOn
    BY <1>1, <1>6, ScriptMoves DEF Proceeds
  <2>4. Undo = {"ctrl"} /\ Undo' = {"ctrl"} /\ UndoVar' = "ctrl"
    BY <1>2, <1>3, <1>6, <2>3
  <2>5. "ctrl" \in ReadOnly => pci'["ctrl"] = val'["ctrl"]
    BY <1>2, <2>2, <2>4 DEF Saved
  <2>6. QED
    BY <1>1, <1>2, <2>2, <2>3, <2>4, <2>5, QuietKeeps, SavedBit
<1>7. CASE at[2] = 3
  <2>1. Access = Store("ctrl", "ctrl")
    BY <1>1, <1>7, H81Access
  <2>2. Access.op = "store" /\ Access.loc = "ctrl" /\ Xor(val[Access.var], Access.xor) = val["ctrl"]
    BY <2>1, StoreMeans DEF Store
  <2>3. PciWritten("ctrl", val["ctrl"]) /\ val' = val
    BY <1>1, <1>7, <2>2, ScriptAccess
  <2>4. Leaves
    BY <1>1, <1>7, ScriptMoves DEF Proceeds
  <2>5. "ctrl" \in ReadOnly => pci["ctrl"] = val["ctrl"]
    BY <1>2, <1>7 DEF Saved
  <2>6. Undo = {"ctrl"} /\ Undo' = {}
    BY <1>2, <1>7, <2>4, Afresh
  <2>7. BackKept /\ pci'["ctrl"] = val["ctrl"]
    BY <1>1, <1>2, <2>3, <2>5, <2>6, RestoreKeeps
  <2>8. QED
    BY <2>3, <2>4, <2>7, SavedFresh
<1>8. QED
  BY <1>1, <1>5, <1>6, <1>7

(* The registers safer_dma_test_two saved stay saved when it is about to   *)
(* change none of the variables they are in.                               *)
LEMMA HiddenStay ==
  ASSUME ShapeInv, Saved, TwoTask, BackKept, at[2] > 5, NEW n \in {"reg", "cmd", "mask"},
         \A m \in Names : m # n => val'[m] = val[m]
  PROVE  \A i \in 1 .. 5 : at[2] >= i => val'[HiddenRegs[i]] = Back(HiddenRegs[i])'
<1> TAKE i \in 1 .. 5
<1>1. HiddenRegs[i] \in PciRegs /\ HiddenRegs[i] \in Names /\ HiddenRegs[i] # n
  BY HiddenNames
<1>2. at[2] \in Nat
  BY Positions
<1>3. at[2] > i
  BY <1>2
<1>4. val[HiddenRegs[i]] = Back(HiddenRegs[i])
  BY <1>3 DEF Saved, TwoTask
<1>5. QED
  BY <1>1, <1>4 DEF BackKept

LEMMA RegsTwo ==
  ASSUME ShapeInv, Saved, ScriptStep, TwoTask
  PROVE  BackKept /\ Saved'
<1>1. /\ ~Ended /\ UNCHANGED <<program, was, faults>> /\ at[2] \in 1 .. 31
      /\ Len(Now.steps) = 31 /\ Two
  BY ScriptMoves, Lengths DEF TwoTask
<1>2. /\ UndoVar = "reg"
      /\ at[2] \in {12, 15, 18} => Undo = {"ctrl"}
      /\ at[2] = 21 => Undo = {"addr"}
      /\ at[2] = 24 => Undo = {"tc"}
      /\ at[2] \notin {12, 15, 18, 21, 24} => Undo = {}
  BY <1>1, UndoAt
<1>3. GoesOn => /\ UndoVar' = "reg"
                /\ at[2] \in {11, 14, 17} => Undo' = {"ctrl"}
                /\ at[2] = 20 => Undo' = {"addr"}
                /\ at[2] = 23 => Undo' = {"tc"}
                /\ at[2] \notin {11, 14, 17, 20, 23} => Undo' = {}
  BY <1>1, UndoNext
<1>4. Leaves => ~OneBit'
  <2> SUFFICES ASSUME Leaves, OneBit' PROVE FALSE
    OBVIOUS
  <2>1. program = "h81" /\ at'[1] \in 8 .. 15 /\ at[1] = 18
    BY <1>1 DEF OneBit, Two, H81At
  <2>2. Len(Script) = 18
    BY <2>1, Positions
  <2>3. at'[1] = 19
    BY <2>1, <2>2 DEF Leaves
  <2>4. QED
    BY <2>1, <2>3
<1>5. Leaves => Undo' = {} /\ Saved'
  BY <1>4, Afresh, SavedFresh
<1>6. ~Skip /\ at[2] # 31 => GoesOn
  <2>1. ~PeekBits
    BY OtherOps, Tasks DEF PeekBits, TwoTask, Two, LowTask, TogglesLow, H81At
  <2>2. QED
    BY <1>1, <2>1, ScriptMoves DEF Proceeds
<1>7. {"ctrl", "addr", "tc"} \subseteq PciRegs /\ {"reg", "cmd", "mask"} \subseteq Names
  BY HiddenNames
<1>8. Skip => at[2] = 1
  BY ScriptAccess
<1>9. CASE at[2] \in 1 .. 5
  <2>1. Access.op = "load" /\ Access.loc = HiddenRegs[at[2]] /\ Access.var = HiddenRegs[at[2]]
    BY <1>1, <1>9, TwoAccess DEF Load
  <2>2. CASE Skip
    <3>1. Leaves /\ pci' = pci
      BY <2>2, ScriptAccess DEF Leaves, NextTask
    <3>2. Undo = {} /\ Undo' = {} /\ Saved'
      BY <1>2, <1>5, <1>9, <3>1
    <3>3. QED
      BY <3>1, <3>2, QuietKeeps
  <2>3. CASE ~Skip
    <3>1. /\ pci' = pci
          /\ val' = [val EXCEPT ![HiddenRegs[at[2]]] = pci[HiddenRegs[at[2]]]]
      <4>1. HiddenRegs[at[2]] \in PciRegs
        BY <1>9, HiddenNames
      <4>2. QED
        BY <2>1, <2>3, <4>1, ScriptAccess
    <3>2. GoesOn
      BY <1>6, <1>9, <2>3
    <3>3. Undo = {} /\ Undo' = {}
      BY <1>2, <1>3, <1>9, <3>2
    <3>4. BackKept
      BY <3>1, <3>3, QuietKeeps
    <3>5. \A i \in 1 .. 5 : at[2] >= i => val'[HiddenRegs[i]] = Back(HiddenRegs[i])'
      <4> SUFFICES ASSUME NEW i \in 1 .. 5, at[2] >= i
                   PROVE  val'[HiddenRegs[i]] = Back(HiddenRegs[i])'
        OBVIOUS
      <4>1. HiddenRegs[i] \in PciRegs /\ HiddenRegs[i] \in Names
        BY HiddenNames
      <4>2. Back(HiddenRegs[i])' = pci[HiddenRegs[i]] /\ Back(HiddenRegs[i]) = pci[HiddenRegs[i]]
        BY <3>1, <3>3 DEF Back
      <4>3. CASE i = at[2]
        BY <3>1, <4>1, <4>2, <4>3, ShapeFacts
      <4>4. CASE i # at[2]
        <5>1. at[2] > i
          BY <1>9, <4>4
        <5>2. val[HiddenRegs[i]] = Back(HiddenRegs[i])
          BY <1>1, <5>1 DEF Saved
        <5>3. HiddenRegs[i] # HiddenRegs[at[2]]
          BY <1>9, <4>4, HiddenNames
        <5>4. val'[HiddenRegs[i]] = val[HiddenRegs[i]]
          BY <3>1, <4>1, <5>3, ShapeFacts
        <5>5. QED
          BY <4>2, <5>2, <5>4
      <4>5. QED
        BY <4>3, <4>4
    <3>6. at[2] \notin {10, 13, 16, 19, 22}
      BY <1>9
    <3>7. QED
      BY <1>1, <3>2, <3>3, <3>4, <3>5, <3>6, SavedTwo
  <2>4. QED
    BY <2>2, <2>3
<1>10. CASE at[2] \in {6, 7, 8, 9, 25, 26}
  <2>1. ~Skip /\ GoesOn /\ at[2] > 5
    BY <1>6, <1>8, <1>10
  <2>2. Undo = {} /\ Undo' = {}
    BY <1>2, <1>3, <1>10, <2>1
  <2>3. "maskall" \notin PciRegs /\ "command" \notin PciRegs
    BY DEF PciRegs
  <2>4. \/ Access.op = "load" /\ Access.loc \notin PciRegs /\ Access.var \in {"cmd", "mask"}
        \/ Access.op \in {"put", "store"} /\ Access.loc \notin PciRegs
        \/ Access.op = "out"
    BY <1>1, <1>10, <2>3, TwoAccess DEF Load, Put, Store, Out
  <2>5. pci' = pci
    BY <2>1, <2>4, ScriptAccess
  <2>6. \E n \in {"reg", "cmd", "mask"} : \A m \in Names : m # n => val'[m] = val[m]
    <3>1. val' = val \/ \E n \in {"cmd", "mask"} : \E bits : val' = [val EXCEPT ![n] = bits]
      BY <2>1, <2>4, ScriptAccess
    <3>2. QED
      BY <3>1, ShapeFacts
  <2>7. BackKept
    BY <2>2, <2>5, QuietKeeps
  <2>8. \A i \in 1 .. 5 : at[2] >= i => val'[HiddenRegs[i]] = Back(HiddenRegs[i])'
    BY <2>1, <2>6, <2>7, HiddenStay
  <2>9. at[2] \notin {10, 13, 16, 19, 22}
    BY <1>10
  <2>10. QED
    BY <1>1, <2>1, <2>2, <2>7, <2>8, <2>9, SavedTwo
<1>11. CASE at[2] \in {10, 13, 16, 19, 22}
  <2> DEFINE r == IF at[2] = 19 THEN "addr" ELSE IF at[2] = 22 THEN "tc" ELSE "ctrl"
  <2>1. ~Skip /\ GoesOn /\ at[2] > 5
    BY <1>6, <1>8, <1>11
  <2>2. Undo = {} /\ Undo' = {}
    BY <1>2, <1>3, <1>11, <2>1
  <2>3. Access.op = "load" /\ Access.loc = r /\ Access.var = "reg" /\ r \in PciRegs
    BY <1>1, <1>7, <1>11, TwoAccess DEF Load
  <2>4. pci' = pci /\ val' = [val EXCEPT !["reg"] = pci[r]]
    BY <2>1, <2>3, ScriptAccess
  <2>5. val'["reg"] = pci'[r] /\ \A m \in Names : m # "reg" => val'[m] = val[m]
    BY <1>7, <2>4, ShapeFacts
  <2>6. BackKept
    BY <2>2, <2>4, QuietKeeps
  <2>7. \A i \in 1 .. 5 : at[2] >= i => val'[HiddenRegs[i]] = Back(HiddenRegs[i])'
    BY <2>1, <2>5, <2>6, HiddenStay
  <2>8. /\ at[2] \in {10, 13, 16} => val'["reg"] = pci'["ctrl"]
        /\ at[2] = 19 => val'["reg"] = pci'["addr"]
        /\ at[2] = 22 => val'["reg"] = pci'["tc"]
    BY <2>5
  <2>9. QED
    BY <1>1, <2>1, <2>2, <2>7, <2>6, <2>8, SavedTwo
<1>12. CASE at[2] \in {11, 14, 17, 20, 23}
  <2> DEFINE r == IF at[2] = 20 THEN "addr" ELSE IF at[2] = 23 THEN "tc" ELSE "ctrl"
  <2>1. ~Skip /\ GoesOn /\ at[2] > 5
    BY <1>6, <1>8, <1>12
  <2>2. Undo = {} /\ Undo' = {r} /\ UndoVar' = "reg"
    BY <1>2, <1>3, <1>12, <2>1
  <2>3. Access.op \in {"store", "put"} /\ Access.loc = r /\ r \in PciRegs
    BY <1>1, <1>7, <1>12, TwoAccess DEF Toggled, Put
  <2>4. val' = val /\ \E b : PciWritten(r, b)
    BY <2>1, <2>3, ScriptAccess
  <2>5. val["reg"] = pci[r]
    BY <1>1, <1>12 DEF Saved
  <2>6. BackKept /\ \A q \in Undo' \cap ReadOnly : pci'[q] = val'[UndoVar']
    <3> HIDE DEF r
    <3> QED
      BY <2>2, <2>3, <2>4, <2>5, ToggleKeeps
  <2>7. \A i \in 1 .. 5 : at[2] >= i => val'[HiddenRegs[i]] = Back(HiddenRegs[i])'
    BY <2>1, <2>4, <2>6, HiddenStay
  <2>8. at[2] \notin {10, 13, 16, 19, 22}
    BY <1>12
  <2>9. QED
    BY <1>1, <2>1, <2>6, <2>7, <2>8, SavedTwo
<1>13. CASE at[2] \in {12, 15, 18, 21, 24}
  <2> DEFINE r == IF at[2] = 21 THEN "addr" ELSE IF at[2] = 24 THEN "tc" ELSE "ctrl"
  <2>1. ~Skip /\ GoesOn /\ at[2] > 5
    BY <1>6, <1>8, <1>13
  <2>2. Undo = {r} /\ Undo' = {}
    BY <1>2, <1>3, <1>13, <2>1
  <2>3. Access = Store(r, "reg") /\ r \in PciRegs
    BY <1>1, <1>7, <1>13, TwoAccess
  <2>4. Access.op = "store" /\ Access.loc = r /\ Xor(val[Access.var], Access.xor) = val["reg"]
    BY <2>3, StoreMeans DEF Store
  <2>5. val' = val /\ PciWritten(r, val["reg"])
    BY <2>1, <2>3, <2>4, ScriptAccess
  <2>6. r \in ReadOnly => pci[r] = val["reg"]
    BY <1>2, <2>2 DEF Saved
  <2>7. BackKept
    <3> HIDE DEF r
    <3> QED
      BY <1>2, <2>2, <2>3, <2>5, <2>6, RestoreKeeps
  <2>8. \A i \in 1 .. 5 : at[2] >= i => val'[HiddenRegs[i]] = Back(HiddenRegs[i])'
    BY <2>1, <2>5, <2>7, HiddenStay
  <2>9. at[2] \notin {10, 13, 16, 19, 22}
    BY <1>13
  <2>10. QED
    BY <1>1, <2>1, <2>2, <2>7, <2>8, <2>9, SavedTwo
<1>14. CASE at[2] \in 27 .. 31
  <2> DEFINE i == at[2] - 26
  <2>1. ~Skip /\ at[2] > 5 /\ i \in 1 .. 5 /\ at[2] > i
    BY <1>8, <1>14
  <2>2. Access = Store(HiddenRegs[i], HiddenRegs[i]) /\ HiddenRegs[i] \in PciRegs
    BY <1>1, <1>14, <2>1, HiddenNames, TwoAccess
  <2> HIDE DEF i
  <2>3. Access.op = "store" /\ Access.loc = HiddenRegs[i]
        /\ Xor(val[Access.var], Access.xor) = val[HiddenRegs[i]]
    BY <2>2, StoreMeans DEF Store
  <2>4. val' = val /\ PciWritten(HiddenRegs[i], val[HiddenRegs[i]])
    BY <2>1, <2>2, <2>3, ScriptAccess
  <2>5. Undo = {}
    BY <1>2, <1>14
  <2>6. val[HiddenRegs[i]] = pci[HiddenRegs[i]]
    BY <1>1, <2>1, <2>5 DEF Saved, Back
  <2>7. pci' = pci
    BY <2>2, <2>4, <2>6, ShapeFacts DEF PciWritten
  <2>8. CASE at[2] = 31
    <3>1. Leaves
      <4>1. Proceeds \/ Leaves
        BY ScriptMoves
      <4>2. QED
        BY <1>1, <2>8, <4>1 DEF Proceeds
    <3>2. QED
      BY <1>5, <2>5, <2>7, <3>1, QuietKeeps
  <2>9. CASE at[2] # 31
    <3>1. GoesOn
      BY <1>6, <2>1, <2>9
    <3>2. Undo' = {}
      BY <1>3, <1>14, <3>1
    <3>3. BackKept
      BY <2>5, <2>7, <3>2, QuietKeeps
    <3>4. \A j \in 1 .. 5 : at[2] >= j => val'[HiddenRegs[j]] = Back(HiddenRegs[j])'
      BY <2>1, <2>4, <3>3, HiddenStay
    <3>5. at[2] \notin {10, 13, 16, 19, 22}
      BY <1>14
    <3>6. QED
      BY <1>1, <3>1, <3>2, <3>3, <3>4, <3>5, SavedTwo
  <2>10. QED
    BY <2>8, <2>9
<1>15. QED
  BY <1>1, <1>9, <1>10, <1>11, <1>12, <1>13, <1>14

(* The other tasks touch no LPC register; only the first of safer_dma_test *)
(* saves one.                                                              *)
LEMMA EntersBits ==
  ASSUME ShapeInv, ~Ended, program' = program, Leaves, OneBit', ~BitTask
  PROVE  CtrlTask /\ at'[1] = at[1] + 1
<1>1. program = "h81" /\ at'[1] \in 8 .. 15
  BY DEF OneBit
<1>2. Len(Script) = 18 /\ at[1] \in Nat
  BY <1>1, Positions
<1>3. at'[1] = at[1] + 1 \/ at'[1] = 19
  BY <1>2 DEF Leaves
<1>4. at[1] \in 7 .. 14 /\ at'[1] = at[1] + 1
  BY <1>1, <1>2, <1>3
<1>5. ~OneBit
  BY Tasks
<1>6. at[1] = 7
  BY <1>1, <1>4, <1>5 DEF OneBit
<1>7. program # "z390"
  BY <1>1
<1>8. CtrlTask
  BY <1>6, <1>7, Where
     DEF ResidueTask, FindTask, LowTask, TogglesLow, SimpleTask, Simple, OldTask, BitTask, OneBit,
         CommandTask, DisableTask, TwoTask, Two, H81At
<1>9. QED
  BY <1>4, <1>8

LEMMA RegsElse ==
  ASSUME ShapeInv, Saved, ScriptStep, ~LowTask, ~BitTask, ~TwoTask
  PROVE  BackKept /\ Saved'
<1>1. ~Ended /\ UNCHANGED <<program, was, faults>> /\ (GoesOn \/ Leaves)
  BY ScriptMoves DEF Proceeds
<1>2. ~TogglesLow /\ ~OneBit /\ ~Two
  BY <1>1, Tasks
<1>3. Undo = {} /\ Undo' = {}
  BY <1>1, <1>2, UndoAt, UndoNext, Afresh
<1>4. pci' = pci
  <2>1. StoreBits => Access.loc \notin PciRegs /\ ~Skip
    <3>1. StoreBits => Ready("store") /\ ~Skip
      BY DEF StoreBits, Ready, Skip
    <3>2. Ready("store") => Access.loc = "command"
      BY StoreOps DEF Toggled, Store
    <3>3. QED
      BY <3>1, <3>2 DEF PciRegs
  <2>2. StoreBits => pci' = pci
    BY <2>1, ScriptAccess DEF StoreBits, Ready
  <2>3. ~PutBits
    BY OtherOps DEF PutBits
  <2>4. OutPort \/ InPort \/ LoadBits \/ PeekBits \/ FindLpcController \/ Skip => pci' = pci
    BY DEF OutPort, InPort, LoadBits, PeekBits, FindLpcController, Skip
  <2>5. QED
    BY <2>2, <2>3, <2>4 DEF ScriptStep
<1>5. BackKept
  BY <1>3, <1>4, QuietKeeps
<1>6. CASE GoesOn
  <2>1. ~TogglesLow' /\ ~OneBit' /\ ~Two'
    BY <1>1, <1>2, <1>6, OnInTask
  <2>2. QED
    BY <1>3, <1>5, <2>1 DEF Saved
<1>7. CASE Leaves
  <2>1. ASSUME OneBit', "hidden" \in seen'
        PROVE  val'["ctrl"] = pci'["ctrl"]
    <3>1. CtrlTask
      BY <1>1, <1>7, <2>1, EntersBits
    <3>2. Access = Load("ctrl", "ctrl") /\ Now.needs = {"hidden"}
      BY <1>1, <3>1, H81Access DEF CtrlTask, Bare, Task
    <3>3. Access.op = "load" /\ Access.loc = "ctrl" /\ Access.var = "ctrl"
      BY <3>2 DEF Load
    <3>4. ~Skip
      BY <2>1, <3>2, ScriptAccess
    <3>5. val' = [val EXCEPT !["ctrl"] = pci["ctrl"]]
      BY <3>3, <3>4, HiddenNames, ScriptAccess
    <3>6. QED
      BY <1>4, <3>5, HiddenNames, ShapeFacts
  <2>2. QED
    BY <1>5, <1>7, <2>1, SavedFresh
<1>8. QED
  BY <1>1, <1>5, <1>6, <1>7

(* An access that raises loses at most the register being put back.        *)
LEMMA LostFinite == IsFiniteSet(Lost) /\ IsFiniteSet(Undo) /\ Cardinality(Undo) \in Nat
<1>1. IsFiniteSet(PciRegs)
  <2> DEFINE A == {"ctrl"}  B == A \cup {"stat"}  C == B \cup {"tc"}
             D == C \cup {"addr"}  E == D \cup {"desc"}
  <2>1. IsFiniteSet({"e4"})
    BY FS_Singleton
  <2>2. IsFiniteSet(A)
    BY FS_Singleton, Zenon
  <2>3. IsFiniteSet(B)
    BY <2>2, FS_AddElement
  <2>4. IsFiniteSet(C)
    BY <2>3, FS_AddElement
  <2>5. IsFiniteSet(D)
    BY <2>4, FS_AddElement
  <2>6. IsFiniteSet(E)
    BY <2>5, FS_AddElement
  <2>7. IsFiniteSet(E \cup {"e4"})
    BY <2>6, FS_AddElement
  <2>8. PciRegs = E \cup {"e4"}
    BY DEF PciRegs
  <2>9. QED
    BY <2>7, <2>8, Zenon
<1>2. Lost \subseteq PciRegs /\ Undo \subseteq PciRegs
  BY DEF Lost, Undo
<1>3. QED
  BY <1>1, <1>2, FS_Subset, FS_CardinalityType

LEMMA UndoOne ==
  ASSUME ShapeInv
  PROVE  Cardinality(Undo) <= 1
<1>1. TogglesLow => LowReg \in PciRegs
  BY Tasks DEF LowTask
<1>2. Undo = {} \/ \E r : Undo = {r}
  BY <1>1, UndoAt
<1>3. Cardinality({}) = 0 /\ \A r : Cardinality({r}) = 1
  BY FS_EmptySet, FS_Singleton, Zenon
<1>4. CASE Undo = {}
  <2>1. Cardinality(Undo) = 0
    BY <1>3, <1>4, Zenon
  <2>2. QED
    BY <2>1
<1>5. CASE \E r : Undo = {r}
  <2>1. Cardinality(Undo) = 1
    BY <1>3, <1>5, Zenon
  <2>2. QED
    BY <2>1
<1>6. QED
  BY <1>2, <1>4, <1>5

LEMMA LostByOne ==
  ASSUME ShapeInv, Cardinality(Lost) <= faults, faults' = faults + 1,
         \A r \in PciRegs \ Undo : Back(r)' = Back(r), was' = was
  PROVE  Cardinality(Lost') <= faults'
<1>1. Lost' \subseteq Lost \cup Undo
  BY DEF Lost
<1>2. /\ IsFiniteSet(Lost \cup Undo)
      /\ Cardinality(Lost \cup Undo) =
           Cardinality(Lost) + Cardinality(Undo) - Cardinality(Lost \cap Undo)
  BY LostFinite, FS_Union
<1>3. Cardinality(Lost') <= Cardinality(Lost \cup Undo) /\ IsFiniteSet(Lost')
  BY <1>1, <1>2, FS_Subset
<1>4. IsFiniteSet(Lost \cap Undo)
  BY LostFinite, FS_Subset
<1>5. Cardinality(Lost) \in Nat /\ Cardinality(Undo) \in Nat /\ Cardinality(Lost') \in Nat
      /\ Cardinality(Lost \cap Undo) \in Nat /\ faults \in Nat
  BY <1>3, <1>4, LostFinite, FS_CardinalityType, ShapeFacts, ProbeAssumption
<1>6. Cardinality(Undo) <= 1
  BY UndoOne
<1>7. QED
  BY <1>2, <1>3, <1>5, <1>6

(* Raised in a task with a finally clause, or in a bare one, it ends the   *)
(* script or goes to the clause, so no later task trusts what was not      *)
(* saved.                                                                  *)
LEMMA RaiseLeaves ==
  ASSUME ShapeInv, Raise, Leaves
  PROVE  ~OneBit'
<1> SUFFICES ASSUME OneBit' PROVE FALSE
  OBVIOUS
<1>1. ~Ended /\ program' = program /\ at'[1] \in 8 .. 15 /\ program = "h81"
  BY RaiseMoves DEF OneBit
<1>2. Len(Script) = 18 /\ at[1] \in Nat
  BY <1>1, Positions
<1>3. BitTask \/ CtrlTask
  BY <1>1, EntersBits
<1>4. ~Now.caught
  BY <1>3 DEF BitTask, CtrlTask, WithFinally, Bare, Task
<1>5. End \/ at' = <<at[1], Len(Now.steps)>>
  BY <1>4 DEF Raise
<1>6. ~End
  BY <1>1, <1>2 DEF End
<1>7. at'[1] = at[1]
  BY <1>5, <1>6
<1>8. at[1] + 1 = at[1] \/ at[1] = 19
  BY <1>2, <1>7 DEF Leaves
<1>9. QED
  BY <1>1, <1>2, <1>7, <1>8

LEMMA RegsRaise ==
  ASSUME ShapeInv, RegsInv, Raise
  PROVE  RegsInv'
<1>1. ~Ended /\ faults' = faults + 1 /\ UNCHANGED <<program, was, pci, val, seen>>
  BY RaiseMoves
<1>2. CASE Leaves
  <2>1. Undo' = {} /\ Saved'
    BY <1>2, Afresh, RaiseLeaves, SavedFresh
  <2>2. \A r \in PciRegs \ Undo : Back(r)' = Back(r)
    BY <1>1, <2>1 DEF Back
  <2>3. QED
    BY <1>1, <2>1, <2>2, LostByOne DEF RegsInv
<1>3. CASE BitTask /\ at[2] \in {1, 2} /\ at' = <<at[1], 3>>
  <2>1. OneBit /\ OneBit' /\ at'[2] = 3 /\ "ctrl" \in PciRegs
    BY <1>1, <1>3, HiddenNames DEF BitTask, OneBit
  <2>2. Undo = (IF at[2] = 2 THEN {"ctrl"} ELSE {}) /\ UndoVar = "ctrl"
    BY <1>3, <2>1, UndoAt
  <2>3. Undo' = {"ctrl"} /\ UndoVar' = "ctrl"
    <3>1. ~TogglesLow' /\ ~Two'
      BY <2>1 DEF TogglesLow, Two, OneBit, H81At
    <3>2. QED
      BY <2>1, <3>1 DEF Undo, UndoVar
  <2>4. "hidden" \in seen
    BY <1>3 DEF Raise, BitTask, WithFinally, Task
  <2>5. val["ctrl"] = Back("ctrl")
    BY <2>1, <2>4 DEF RegsInv, Saved
  <2>6. "ctrl" \in ReadOnly => pci'["ctrl"] = val'["ctrl"]
    BY <1>1, <2>1, <2>2, <2>5 DEF Back, RegsInv, Saved
  <2>7. Saved'
    BY <1>1, <1>3, <2>3, <2>6, SavedBit
  <2>8. \A r \in PciRegs \ Undo : Back(r)' = Back(r)
    BY <1>1, <2>2, <2>3, <2>5 DEF Back
  <2>9. QED
    BY <1>1, <2>7, <2>8, LostByOne DEF RegsInv
<1>4. CASE DisableTask /\ at[2] = 1 /\ at' = <<at[1], 2>>
  <2>1. ~TogglesLow' /\ ~OneBit' /\ ~Two'
    BY <1>1, <1>4 DEF DisableTask, TogglesLow, OneBit, Two, H81At
  <2>2. Undo' = {}
    BY <2>1 DEF Undo
  <2>3. Saved'
    BY <2>1, <2>2 DEF Saved
  <2>4. \A r \in PciRegs \ Undo : Back(r)' = Back(r)
    BY <1>1, <2>2 DEF Back
  <2>5. QED
    BY <1>1, <2>3, <2>4, LostByOne DEF RegsInv
<1>5. QED
  BY <1>2, <1>3, <1>4, RaiseMoves

LEMMA RegsStep ==
  ASSUME ShapeInv, RegsInv, [ProbeNext]_probeVars
  PROVE  RegsInv'
<1>1. CASE Device \/ UNCHANGED probeVars
  <2>1. UNCHANGED <<program, was, faults, pci, at, val, seen>>
    BY <1>1, DeviceMoves DEF probeVars
  <2>2. /\ Two' = Two /\ OneBit' = OneBit /\ TogglesLow' = TogglesLow /\ LowReg' = LowReg
    BY <2>1 DEF Two, H81At, OneBit, TogglesLow, LowReg
  <2>3. Undo' = Undo /\ UndoVar' = UndoVar
    BY <2>1, <2>2 DEF Undo, UndoVar
  <2>4. \A r : Back(r)' = Back(r)
    BY <2>1, <2>3 DEF Back
  <2>5. Lost' = Lost
    BY <2>1, <2>4 DEF Lost
  <2>6. QED
    BY <2>1, <2>2, <2>3, <2>4, <2>5 DEF RegsInv, Saved
<1>2. CASE ScriptStep
  <2>1. BackKept /\ Saved'
    BY <1>2, RegsLow, RegsBit, RegsTwo, RegsElse DEF RegsInv
  <2>2. was' = was /\ faults' = faults
    BY <1>2, ScriptMoves
  <2>3. Lost' = Lost
    BY <2>1, <2>2 DEF Lost, BackKept
  <2>4. QED
    BY <2>1, <2>2, <2>3 DEF RegsInv
<1>3. QED
  BY <1>1, <1>2, RegsRaise DEF ProbeNext

LEMMA RegsInit == ProbeInit => RegsInv
<1> SUFFICES ASSUME ProbeInit PROVE RegsInv
  OBVIOUS
<1>1. at = <<1, 1>> /\ faults = 0 /\ was.regs = pci
  BY DEF ProbeInit
<1>2. Undo = {} /\ ~OneBit /\ ~Two /\ at[2] # 2
  BY <1>1 DEF Undo, OneBit, Two, H81At
<1>3. Lost = {}
  BY <1>1, <1>2 DEF Lost, Back
<1>4. Cardinality({}) = 0
  BY FS_EmptySet, Zenon
<1>5. Cardinality(Lost) = 0
  BY <1>3, <1>4, Zenon
<1>6. QED
  BY <1>1, <1>2, <1>5 DEF RegsInv, Saved

(* Between two tasks, and after the last, each LPC register the scripts    *)
(* touch holds what it held at the start, but for at most one register for *)
(* each access that raised: whichever registers take no write or read as   *)
(* absent, and whatever task an exception ends.                            *)
THEOREM ProbeRegisters == ProbeSpec => []LpcRegsRestored
<1>1. ASSUME RegsInv
      PROVE  LpcRegsRestored
  <2>1. SUFFICES ASSUME at[2] = 1
                 PROVE  Cardinality({r \in PciRegs : pci[r] # was.regs[r]}) <= faults
    BY DEF LpcRegsRestored
  <2>2. Undo = {}
    BY <2>1 DEF Undo
  <2>3. Lost = {r \in PciRegs : pci[r] # was.regs[r]}
    BY <2>2 DEF Lost, Back
  <2>4. QED
    BY <1>1, <2>3 DEF RegsInv
<1>2. ShapeInv /\ RegsInv /\ [ProbeNext]_probeVars => (ShapeInv /\ RegsInv)'
  BY ShapeStep, RegsStep
<1>3. QED
  BY <1>1, <1>2, ShapeInit, RegsInit, PTL DEF ProbeSpec
=============================================================================
