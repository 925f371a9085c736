------------------------------ MODULE AcpiDsm ------------------------------
(***************************************************************************)
(* IT8893_ACPI_SSDT.asl: the _DSM method the table adds for the PCIe-PCI   *)
(* bridge, on the three bridge registers it writes.  A register is the set *)
(* of its bits that are 1.  A Store to a field (AnyAcc, NoLock, Preserve)  *)
(* reads the register and writes it back: two accesses of the interpreter, *)
(* between which the operating system's PCI driver may write the register. *)
(***************************************************************************)
EXTENDS Integers

CONSTANT OsBits  \* the bits of DevCtl that the PCI driver sets and clears

VARIABLES
  reg,  \* the registers
  dsm   \* the call of _DSM: the field being stored, 0 for none, and what was read

vars == <<reg, dsm>>

Priority == 0 .. 7           \* arbiter priority bits of PCICR
DefaultPriority == {1, 3, 5, 7}
OtherControls == {8, 11, 12} \* arbiter time-out, pull-ups, clock slew rate

Returned == [field |-> 0, read |-> {}]

Init ==
  /\ reg \in {[TLCR |-> {}, PCICR |-> p \cup o, DevCtl |-> {}] :
              p \in {{}, DefaultPriority}, o \in SUBSET OtherControls}
  /\ dsm = Returned

(* The fields functions 1 to 3 declare, and the value each stores.         *)
Field(f) ==
  CASE f = 1 -> [reg |-> "TLCR",   bits |-> 13 .. 13, value |-> {13}]
    [] f = 2 -> [reg |-> "DevCtl", bits |-> 5 .. 7,   value |-> {5}]
    [] f = 3 -> [reg |-> "PCICR",  bits |-> 8 .. 15,  value |-> {8 + i : i \in DefaultPriority}]

(* _DSM with the table's UUID and function f.  With another UUID, and for  *)
(* functions 0, 4, 5 and above, it returns without an access.              *)
DSM(f) ==
  /\ dsm = Returned
  /\ dsm' = IF f \in 1 .. 3 THEN [field |-> f, read |-> reg[Field(f).reg]] ELSE Returned
  /\ UNCHANGED reg

StoreField ==
  LET f == Field(dsm.field) IN
  /\ dsm.field # 0
  /\ reg' = [reg EXCEPT ![f.reg] = (dsm.read \ f.bits) \cup f.value]
  /\ dsm' = Returned

OsWrite == \E B \in SUBSET OsBits :
  /\ reg' = [reg EXCEPT !.DevCtl = (@ \ OsBits) \cup B]
  /\ UNCHANGED dsm

Next == (\E f \in 0 .. 5 : DSM(f)) \/ StoreField \/ OsWrite

Spec == Init /\ [][Next]_vars

-----------------------------------------------------------------------------
(* "Bits 7-0 control PCI Arbiter Priority", and bits 8, 11 and 12 time-out,*)
(* pull-ups and slew rate (IT8893_ACPI_SSDT.md): function 3, which is to   *)
(* configure the arbiter priority, changes the priority bits alone.        *)
ArbiterPriorityOnly == [][reg'.PCICR \ Priority = reg.PCICR \ Priority]_vars
=============================================================================
