------------------------------ MODULE MCConfig ------------------------------
(* An instance of It8888Config for TLC: command lines of the tool.         *)
EXTENDS It8888Config

Plain == [config |-> <<>>, flags |-> {}, claim_io |-> <<>>, claim_memory |-> <<>>,
          bios_segments |-> {}]
Com1 == [base |-> \h3F8, size |-> 8, speed |-> "fast"]
Lpt1 == [base |-> \h378, size |-> 8, speed |-> "medium"]
Rom  == [base |-> \hAA0000, size |-> 64, speed |-> "medium"]

SmallOptions == {
  \* a value, the flags and the segments, which share a register; a claim too
  \* many; a memory window whose bytes look like the end marker
  [Plain EXCEPT !.config = <<[reg |-> \h50, value |-> <<0, 7, 7, 64>>]>>,
                !.flags = {1, 2}, !.bios_segments = {"F", "E"},
                !.claim_io = <<Com1, Lpt1>>, !.claim_memory = <<Rom>>],
  \* registers given by value, one of them twice, one overridden by a claim
  \* and one with a flag on top
  [Plain EXCEPT !.config = <<[reg |-> \h54, value |-> <<170, 1, 170, 4>>],
                             [reg |-> \h58, value |-> <<172, 2, 0, 192>>],
                             [reg |-> \h50, value |-> <<40, 170, 1, 9>>],
                             [reg |-> \h54, value |-> <<0, 170, 80, 255>>]>>,
                !.flags = {2}, !.claim_io = <<Lpt1>>],
  \* a size no table has, an unknown register, a value of more than 32 bits
  [Plain EXCEPT !.claim_io = <<[Com1 EXCEPT !.size = 9]>>],
  [Plain EXCEPT !.config = <<[reg |-> \hAA, value |-> <<0, 0, 0, 0>>]>>],
  [Plain EXCEPT !.config = <<[reg |-> \h54, value |-> <<0, 0, 0, 0, 1>>]>>] }
FixedRegisters == {\h50, \h54}
=============================================================================
