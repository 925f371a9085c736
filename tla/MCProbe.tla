------------------------------ MODULE MCProbe ------------------------------
(* An instance of LpcDmaProbe for TLC: what the LPC registers hold.        *)
EXTENDS LpcDmaProbe

AllBits == 0 .. 31

(* Registers as on a bridge that has some of them, and on one that has none.*)
Firsts ==
  {[r \in PciRegs |-> CASE r \in {"ctrl", "addr"} -> {0, 3, 16}
                        [] r = "stat" -> {7}
                        [] r = "e4" -> AllBits
                        [] OTHER -> {}],
   [r \in PciRegs |-> {}]}
=============================================================================
