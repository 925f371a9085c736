---------------------------- MODULE MCLegacyDma ----------------------------
(* Instances of LegacyDma for TLC: which channels each caller uses.        *)
EXTENDS LegacyDmaRefinement, LegacyDmaDocs

(* An application alone, with a narrow or a wide channel.                  *)
OneCallerNarrow == [t \in {4} |-> {1}]
OneCallerWide   == [t \in {4} |-> {5}]

(* An application at TPL 4 and a timer callback at TPL 8.                  *)
OwnController  == [t \in {4, 8} |-> IF t = 4 THEN {1} ELSE {5}]
SameController == [t \in {4, 8} |-> IF t = 4 THEN {1} ELSE {2}]
=============================================================================
