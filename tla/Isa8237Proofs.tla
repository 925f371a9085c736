---------------------------- MODULE Isa8237Proofs ----------------------------
(* The DMA controllers of Isa8237: what the proofs about every program     *)
(* that uses them rest on.  Proofs.                                        *)
EXTENDS Isa8237, TLAPS

(* No two registers of the controllers share a port.                       *)
LEMMA PortsDistinct ==
  ASSUME NEW c \in Chan, NEW d \in Chan, NEW k \in Ctrl, NEW r \in {StatReg, MaskReg, ModeReg, ClearReg}
  PROVE  /\ IoAddr(c) = IoAddr(d) => c = d
         /\ IoCount(c) = IoCount(d) => c = d
         /\ IoPage(c) = IoPage(d) => c = d
         /\ IoAddr(c) # IoCount(d) /\ IoAddr(c) # IoPage(d) /\ IoCount(c) # IoPage(d)
         /\ IoReg(k, r) \notin {IoAddr(c), IoCount(c), IoPage(c)}
<1>1. c \in {0, 1, 2, 3, 4, 5, 6, 7} /\ d \in {0, 1, 2, 3, 4, 5, 6, 7} /\ k \in {0, 1}
  BY DEF Chan, Ctrl
<1>2. IoPage(c) \in 129 .. 143 /\ IoPage(d) \in 129 .. 143 /\ (IoPage(c) = IoPage(d) => c = d)
  BY <1>1 DEF IoPage
<1>3. /\ IoAddr(c) \in 0 .. 7 \cup 192 .. 206 /\ IoAddr(d) \in 0 .. 7 \cup 192 .. 206
      /\ IoCount(c) \in 0 .. 7 \cup 192 .. 206 /\ IoCount(d) \in 0 .. 7 \cup 192 .. 206
  BY <1>1 DEF IoAddr, IoCount, IoReg, Of
<1>4. IoAddr(c) # IoCount(d) /\ (IoAddr(c) = IoAddr(d) => c = d) /\ (IoCount(c) = IoCount(d) => c = d)
  BY <1>1 DEF IoAddr, IoCount, IoReg, Of
<1>5. IoReg(k, r) \in 8 .. 12 \cup 208 .. 216
  BY <1>1 DEF IoReg, StatReg, MaskReg, ModeReg, ClearReg
<1>6. QED
  BY <1>2, <1>3, <1>4, <1>5

LEMMA DataRange == 0 \in Data /\ Zero \in Pair
  BY ByteAssumption DEF Data, Zero, Pair

LEMMA CountingTypes ==
  ASSUME NEW p \in Pair
  PROVE  Inc(p) \in Pair /\ Dec(p) \in Pair
<1>1. p[0] \in Data /\ p[1] \in Data
  BY DEF Pair, Flip
<1>2. Inc(p) \in Pair
  BY <1>1, ByteAssumption DEF Inc, Pair, Data, Flip
<1>3. Dec(p) \in Pair
  BY <1>1, ByteAssumption DEF Dec, Pair, Data, Flip
<1>4. QED
  BY <1>2, <1>3

(* A register byte is written in one place and typed.                      *)
LEMMA WriteTypes ==
  ASSUME DmaTypeOK, NEW c \in Chan, NEW v
  PROVE  /\ v \in Data /\ WriteAddr(c, v) => DmaTypeOK'
         /\ v \in Data /\ WriteCount(c, v) => DmaTypeOK'
         /\ v \in Data /\ WritePage(c, v) => DmaTypeOK'
         /\ v \in 0 .. 255 /\ WriteMask(Of(c), v) => DmaTypeOK'
         /\ v \in 0 .. 255 /\ WriteMode(Of(c), v) => DmaTypeOK'
         /\ ClearFlipFlop(Of(c)) => DmaTypeOK'
<1>1. Of(c) \in Ctrl /\ ff[Of(c)] \in Flip /\ 1 - ff[Of(c)] \in Flip
  BY DEF Of, Ctrl, DmaTypeOK, Flip
<1>2. \A w \in 0 .. 255 : Named(Of(c), w) \in Chan
  BY DEF Named, Of, Chan
<1>3. ch[c] \in Channel
  BY DEF DmaTypeOK
<1>4. ASSUME v \in Data, WriteAddr(c, v) PROVE DmaTypeOK'
  <2>1. [ch[c].baseAddr EXCEPT ![ff[Of(c)]] = v] \in Pair /\ [ch[c].addr EXCEPT ![ff[Of(c)]] = v] \in Pair
    BY <1>3, <1>4, <1>1 DEF Channel, Pair
  <2> DEFINE r == [ch[c] EXCEPT !.baseAddr[ff[Of(c)]] = v, !.addr[ff[Of(c)]] = v]
  <2>2. r \in Channel
    BY <1>3, <2>1 DEF Channel
  <2>3. ch' = [ch EXCEPT ![c] = r] /\ Toggle(Of(c))
    BY <1>3, <1>4 DEF WriteAddr, DmaTypeOK, Channel
  <2> HIDE DEF r
  <2>4. ch' \in [Chan -> Channel]
    BY <2>2, <2>3 DEF DmaTypeOK
  <2>5. QED
    BY <1>1, <2>3, <2>4 DEF DmaTypeOK, Toggle
<1>5. ASSUME v \in Data, WriteCount(c, v) PROVE DmaTypeOK'
  <2>1. [ch[c].baseCount EXCEPT ![ff[Of(c)]] = v] \in Pair /\ [ch[c].count EXCEPT ![ff[Of(c)]] = v] \in Pair
    BY <1>3, <1>5, <1>1 DEF Channel, Pair
  <2> DEFINE r == [ch[c] EXCEPT !.baseCount[ff[Of(c)]] = v, !.count[ff[Of(c)]] = v]
  <2>2. r \in Channel
    BY <1>3, <2>1 DEF Channel
  <2>3. ch' = [ch EXCEPT ![c] = r] /\ Toggle(Of(c))
    BY <1>3, <1>5 DEF WriteCount, DmaTypeOK, Channel
  <2> HIDE DEF r
  <2>4. ch' \in [Chan -> Channel]
    BY <2>2, <2>3 DEF DmaTypeOK
  <2>5. QED
    BY <1>1, <2>3, <2>4 DEF DmaTypeOK, Toggle
<1>6. ASSUME v \in Data, WritePage(c, v) PROVE DmaTypeOK'
  BY <1>3, <1>6 DEF WritePage, DmaTypeOK, Channel
<1>7. ASSUME v \in 0 .. 255, WriteMask(Of(c), v) PROVE DmaTypeOK'
  <2>1. PICK d \in Chan, b \in BOOLEAN : ch' = [ch EXCEPT ![d].mask = b]
    BY <1>2, <1>7, Zenon DEF WriteMask
  <2>2. [ch[d] EXCEPT !.mask = b] \in Channel
    BY DEF DmaTypeOK, Channel
  <2>3. QED
    BY <1>7, <2>1, <2>2 DEF WriteMask, DmaTypeOK
<1>8. ASSUME v \in 0 .. 255, WriteMode(Of(c), v) PROVE DmaTypeOK'
  <2>1. PICK d \in Chan : ch' = [ch EXCEPT ![d].mode = v]
    BY <1>2, <1>8, Zenon DEF WriteMode
  <2>2. [ch[d] EXCEPT !.mode = v] \in Channel
    BY <1>8 DEF DmaTypeOK, Channel
  <2>3. QED
    BY <1>8, <2>1, <2>2 DEF WriteMode, DmaTypeOK
<1>9. ASSUME ClearFlipFlop(Of(c)) PROVE DmaTypeOK'
  BY <1>1, <1>9 DEF ClearFlipFlop, DmaTypeOK, Flip
<1>10. QED
  BY <1>4, <1>5, <1>6, <1>7, <1>8, <1>9

LEMMA TransferTypes ==
  ASSUME DmaTypeOK, NEW c \in Chan, Transfer(c)
  PROVE  DmaTypeOK'
<1>1. ch[c] \in Channel
  BY DEF DmaTypeOK
<1>2. /\ ch[c].addr \in Pair /\ ch[c].count \in Pair
      /\ Inc(ch[c].addr) \in Pair /\ Dec(ch[c].count) \in Pair
  BY <1>1, CountingTypes DEF Channel
<1>3. Cycle(ch[c]) \in Channel
  <2> DEFINE r == ch[c]  a == Inc(r.addr)  n == Dec(r.count)
  <2>1. [r EXCEPT !.addr = a, !.count = n] \in Channel
    BY <1>1, <1>2 DEF Channel
  <2>2. [r EXCEPT !.addr = r.baseAddr, !.count = r.baseCount, !.tc = TRUE] \in Channel
    BY <1>1 DEF Channel
  <2>3. [r EXCEPT !.addr = a, !.count = n, !.tc = TRUE, !.mask = TRUE] \in Channel
    BY <1>1, <1>2 DEF Channel
  <2>4. QED
    BY <2>1, <2>2, <2>3 DEF Cycle
<1>4. QED
  BY <1>3 DEF Transfer, DmaTypeOK

(* Reading the status register clears terminal counts and changes no more. *)
LEMMA StatusTypes ==
  ASSUME DmaTypeOK, NEW p, NEW bits, StatusRead(p, bits)
  PROVE  /\ DmaTypeOK'
         /\ \A c \in Chan : ch'[c] = ch[c] \/ ch'[c] = [ch[c] EXCEPT !.tc = FALSE]
<1>1. PICK k \in Ctrl : /\ ch' = [c \in Chan |-> IF Of(c) = k THEN [ch[c] EXCEPT !.tc = FALSE] ELSE ch[c]]
                        /\ ff' = ff
  BY DEF StatusRead
<1>2. \A c \in Chan : ch[c] \in Channel
  BY DEF DmaTypeOK
<1>3. \A r \in Channel : [r EXCEPT !.tc = FALSE] \in Channel
  BY DEF Channel
<1>4. \A c \in Chan : ch'[c] = ch[c] \/ ch'[c] = [ch[c] EXCEPT !.tc = FALSE]
  BY <1>1
<1>5. ch' \in [Chan -> Channel]
  BY <1>1, <1>2, <1>3
<1>6. QED
  BY <1>1, <1>4, <1>5 DEF DmaTypeOK
=============================================================================
