---------------------------- MODULE ConfigProofs ----------------------------
(***************************************************************************)
(* It8888Config, every command line, register map and loss of power: the   *)
(* file the tool makes is one the chip reads back as it was meant, and     *)
(* every option shows in it.  Proofs, from the operators up: the Intel HEX *)
(* lines, the order of registers in the file, the chip's reading of it,    *)
(* the registers each option makes, and the invariant that ties the file   *)
(* to the command line it came from.                                       *)
(***************************************************************************)
EXTENDS It8888Config, EepromProofs

-----------------------------------------------------------------------------
(* Intel HEX lines: a line of a file is a sequence of bytes.               *)

LEMMA Widths ==
  /\ Byte = 256
  /\ EEPROM_SIZE \in Nat /\ EEPROM_SIZE > 0 /\ EEPROM_SIZE <= 256
  /\ LineLength \in Nat /\ LineLength >= 1 /\ LineLength <= 255
BY Sizes, ConfigAssumption

LEMMA DataIs == Data = 0 .. 255 /\ Data \subseteq Nat
BY ConfigAssumption DEF Data

(* The running sum of a line exists, as far as any k, and has no negatives.*)
SumTo(d, g, k) == g = [i \in 0 .. k |-> IF i = 0 THEN 0 ELSE g[i - 1] + d[i]]

LEMMA SumExists ==
  ASSUME NEW d \in Seq(Data), NEW n \in Nat
  PROVE  \E g : SumTo(d, g, n)
<1> DEFINE Bad == {k \in Nat : ~ \E g : SumTo(d, g, k)}
<1> SUFFICES ASSUME Bad # {} PROVE FALSE
  OBVIOUS
<1> DEFINE k == Min(Bad)
<1>1. Bad \in SUBSET Nat
  OBVIOUS
<1>2. k \in Bad /\ \A j \in Bad : k <= j
  BY <1>1, HasMin
<1> HIDE DEF k
<1>3. k \in Nat /\ ~ \E g : SumTo(d, g, k)
  BY <1>2
<1>4. CASE k = 0
  <2> DEFINE g == [i \in 0 .. 0 |-> 0]
  <2>1. g = [i \in 0 .. 0 |-> IF i = 0 THEN 0 ELSE g[i - 1] + d[i]]
    OBVIOUS
  <2>2. SumTo(d, g, k)
    BY <1>4, <2>1 DEF SumTo
  <2>3. QED
    BY <1>3, <2>2
<1>5. CASE k # 0
  <2>1. k - 1 \in Nat /\ k - 1 \notin Bad
    BY <1>2, <1>3, <1>5
  <2>2. PICK g : SumTo(d, g, k - 1)
    BY <2>1
  <2> DEFINE h == [i \in 0 .. k |-> IF i \in 0 .. k - 1 THEN g[i] ELSE g[k - 1] + d[k]]
  <2>3. \A i \in 0 .. k - 1 : g[i] = IF i = 0 THEN 0 ELSE g[i - 1] + d[i]
    BY <2>2 DEF SumTo
  <2>4. \A i \in 0 .. k - 1 : h[i] = g[i]
    BY <1>3
  <2>5. h[k] = g[k - 1] + d[k]
    BY <1>3
  <2>6. ASSUME NEW i \in 0 .. k PROVE h[i] = IF i = 0 THEN 0 ELSE h[i - 1] + d[i]
    <3>1. CASE i = 0
      BY <1>3, <1>5, <2>3, <2>4, <3>1
    <3>2. CASE i # 0 /\ i # k
      <4>1. i \in 0 .. k - 1 /\ i - 1 \in 0 .. k - 1
        BY <1>3, <3>2
      <4>2. QED
        BY <2>3, <2>4, <3>2, <4>1
    <3>3. CASE i = k
      <4>1. k - 1 \in 0 .. k - 1
        BY <1>3, <1>5
      <4>2. QED
        BY <1>5, <2>4, <2>5, <3>3, <4>1
    <3>4. QED
      BY <3>1, <3>2, <3>3
  <2>7. h = [i \in 0 .. k |-> h[i]]
    OBVIOUS
  <2> HIDE DEF h
  <2>8. h = [i \in 0 .. k |-> IF i = 0 THEN 0 ELSE h[i - 1] + d[i]]
    BY <2>6, <2>7
  <2>9. QED
    BY <1>3, <2>8 DEF SumTo
<1>6. QED
  BY <1>4, <1>5

LEMMA SumIsNat ==
  ASSUME NEW d \in Seq(Data), NEW g, SumTo(d, g, Len(d))
  PROVE  \A i \in 0 .. Len(d) : g[i] \in Nat
<1> DEFINE Bad == {k \in 0 .. Len(d) : g[k] \notin Nat}
<1> SUFFICES ASSUME Bad # {} PROVE FALSE
  OBVIOUS
<1>0. Len(d) \in Nat /\ d \in [1 .. Len(d) -> Data]
  BY LenProperties
<1> DEFINE k == Min(Bad)
<1>1. Bad \in SUBSET Nat
  BY <1>0
<1>2. k \in Bad /\ \A j \in Bad : k <= j
  BY <1>1, HasMin
<1> HIDE DEF k
<1>3. k \in 0 .. Len(d) /\ g[k] \notin Nat
  BY <1>2
<1>4. g[k] = IF k = 0 THEN 0 ELSE g[k - 1] + d[k]
  BY <1>3 DEF SumTo
<1>5. k # 0
  BY <1>3, <1>4
<1>6. k - 1 \in 0 .. Len(d) /\ k - 1 \notin Bad
  BY <1>0, <1>2, <1>3, <1>5
<1>7. g[k - 1] \in Nat
  BY <1>6
<1>8. d[k] \in Nat
  <2>1. k \in 1 .. Len(d)
    BY <1>0, <1>3, <1>5
  <2>2. d[k] \in Data
    BY <1>0, <2>1
  <2>3. QED
    BY <2>2, DataIs, Zenon
<1>9. QED
  BY <1>3, <1>4, <1>5, <1>7, <1>8

LEMMA TotalIsNat ==
  ASSUME NEW d \in Seq(Data)
  PROVE  Total(d) \in Nat
<1> DEFINE g == CHOOSE f : SumTo(d, f, Len(d))
<1>1. Len(d) \in Nat
  BY LenProperties
<1>2. SumTo(d, g, Len(d))
  BY <1>1, SumExists
<1>3. Total(d) = g[Len(d)]
  BY DEF Total, SumTo
<1>4. QED
  BY <1>1, <1>2, <1>3, SumIsNat

LEMMA ChecksumIsByte ==
  ASSUME NEW d \in Seq(Data)
  PROVE  Checksum(d) \in Data
<1> DEFINE n == Total(d)
<1>1. n \in Nat
  BY TotalIsNat
<1> HIDE DEF n
<1>2. (256 - (n % 256)) % 256 \in 0 .. 255
  BY <1>1
<1>3. QED
  BY <1>2, Widths, DataIs DEF Checksum, n

LEMMA RecordIsLine ==
  ASSUME NEW type \in Data, NEW address \in Data, NEW data \in Seq(Data), Len(data) <= 255
  PROVE  Record(type, address, data) \in Line
<1> DEFINE head == <<Len(data), address \div Byte, address % Byte, type>>  body == head \o data
<1>1. Len(data) \in Data /\ address \div Byte \in Data /\ address % Byte \in Data
  <2> DEFINE n == Len(data)
  <2>1. n \in Nat /\ n <= 255
    BY LenProperties
  <2> HIDE DEF n
  <2>2. address \in 0 .. 255 /\ Byte = 256
    BY DataIs, Widths
  <2>3. address \div 256 \in 0 .. 255 /\ address % 256 \in 0 .. 255
    BY <2>2
  <2>4. n \in 0 .. 255
    BY <2>1
  <2>5. QED
    BY <2>2, <2>3, <2>4, DataIs DEF n
<1>2. head \in Seq(Data)
  BY <1>1
<1>3. body \in Seq(Data)
  BY <1>2, ConcatProperties
<1> HIDE DEF body
<1>4. Checksum(body) \in Data
  BY <1>3, ChecksumIsByte
<1>5. Append(body, Checksum(body)) \in Seq(Data)
  BY <1>3, <1>4, AppendProperties
<1>6. QED
  BY <1>5 DEF Record, Line, body

LEMMA InLines ==
  ASSUME NEW e \in Nat, NEW l \in Nat, l > 0, NEW i \in 1 .. (e + l - 1) \div l
  PROVE  l * (i - 1) \in Nat /\ l * i = l * (i - 1) + l /\ l * (i - 1) < e
<1> DEFINE n == (e + l - 1) \div l  x == l * n  y == l * i
<1>1. n \in Int /\ e + l - 1 = x + ((e + l - 1) % l) /\ (e + l - 1) % l \in 0 .. l - 1
  OBVIOUS
<1>2. i \in Nat /\ n - i \in Nat /\ i - 1 \in Nat
  BY <1>1
<1>3. l * (n - i) \in Nat /\ l * (n - i) = x - y /\ y \in Int /\ x \in Int
  <2> HIDE DEF n
  <2>1. n \in Int
    BY <1>1 DEF n
  <2>2. QED
    BY <1>2, <2>1
<1>4. l * (i - 1) \in Nat /\ y = l * (i - 1) + l
  BY <1>2
<1> HIDE DEF x, y
<1>5. y <= x /\ x <= e + l - 1
  <2> DEFINE r == (e + l - 1) % l
  <2> HIDE DEF r
  <2>1. e + l - 1 = x + r /\ r \in 0 .. l - 1
    BY <1>1 DEF r
  <2>2. QED
    BY <1>3, <2>1
<1>6. l * (i - 1) < e
  <2> DEFINE z == l * (i - 1)
  <2> HIDE DEF z
  <2>1. z \in Nat /\ y = z + l
    BY <1>4 DEF z
  <2>2. z < e
    BY <1>3, <1>5, <2>1
  <2>3. QED
    BY <2>2 DEF z
<1>7. QED
  BY <1>4, <1>6 DEF y

(* So a file of the EEPROM's size, as HEX lines, is a file the programmer  *)
(* can be given.                                                           *)
LEMMA HexFileIsFile ==
  ASSUME NEW file \in [1 .. EEPROM_SIZE -> Data]
  PROVE  HexFile(file) \in Seq(Line)
<1> DEFINE n == (Len(file) + LineLength - 1) \div LineLength
           line(i) == SubSeq(file, LineLength * (i - 1) + 1, Min({LineLength * i, Len(file)}))
           one(i) == Record(0, LineLength * (i - 1), line(i))
<1>1. file \in Seq(Data) /\ Len(file) = EEPROM_SIZE
  BY Widths
<1>2. n \in Nat
  <2>1. EEPROM_SIZE + LineLength - 1 \in Nat /\ LineLength \in Nat /\ LineLength > 0
    BY Widths
  <2>2. (EEPROM_SIZE + LineLength - 1) \div LineLength \in Nat
    BY <2>1
  <2>3. QED
    BY <1>1, <2>2
<1>3. ASSUME NEW i \in 1 .. n PROVE one(i) \in Line
  <2> DEFINE from == LineLength * (i - 1)  to == LineLength * i  last == Min({to, Len(file)})
  <2>1. from \in Nat /\ to = from + LineLength /\ from < EEPROM_SIZE
    BY <1>1, <1>3, Widths, InLines
  <2>2. last = IF to <= Len(file) THEN to ELSE Len(file)
    <3>1. to \in Int /\ Len(file) \in Int
      <4> HIDE DEF from, to
      <4>1. QED
        BY <1>1, <2>1, Widths
    <3> HIDE DEF to
    <3>2. QED
      BY <3>1, OfTwo
  <2> HIDE DEF from, to, last
  <2>3. last \in Nat /\ last <= EEPROM_SIZE /\ from < last /\ last <= from + LineLength
    BY <1>1, <2>1, <2>2, Widths
  <2>4. from + 1 \in 1 .. Len(file) + 1 /\ last \in from + 1 - 1 .. Len(file)
    BY <1>1, <2>1, <2>3
  <2>5. SubSeq(file, from + 1, last) \in Seq(Data) /\ Len(SubSeq(file, from + 1, last)) = last - (from + 1) + 1
    <3>1. \A k \in from + 1 .. last : k \in 1 .. Len(file)
      BY <1>1, <2>1, <2>3
    <3>2. IF from + 1 <= last THEN last - (from + 1) + 1 = Len(SubSeq(file, from + 1, last)) ELSE FALSE
      BY <1>1, <2>1, <2>3, <2>4, SubSeqProperties
    <3>3. SubSeq(file, from + 1, last) \in Seq(Data)
      BY <1>1, <2>1, <2>3, <2>4, SubSeqProperties
    <3>4. QED
      BY <3>2, <3>3
  <2>6. Len(SubSeq(file, from + 1, last)) <= 255
    BY <2>1, <2>3, <2>5, Widths
  <2>7. from \in Data /\ 0 \in Data
    BY <2>1, Widths, DataIs
  <2>8. Record(0, from, SubSeq(file, from + 1, last)) \in Line
    BY <2>5, <2>6, <2>7, RecordIsLine
  <2>9. QED
    BY <2>8 DEF from, to, last
<1>4. Eof \in Line
  <2>1. 1 \in Data /\ 0 \in Data
    BY DataIs
  <2>2. <<>> \in Seq(Data) /\ Len(<<>>) = 0
    BY EmptySeq
  <2>3. Len(<<>>) <= 255
    BY <2>2
  <2>4. Record(1, 0, <<>>) \in Line
    BY <2>1, <2>2, <2>3, RecordIsLine
  <2>5. QED
    BY <2>4 DEF Eof
<1>5. HexFile(file) = Append([i \in 1 .. n |-> one(i)], Eof)
  BY DEF HexFile
<1> HIDE DEF n, one
<1>6. [i \in 1 .. n |-> one(i)] \in Seq(Line)
  BY <1>2, <1>3
<1>7. QED
  BY <1>4, <1>5, <1>6, AppendProperties

-----------------------------------------------------------------------------
(* The order of registers in the file: Nth counts the elements of a finite *)
(* set of numbers from the least on.                                       *)

Below(S, a) == {b \in S : b < a}
Rank(S, a) == Cardinality(Below(S, a))

LEMMA RankFacts ==
  ASSUME NEW S \in SUBSET Nat, IsFiniteSet(S)
  PROVE  /\ Cardinality(S) \in Nat
         /\ \A a \in S : Rank(S, a) \in 0 .. Cardinality(S) - 1
         /\ \A a, b \in S : Rank(S, a) = Rank(S, b) => a = b
         /\ \A i \in 1 .. Cardinality(S) : \E a \in S : Rank(S, a) = i - 1
<1> DEFINE n == Cardinality(S)
<1>1. n \in Nat
  BY FS_CardinalityType
<1>2. ASSUME NEW a \in S
      PROVE  IsFiniteSet(Below(S, a)) /\ Rank(S, a) \in Nat /\ Rank(S, a) < n
  <2>1. Below(S, a) \in SUBSET S /\ a \notin Below(S, a)
    BY DEF Below
  <2>2. /\ IsFiniteSet(Below(S, a)) /\ Cardinality(Below(S, a)) <= n
        /\ (n = Cardinality(Below(S, a)) => S = Below(S, a))
    BY <2>1, FS_Subset
  <2>3. Cardinality(Below(S, a)) \in Nat
    BY <2>2, FS_CardinalityType
  <2> DEFINE k == Cardinality(Below(S, a))
  <2> HIDE DEF k, n
  <2>4. k # n
    BY <2>1, <2>2 DEF k
  <2>5. k \in Nat /\ k < n
    BY <1>1, <2>2, <2>3, <2>4 DEF k
  <2>6. QED
    BY <2>2, <2>5 DEF k, Rank
<1>3. ASSUME NEW a \in S, NEW b \in S, a < b PROVE Rank(S, a) < Rank(S, b)
  <2>1. a \in Nat /\ b \in Nat
    OBVIOUS
  <2>2. Below(S, a) \subseteq Below(S, b) /\ a \in Below(S, b) /\ a \notin Below(S, a)
    <3>1. ASSUME NEW c \in S, c < a PROVE c < b
      <4>1. c \in Nat
        OBVIOUS
      <4>2. QED
        BY <1>3, <2>1, <3>1, <4>1
    <3>2. ~(a < a)
      BY <2>1
    <3>3. QED
      BY <1>3, <3>1, <3>2, Zenon DEF Below
  <2>3. IsFiniteSet(Below(S, b))
    BY <1>2
  <2>4. /\ Cardinality(Below(S, a)) <= Cardinality(Below(S, b))
        /\ (Cardinality(Below(S, b)) = Cardinality(Below(S, a)) => Below(S, b) = Below(S, a))
    BY <2>2, <2>3, FS_Subset
  <2>5. Cardinality(Below(S, b)) # Cardinality(Below(S, a))
    BY <2>2, <2>4
  <2>6. Rank(S, a) \in Nat /\ Rank(S, b) \in Nat
    BY <1>2
  <2>7. Rank(S, a) <= Rank(S, b) /\ Rank(S, a) # Rank(S, b)
    BY <2>4, <2>5 DEF Rank
  <2>8. QED
    BY <2>6, <2>7
<1>4. ASSUME NEW a \in S, NEW b \in S, Rank(S, a) = Rank(S, b) PROVE a = b
  <2>1. a \in Nat /\ b \in Nat /\ Rank(S, a) \in Nat /\ Rank(S, b) \in Nat
    BY <1>2
  <2>2. ~(a < b) /\ ~(b < a)
    BY <1>3, <1>4, <2>1
  <2>3. QED
    BY <2>1, <2>2
<1> DEFINE T == 0 .. n - 1  f == [a \in S |-> Rank(S, a)]
<1>5. ASSUME NEW a \in S PROVE Rank(S, a) \in T
  BY <1>1, <1>2
<1>6. IsFiniteSet(T) /\ Cardinality(T) = n
  <2> HIDE DEF n
  <2>1. 0 \in Int /\ n - 1 \in Int
    BY <1>1
  <2>2. IsFiniteSet(0 .. n - 1) /\ Cardinality(0 .. n - 1) = IF 0 > n - 1 THEN 0 ELSE n - 1 - 0 + 1
    BY <2>1, FS_Interval
  <2>3. (IF 0 > n - 1 THEN 0 ELSE n - 1 - 0 + 1) = n
    BY <1>1
  <2>4. QED
    BY <2>2, <2>3
<1> HIDE DEF T
<1>7. f \in Injection(S, T)
  <2>1. f \in [S -> T]
    BY <1>5
  <2>2. \A a, b \in S : f[a] = f[b] => a = b
    BY <1>4
  <2>3. IsInjective(f)
    BY <2>1, <2>2 DEF IsInjective
  <2>4. QED
    BY <2>1, <2>3 DEF Injection
<1>8. f \in Surjection(S, T)
  BY <1>6, <1>7, FS_Injection
<1>9. ASSUME NEW i \in 1 .. n PROVE \E a \in S : Rank(S, a) = i - 1
  <2>1. i - 1 \in T
    BY <1>1 DEF T
  <2>2. \A t \in T : \E a \in S : f[a] = t
    BY <1>8 DEF Surjection
  <2>3. QED
    BY <2>1, <2>2
<1>10. QED
  BY <1>1, <1>4, <1>5, <1>9 DEF T

LEMMA NthIs ==
  ASSUME NEW S \in SUBSET Nat, IsFiniteSet(S)
  PROVE  /\ \A i \in 1 .. Cardinality(S) : Nth(S, i) \in S /\ Rank(S, Nth(S, i)) = i - 1
         /\ \A a \in S : Rank(S, a) + 1 \in 1 .. Cardinality(S) /\ Nth(S, Rank(S, a) + 1) = a
<1>1. ASSUME NEW i \in 1 .. Cardinality(S) PROVE Nth(S, i) \in S /\ Rank(S, Nth(S, i)) = i - 1
  <2>1. \E a \in S : Cardinality({b \in S : b < a}) = i - 1
    BY RankFacts DEF Rank, Below
  <2>2. QED
    BY <2>1 DEF Nth, Rank, Below
<1>2. ASSUME NEW a \in S PROVE Rank(S, a) + 1 \in 1 .. Cardinality(S) /\ Nth(S, Rank(S, a) + 1) = a
  <2> DEFINE k == Rank(S, a)  n == Cardinality(S)
  <2>1. n \in Nat /\ k \in 0 .. n - 1
    BY RankFacts
  <2> HIDE DEF k, n
  <2>2. k + 1 \in 1 .. n /\ (k + 1) - 1 = k
    BY <2>1
  <2>3. Nth(S, k + 1) \in S /\ Rank(S, Nth(S, k + 1)) = k
    BY <1>1, <2>2 DEF n
  <2>4. Nth(S, k + 1) = a
    <3>1. \A x, y \in S : Rank(S, x) = Rank(S, y) => x = y
      BY RankFacts
    <3>2. QED
      BY <2>3, <3>1, Zenon DEF k
  <2>5. QED
    BY <2>2, <2>4 DEF k, n
<1>3. QED
  BY <1>1, <1>2

-----------------------------------------------------------------------------
(* create_binary_data, of any register map.                                *)

RegisterMap(config) ==
  config \in [DOMAIN config -> [1 .. 4 -> Data]] /\ DOMAIN config \subseteq REGISTERS

LEMMA Places ==
  /\ \A i \in 1 .. IoSpaces : IoSpace(i) \in 88 .. 108
  /\ \A i \in 1 .. MemSpaces : MemSpace(i) \in 112 .. 124
  /\ Fixed \subseteq 0 .. 84
  /\ ISA_SPACES_TIMING = 80 /\ TIMERS_MISC_CTRL = 84 /\ EndMarker = 170
<1>1. IoSpaces \in 0 .. 6 /\ MemSpaces \in 0 .. 4
  BY ConfigAssumption
<1>2. \A i \in 1 .. IoSpaces : IoSpace(i) \in 88 .. 108
  BY <1>1 DEF IoSpace
<1>3. \A i \in 1 .. MemSpaces : MemSpace(i) \in 112 .. 124
  BY <1>1 DEF MemSpace
<1>4. Fixed \subseteq 0 .. 84
  BY ConfigAssumption DEF TIMERS_MISC_CTRL
<1>5. QED
  BY <1>2, <1>3, <1>4 DEF ISA_SPACES_TIMING, TIMERS_MISC_CTRL, EndMarker

LEMMA RegistersAre ==
  /\ REGISTERS \subseteq 0 .. 124 /\ REGISTERS \subseteq Data /\ REGISTERS \in SUBSET Nat
  /\ IsFiniteSet(REGISTERS) /\ EndMarker \notin REGISTERS /\ EndMarker \in Data
  /\ {ISA_SPACES_TIMING, TIMERS_MISC_CTRL} \subseteq REGISTERS
<1>1. REGISTERS \subseteq 0 .. 124
  <2>1. \A r \in Fixed : r \in 0 .. 124
    BY Places
  <2>2. \A i \in 1 .. IoSpaces : IoSpace(i) \in 0 .. 124
    BY Places
  <2>3. \A i \in 1 .. MemSpaces : MemSpace(i) \in 0 .. 124
    BY Places
  <2>4. QED
    BY <2>1, <2>2, <2>3, Zenon DEF REGISTERS
<1>2. 0 .. 124 \subseteq 0 .. 255 /\ 0 .. 124 \subseteq Nat /\ 170 \notin 0 .. 124 /\ 170 \in 0 .. 255
  OBVIOUS
<1>3. IsFiniteSet(0 .. 124)
  <2>1. 0 \in Int /\ 124 \in Int
    OBVIOUS
  <2>2. QED
    BY <2>1, FS_Interval, Zenon
<1>4. IsFiniteSet(REGISTERS)
  BY <1>1, <1>3, FS_Subset
<1>5. {ISA_SPACES_TIMING, TIMERS_MISC_CTRL} \subseteq REGISTERS
  BY ConfigAssumption DEF REGISTERS
<1>6. EndMarker = 170 /\ Data = 0 .. 255
  BY Places, DataIs
<1>7. REGISTERS \subseteq 0 .. 255 /\ REGISTERS \subseteq Nat /\ 170 \notin REGISTERS
  BY <1>1
<1>8. REGISTERS \subseteq Data /\ EndMarker \notin REGISTERS /\ EndMarker \in Data
  BY <1>2, <1>6, <1>7, Zenon
<1>9. QED
  BY <1>1, <1>4, <1>5, <1>7, <1>8, Zenon

(* As many groups as fit before the end marker, and each register's place. *)
LEMMA DomainFacts ==
  ASSUME NEW config, RegisterMap(config)
  PROVE  /\ DOMAIN config \in SUBSET Nat /\ IsFiniteSet(DOMAIN config)
         /\ Cardinality(DOMAIN config) \in Nat
         /\ 5 * Cardinality(DOMAIN config) + 1 <= EEPROM_SIZE
<1> DEFINE D == DOMAIN config
<1>1. D \subseteq REGISTERS /\ D \in SUBSET Nat
  BY RegistersAre DEF RegisterMap
<1>2. IsFiniteSet(D) /\ Cardinality(D) <= Cardinality(REGISTERS)
  BY <1>1, RegistersAre, FS_Subset
<1>3. Cardinality(D) \in Nat /\ Cardinality(REGISTERS) \in Nat
  BY <1>2, RegistersAre, FS_CardinalityType
<1> DEFINE n == Cardinality(D)  m == Cardinality(REGISTERS)
<1> HIDE DEF D, n, m
<1>4. n \in Nat /\ m \in Nat /\ n <= m /\ 5 * m + 1 <= EEPROM_SIZE
  BY <1>2, <1>3, ConfigAssumption DEF n, m
<1>5. 5 * n + 1 <= EEPROM_SIZE
  BY <1>4, Widths
<1>6. QED
  BY <1>1, <1>2, <1>3, <1>5 DEF D, n

LEMMA GroupsAre ==
  ASSUME NEW config, RegisterMap(config)
  PROVE  LET D == DOMAIN config  n == Cardinality(D) IN
         /\ Groups(config) \in [1 .. 5 * n -> Data]
         /\ \A q \in 0 .. n - 1 :
              /\ Groups(config)[5 * q + 1] = Nth(D, q + 1)
              /\ \A i \in 1 .. 4 : Groups(config)[5 * q + 1 + i] = config[Nth(D, q + 1)][i]
<1> DEFINE D == DOMAIN config  n == Cardinality(D)
           at(k) == LET r == Nth(D, (k + 4) \div 5)  j == (k - 1) % 5 IN
                    IF j = 0 THEN r ELSE config[r][j]
<1>1. n \in Nat
  BY DomainFacts
<1>2. Groups(config) = [k \in 1 .. 5 * n |-> at(k)]
  BY DEF Groups
<1>3. \A i \in 1 .. n : Nth(D, i) \in D
  BY DomainFacts, NthIs
<1>4. \A r \in D : r \in Data /\ config[r] \in [1 .. 4 -> Data]
  BY RegistersAre DEF RegisterMap
<1> HIDE DEF n, D
<1>5. ASSUME NEW k \in 1 .. 5 * n PROVE at(k) \in Data
  <2> DEFINE i == (k + 4) \div 5  j == (k - 1) % 5
  <2>1. i \in 1 .. n /\ j \in 0 .. 4
    BY <1>1
  <2> HIDE DEF i, j
  <2>2. Nth(D, i) \in Data /\ config[Nth(D, i)] \in [1 .. 4 -> Data]
    BY <1>3, <1>4, <2>1
  <2>3. ASSUME j # 0 PROVE config[Nth(D, i)][j] \in Data
    <3>1. j \in 1 .. 4
      BY <2>1, <2>3
    <3>2. QED
      BY <2>2, <3>1
  <2>4. QED
    BY <2>2, <2>3 DEF i, j
<1>6. ASSUME NEW q \in 0 .. n - 1
      PROVE  /\ Groups(config)[5 * q + 1] = Nth(D, q + 1)
             /\ \A i \in 1 .. 4 : Groups(config)[5 * q + 1 + i] = config[Nth(D, q + 1)][i]
  <2>1. ASSUME NEW i \in 0 .. 4
        PROVE  /\ 5 * q + 1 + i \in 1 .. 5 * n
               /\ (5 * q + 1 + i + 4) \div 5 = q + 1
               /\ (5 * q + 1 + i - 1) % 5 = i
    BY <1>1
  <2>2. ASSUME NEW i \in 0 .. 4
        PROVE  Groups(config)[5 * q + 1 + i] = IF i = 0 THEN Nth(D, q + 1) ELSE config[Nth(D, q + 1)][i]
    <3> DEFINE k == 5 * q + 1 + i
    <3>1. k \in 1 .. 5 * n /\ (k + 4) \div 5 = q + 1 /\ (k - 1) % 5 = i
      BY <2>1
    <3> HIDE DEF k
    <3>2. Groups(config)[k] = at(k)
      BY <1>2, <3>1
    <3>3. at(k) = IF i = 0 THEN Nth(D, q + 1) ELSE config[Nth(D, q + 1)][i]
      BY <3>1
    <3>4. QED
      BY <3>2, <3>3 DEF k
  <2>3. 5 * q + 1 + 0 = 5 * q + 1 /\ 0 \in 0 .. 4
    BY <1>1
  <2>4. Groups(config)[5 * q + 1] = Nth(D, q + 1)
    BY <2>2, <2>3
  <2>5. \A i \in 1 .. 4 : i \in 0 .. 4 /\ i # 0
    OBVIOUS
  <2>6. QED
    BY <2>2, <2>4, <2>5
<1>7. Groups(config) \in [1 .. 5 * n -> Data]
  BY <1>2, <1>5
<1>8. QED
  BY <1>6, <1>7 DEF D, n

LEMMA Layout ==
  ASSUME NEW config, RegisterMap(config)
  PROVE  LET D == DOMAIN config  n == Cardinality(D)  file == create_binary_data(config) IN
         /\ file \in [1 .. EEPROM_SIZE -> Data]
         /\ file[5 * n + 1] = EndMarker
         /\ \A q \in 0 .. n - 1 :
              /\ file[5 * q + 1] = Nth(D, q + 1)
              /\ \A i \in 1 .. 4 : file[5 * q + 1 + i] = config[Nth(D, q + 1)][i]
<1> DEFINE D == DOMAIN config  n == Cardinality(D)
           g == Groups(config)  data == Append(g, EndMarker)
           pad == [i \in 1 .. EEPROM_SIZE - Len(data) |-> \hFF]
<1>1. n \in Nat /\ 5 * n + 1 <= EEPROM_SIZE
  BY DomainFacts
<1>2. /\ g \in [1 .. 5 * n -> Data]
      /\ \A q \in 0 .. n - 1 :
           /\ g[5 * q + 1] = Nth(D, q + 1)
           /\ \A i \in 1 .. 4 : g[5 * q + 1 + i] = config[Nth(D, q + 1)][i]
  BY GroupsAre
<1>3. create_binary_data(config) = data \o pad
  BY DEF create_binary_data
<1> HIDE DEF n, D, g
<1>4. g \in Seq(Data) /\ Len(g) = 5 * n
  <2>1. 5 * n \in Nat
    BY <1>1
  <2>2. QED
    BY <1>2, <2>1
<1>5. /\ data \in Seq(Data) /\ Len(data) = 5 * n + 1 /\ data[5 * n + 1] = EndMarker
      /\ \A k \in 1 .. 5 * n : data[k] = g[k]
  BY <1>4, RegistersAre, AppendProperties
<1> HIDE DEF data
<1>6. pad \in Seq(Data) /\ Len(pad) = EEPROM_SIZE - (5 * n + 1)
  <2> DEFINE m == EEPROM_SIZE - Len(data)
  <2>1. m = EEPROM_SIZE - (5 * n + 1) /\ m \in Nat
    BY <1>1, <1>5, Widths
  <2>2. 255 \in Data
    BY DataIs
  <2> HIDE DEF m
  <2>3. [i \in 1 .. m |-> 255] \in Seq(Data) /\ Len([i \in 1 .. m |-> 255]) = m
    BY <2>1, <2>2
  <2>4. pad = [i \in 1 .. m |-> 255]
    BY DEF m
  <2>5. QED
    BY <2>1, <2>3, <2>4
<1> HIDE DEF pad
<1> DEFINE file == data \o pad
<1>7. /\ file \in Seq(Data) /\ Len(file) = Len(data) + Len(pad)
      /\ \A k \in 1 .. Len(data) + Len(pad) :
           file[k] = IF k <= Len(data) THEN data[k] ELSE pad[k - Len(data)]
  BY <1>5, <1>6, ConcatProperties
<1> HIDE DEF file
<1>8. Len(data) + Len(pad) = EEPROM_SIZE
  <2> DEFINE x == Len(data)  y == Len(pad)
  <2>1. x = 5 * n + 1 /\ y = EEPROM_SIZE - (5 * n + 1)
    BY <1>5, <1>6
  <2> HIDE DEF x, y
  <2>2. x + y = EEPROM_SIZE
    BY <1>1, <2>1, Widths
  <2>3. QED
    BY <2>2 DEF x, y
<1>9. file \in [1 .. EEPROM_SIZE -> Data]
  BY <1>7, <1>8, LenProperties
<1>10. ASSUME NEW k \in 1 .. 5 * n + 1 PROVE file[k] = data[k]
  <2>1. k \in 1 .. EEPROM_SIZE /\ k <= 5 * n + 1
    BY <1>1, Widths
  <2>2. k <= Len(data) /\ k \in 1 .. Len(data) + Len(pad)
    BY <1>5, <1>8, <2>1
  <2>3. QED
    BY <1>7, <2>2
<1>11. file[5 * n + 1] = EndMarker
  <2>1. 5 * n + 1 \in 1 .. 5 * n + 1
    BY <1>1
  <2>2. QED
    BY <1>5, <1>10, <2>1
<1>12. ASSUME NEW q \in 0 .. n - 1, NEW i \in 0 .. 4 PROVE file[5 * q + 1 + i] = g[5 * q + 1 + i]
  <2>1. 5 * q + 1 + i \in 1 .. 5 * n /\ 5 * q + 1 + i \in 1 .. 5 * n + 1
    BY <1>1
  <2>2. QED
    BY <1>5, <1>10, <2>1
<1>13. ASSUME NEW q \in 0 .. n - 1
       PROVE  /\ file[5 * q + 1] = Nth(D, q + 1)
              /\ \A i \in 1 .. 4 : file[5 * q + 1 + i] = config[Nth(D, q + 1)][i]
  <2>1. 5 * q + 1 + 0 = 5 * q + 1 /\ 0 \in 0 .. 4 /\ \A i \in 1 .. 4 : i \in 0 .. 4
    BY <1>1
  <2>2. file[5 * q + 1] = g[5 * q + 1]
    BY <1>12, <2>1
  <2>3. \A i \in 1 .. 4 : file[5 * q + 1 + i] = g[5 * q + 1 + i]
    BY <1>12, <2>1
  <2>4. QED
    BY <1>2, <2>2, <2>3
<1>14. QED
  BY <1>3, <1>9, <1>11, <1>13 DEF D, n, file

-----------------------------------------------------------------------------
(* The chip reads back the map the file was made of.                       *)

RomOf(file) == [a \in Cells |-> file[a + 1]]

LEMMA BootsFromFile ==
  ASSUME NEW config, RegisterMap(config)
  PROVE  BootRom(RomOf(create_binary_data(config))) = config
<1> DEFINE D == DOMAIN config  n == Cardinality(D)
           file == create_binary_data(config)  rom == RomOf(file)
           S == {5 * q : q \in 0 .. n - 1}
<1>1. /\ D \in SUBSET Nat /\ IsFiniteSet(D) /\ n \in Nat /\ 5 * n + 1 <= EEPROM_SIZE
      /\ D \subseteq REGISTERS /\ config \in [D -> [1 .. 4 -> Data]]
  BY DomainFacts DEF RegisterMap
<1>2. /\ file[5 * n + 1] = EndMarker
      /\ \A q \in 0 .. n - 1 :
           /\ file[5 * q + 1] = Nth(D, q + 1)
           /\ \A i \in 1 .. 4 : file[5 * q + 1 + i] = config[Nth(D, q + 1)][i]
  BY Layout
<1>3. \A i \in 1 .. n : Nth(D, i) \in D
  BY <1>1, NthIs
<1> HIDE DEF D, n, file
<1>4. rom[5 * n] = EndMarker /\ 5 * n \in Cells
  <2>1. 5 * n \in Cells
    BY <1>1, Widths DEF Cells
  <2>2. QED
    BY <1>2, <2>1 DEF RomOf
<1>5. ASSUME NEW q \in 0 .. n - 1
      PROVE  /\ 5 * q \in Cells /\ 5 * q + 4 \in Cells /\ rom[5 * q] = Nth(D, q + 1) /\ Nth(D, q + 1) \in D
             /\ \A i \in 1 .. 4 : rom[5 * q + i] = config[Nth(D, q + 1)][i]
  <2>1. /\ 5 * q \in Cells /\ 5 * q + 4 \in Cells /\ q + 1 \in 1 .. n
        /\ \A i \in 1 .. 4 : 5 * q + i \in Cells /\ 5 * q + i + 1 = 5 * q + 1 + i
    BY <1>1, Widths DEF Cells
  <2>2. rom[5 * q] = file[5 * q + 1] /\ \A i \in 1 .. 4 : rom[5 * q + i] = file[5 * q + 1 + i]
    BY <2>1 DEF RomOf
  <2>3. QED
    BY <1>2, <1>3, <2>1, <2>2
<1> HIDE DEF rom
<1>6. ASSUME NEW q \in 0 .. n - 1 PROVE 5 * q \in GroupStarts(rom)
  <2>1. 5 * q \in Cells /\ 5 * q + 4 \in Cells /\ (5 * q) % 5 = 0
    BY <1>1, <1>5
  <2>2. ASSUME NEW b \in 0 .. 5 * q, b % 5 = 0 PROVE rom[b] # EndMarker
    <3> DEFINE p == b \div 5
    <3>1. p \in 0 .. n - 1 /\ b = 5 * p
      BY <1>1, <2>2
    <3> HIDE DEF p
    <3>2. rom[b] \in D
      BY <1>5, <3>1
    <3>3. QED
      BY <1>1, <3>2, RegistersAre
  <2>3. QED
    BY <2>1, <2>2 DEF GroupStarts
<1>7. ASSUME NEW a \in GroupStarts(rom) PROVE \E q \in 0 .. n - 1 : a = 5 * q
  <2>1. a \in Nat /\ a % 5 = 0 /\ \A b \in 0 .. a : b % 5 = 0 => rom[b] # EndMarker
    BY Widths DEF GroupStarts, Cells
  <2>2. ~(5 * n \in 0 .. a)
    <3>1. (5 * n) % 5 = 0
      BY <1>1
    <3>2. QED
      BY <1>4, <2>1, <3>1
  <2>3. a < 5 * n
    BY <1>1, <2>1, <2>2
  <2> DEFINE q == a \div 5
  <2>4. q \in 0 .. n - 1 /\ a = 5 * q
    BY <1>1, <2>1, <2>3
  <2>5. QED
    BY <2>4
<1>8. {rom[a] : a \in GroupStarts(rom)} = D
  <2>1. ASSUME NEW a \in GroupStarts(rom) PROVE rom[a] \in D
    BY <1>5, <1>7
  <2>2. ASSUME NEW r \in D PROVE \E a \in GroupStarts(rom) : rom[a] = r
    <3> DEFINE q == Rank(D, r)
    <3>1. q + 1 \in 1 .. n /\ Nth(D, q + 1) = r
      BY <1>1, NthIs DEF n
    <3>2. q \in 0 .. n - 1
      <4>1. q \in 0 .. n - 1
        BY <1>1, RankFacts DEF n
      <4>2. QED
        BY <4>1
    <3> HIDE DEF q
    <3>3. QED
      BY <1>5, <1>6, <3>1, <3>2
  <2>3. QED
    BY <2>1, <2>2
<1> DEFINE at(r) == Max({a \in GroupStarts(rom) : rom[a] = r})
<1>9. ASSUME NEW r \in D
      PROVE  [i \in 1 .. 4 |-> rom[at(r) + i]] = config[r]
  <2> DEFINE q == Rank(D, r)  A == {a \in GroupStarts(rom) : rom[a] = r}
  <2>1. q \in 0 .. n - 1 /\ Nth(D, q + 1) = r
    BY <1>1, NthIs, RankFacts DEF n
  <2>2. \A i, j \in 1 .. n : Nth(D, i) = Nth(D, j) => i = j
    <3>1. ASSUME NEW i \in 1 .. n, NEW j \in 1 .. n, Nth(D, i) = Nth(D, j) PROVE i = j
      <4>1. Rank(D, Nth(D, i)) = i - 1 /\ Rank(D, Nth(D, j)) = j - 1
        BY <1>1, NthIs DEF n
      <4>2. i - 1 = j - 1
        BY <3>1, <4>1
      <4>3. QED
        BY <1>1, <4>2
    <3>2. QED
      BY <3>1
  <2> HIDE DEF q
  <2>3. 5 * q \in A
    BY <1>5, <1>6, <2>1
  <2>4. ASSUME NEW a \in A PROVE a = 5 * q
    <3>1. PICK p \in 0 .. n - 1 : a = 5 * p
      BY <1>7
    <3>2. Nth(D, p + 1) = r
      BY <1>5, <3>1
    <3>3. p + 1 \in 1 .. n /\ q + 1 \in 1 .. n
      BY <1>1, <2>1
    <3>4. p + 1 = q + 1
      BY <2>1, <2>2, <3>2, <3>3
    <3>5. QED
      BY <1>1, <2>1, <3>1, <3>4
  <2>5. A = {5 * q}
    BY <2>3, <2>4
  <2>6. Max({5 * q}) = 5 * q
    <3>1. 5 * q \in Int
      BY <1>1, <2>1
    <3>2. {5 * q} = {5 * q, 5 * q}
      OBVIOUS
    <3>3. QED
      BY <3>1, <3>2, OfTwo
  <2>7. at(r) = 5 * q
    BY <2>5, <2>6
  <2>8. \A i \in 1 .. 4 : rom[5 * q + i] = config[r][i]
    BY <1>5, <2>1
  <2>9. config[r] \in [1 .. 4 -> Data]
    BY <1>1
  <2> HIDE DEF at
  <2>10. QED
    BY <2>7, <2>8, <2>9
<1>10. BootRom(rom) = [r \in {rom[a] : a \in GroupStarts(rom)} |-> [i \in 1 .. 4 |-> rom[at(r) + i]]]
  BY DEF BootRom
<1> HIDE DEF at
<1>11. BootRom(rom) = [r \in D |-> [i \in 1 .. 4 |-> rom[at(r) + i]]]
  BY <1>8, <1>10
<1>12. config = [r \in D |-> config[r]]
  BY <1>1
<1>13. BootRom(rom) = config
  BY <1>9, <1>11, <1>12
<1>14. QED
  BY <1>13 DEF rom, file

-----------------------------------------------------------------------------
(* Bits of a byte.                                                         *)

FiveBits == {1, 2, 4, 8, 16}
OrBit(x, bit, bits) == IF bit \in bits /\ (x \div bit) % 2 = 0 THEN x + bit ELSE x

BitIsSet(x, y, bit, bits) ==
  /\ y \in 0 .. 255 /\ y \div 32 = x \div 32
  /\ \A b \in FiveBits : Bit(y, b) <=> Bit(x, b) \/ (b = bit /\ bit \in bits)

(* A bit set leaves a byte a byte, and the bits above and below alone.     *)
LEMMA BitSet ==
  ASSUME NEW x \in 0 .. 255, NEW bit \in FiveBits, NEW bits
  PROVE  BitIsSet(x, OrBit(x, bit, bits), bit, bits)
<1> DEFINE y == OrBit(x, bit, bits)
<1>1. CASE ~(bit \in bits /\ (x \div bit) % 2 = 0)
  <2>1. y = x
    BY <1>1 DEF OrBit
  <2>2. bit \in bits => (x \div bit) % 2 = 1
    <3>1. \A z \in 0 .. 255 : /\ (z \div 1) % 2 \in {0, 1} /\ (z \div 2) % 2 \in {0, 1}
                              /\ (z \div 4) % 2 \in {0, 1} /\ (z \div 8) % 2 \in {0, 1}
                              /\ (z \div 16) % 2 \in {0, 1}
      OBVIOUS
    <3>2. (x \div bit) % 2 \in {0, 1}
      BY <3>1 DEF FiveBits
    <3>3. QED
      BY <1>1, <3>2
  <2>3. QED
    BY <2>1, <2>2 DEF Bit, BitIsSet
<1>2. CASE bit \in bits /\ (x \div bit) % 2 = 0
  <2>1. y = x + bit
    BY <1>2 DEF OrBit
  <2>2. CASE bit = 1
    <3>1. (x \div 1) % 2 = 0
      BY <1>2, <2>2
    <3>2. /\ x + 1 \in 0 .. 255 /\ ((x + 1) \div 1) % 2 = 1
          /\ (x + 1) \div 2 = x \div 2
          /\ (x + 1) \div 4 = x \div 4
          /\ (x + 1) \div 8 = x \div 8
          /\ (x + 1) \div 16 = x \div 16
          /\ (x + 1) \div 32 = x \div 32
      BY <3>1
    <3>3. QED
      BY <1>2, <2>1, <2>2, <3>1, <3>2 DEF Bit, FiveBits, BitIsSet
  <2>3. CASE bit = 2
    <3>1. (x \div 2) % 2 = 0
      BY <1>2, <2>3
    <3>2. /\ x + 2 \in 0 .. 255 /\ ((x + 2) \div 2) % 2 = 1
          /\ ((x + 2) \div 1) % 2 = (x \div 1) % 2
          /\ (x + 2) \div 4 = x \div 4
          /\ (x + 2) \div 8 = x \div 8
          /\ (x + 2) \div 16 = x \div 16
          /\ (x + 2) \div 32 = x \div 32
      BY <3>1
    <3>3. QED
      BY <1>2, <2>1, <2>3, <3>1, <3>2 DEF Bit, FiveBits, BitIsSet
  <2>4. CASE bit = 4
    <3>1. (x \div 4) % 2 = 0
      BY <1>2, <2>4
    <3>2. /\ x + 4 \in 0 .. 255 /\ ((x + 4) \div 4) % 2 = 1
          /\ ((x + 4) \div 1) % 2 = (x \div 1) % 2
          /\ ((x + 4) \div 2) % 2 = (x \div 2) % 2
          /\ (x + 4) \div 8 = x \div 8
          /\ (x + 4) \div 16 = x \div 16
          /\ (x + 4) \div 32 = x \div 32
      BY <3>1
    <3>3. QED
      BY <1>2, <2>1, <2>4, <3>1, <3>2 DEF Bit, FiveBits, BitIsSet
  <2>5. CASE bit = 8
    <3>1. (x \div 8) % 2 = 0
      BY <1>2, <2>5
    <3>2. /\ x + 8 \in 0 .. 255 /\ ((x + 8) \div 8) % 2 = 1
          /\ ((x + 8) \div 1) % 2 = (x \div 1) % 2
          /\ ((x + 8) \div 2) % 2 = (x \div 2) % 2
          /\ ((x + 8) \div 4) % 2 = (x \div 4) % 2
          /\ (x + 8) \div 16 = x \div 16
          /\ (x + 8) \div 32 = x \div 32
      BY <3>1
    <3>3. QED
      BY <1>2, <2>1, <2>5, <3>1, <3>2 DEF Bit, FiveBits, BitIsSet
  <2>6. CASE bit = 16
    <3>1. (x \div 16) % 2 = 0
      BY <1>2, <2>6
    <3>2. /\ x + 16 \in 0 .. 255 /\ ((x + 16) \div 16) % 2 = 1
          /\ ((x + 16) \div 1) % 2 = (x \div 1) % 2
          /\ ((x + 16) \div 2) % 2 = (x \div 2) % 2
          /\ ((x + 16) \div 4) % 2 = (x \div 4) % 2
          /\ ((x + 16) \div 8) % 2 = (x \div 8) % 2
          /\ (x + 16) \div 32 = x \div 32
      BY <3>1
    <3>3. QED
      BY <1>2, <2>1, <2>6, <3>1, <3>2 DEF Bit, FiveBits, BitIsSet
  <2>7. QED
    BY <2>2, <2>3, <2>4, <2>5, <2>6 DEF FiveBits
<1>3. QED
  BY <1>1, <1>2

(* The bits above the five.                                                *)
LEMMA HighBits ==
  ASSUME NEW x \in 0 .. 255, NEW y \in 0 .. 255, y \div 32 = x \div 32
  PROVE  \A b \in {32, 64, 128} : Bit(y, b) <=> Bit(x, b)
<1>1. \A z \in 0 .. 255 : z \div 64 = (z \div 32) \div 2 /\ z \div 128 = (z \div 32) \div 4
  OBVIOUS
<1>2. y \div 64 = x \div 64 /\ y \div 128 = x \div 128
  BY <1>1
<1>3. QED
  BY <1>2 DEF Bit

LEMMA OrAllFacts ==
  ASSUME NEW x \in 0 .. 255, NEW bits, bits \subseteq FiveBits
  PROVE  OrAll(x, bits) \in 0 .. 255 /\ TurnedOn(OrAll(x, bits), x, bits)
<1> DEFINE x1 == OrBit(x, 1, bits)  x2 == OrBit(x1, 2, bits)  x4 == OrBit(x2, 4, bits)
           x8 == OrBit(x4, 8, bits)  y == OrBit(x8, 16, bits)
<1>1. OrAll(x, bits) = y
  BY Zenon DEF OrAll, OrBit
<1>2. /\ FiveBits = {1, 2, 4, 8, 16} /\ x1 = OrBit(x, 1, bits) /\ x2 = OrBit(x1, 2, bits)
      /\ x4 = OrBit(x2, 4, bits) /\ x8 = OrBit(x4, 8, bits) /\ y = OrBit(x8, 16, bits)
  BY DEF FiveBits
<1> HIDE DEF x1, x2, x4, x8, y
<1>3. BitIsSet(x, x1, 1, bits)
  <2>1. x \in 0 .. 255 /\ 1 \in FiveBits
    BY <1>2
  <2>2. QED
    BY <1>2, <2>1, BitSet, Zenon
<1>4. BitIsSet(x1, x2, 2, bits)
  <2>1. x1 \in 0 .. 255 /\ 2 \in FiveBits
    BY <1>2, <1>3 DEF BitIsSet
  <2>2. QED
    BY <1>2, <2>1, BitSet, Zenon
<1>5. BitIsSet(x2, x4, 4, bits)
  <2>1. x2 \in 0 .. 255 /\ 4 \in FiveBits
    BY <1>2, <1>4 DEF BitIsSet
  <2>2. QED
    BY <1>2, <2>1, BitSet, Zenon
<1>6. BitIsSet(x4, x8, 8, bits)
  <2>1. x4 \in 0 .. 255 /\ 8 \in FiveBits
    BY <1>2, <1>5 DEF BitIsSet
  <2>2. QED
    BY <1>2, <2>1, BitSet, Zenon
<1>7. BitIsSet(x8, y, 16, bits)
  <2>1. x8 \in 0 .. 255 /\ 16 \in FiveBits
    BY <1>2, <1>6 DEF BitIsSet
  <2>2. QED
    BY <1>2, <2>1, BitSet, Zenon
<1>8. y \in 0 .. 255 /\ y \div 32 = x \div 32
  BY <1>3, <1>4, <1>5, <1>6, <1>7 DEF BitIsSet
<1>9. ASSUME NEW b \in FiveBits PROVE Bit(y, b) <=> Bit(x, b) \/ b \in bits
  <2>1. /\ Bit(x1, b) <=> Bit(x, b) \/ (b = 1 /\ 1 \in bits)
        /\ Bit(x2, b) <=> Bit(x1, b) \/ (b = 2 /\ 2 \in bits)
        /\ Bit(x4, b) <=> Bit(x2, b) \/ (b = 4 /\ 4 \in bits)
        /\ Bit(x8, b) <=> Bit(x4, b) \/ (b = 8 /\ 8 \in bits)
        /\ Bit(y, b) <=> Bit(x8, b) \/ (b = 16 /\ 16 \in bits)
    BY <1>3, <1>4, <1>5, <1>6, <1>7 DEF BitIsSet
  <2>2. b \in bits <=> \/ b = 1 /\ 1 \in bits
                       \/ b = 2 /\ 2 \in bits
                       \/ b = 4 /\ 4 \in bits
                       \/ b = 8 /\ 8 \in bits
                       \/ b = 16 /\ 16 \in bits
    BY <1>2, <1>9
  <2>3. QED
    BY <2>1, <2>2
<1>10. \A b \in {32, 64, 128} : Bit(y, b) <=> Bit(x, b)
  BY <1>8, HighBits
<1>11. 32 \notin bits /\ 64 \notin bits /\ 128 \notin bits
  BY <1>2
<1>12. TurnedOn(y, x, bits)
  BY <1>2, <1>9, <1>10, <1>11 DEF TurnedOn, Bits
<1>13. QED
  BY <1>1, <1>8, <1>12

-----------------------------------------------------------------------------
(* The registers an option makes.  Before the file is made, a register may *)
(* have a value of more than four bytes.                                   *)

Values == {v \in Seq(Data) : Len(v) >= 4}
Loose(config) == config \in [DOMAIN config -> Values]

LEMMA FourBytes ==
  ASSUME NEW v \in [1 .. 4 -> Data]
  PROVE  v \in Values /\ Len(v) = 4
<1> DEFINE n == 4
<1>1. n \in Nat /\ n >= 4 /\ v \in [1 .. n -> Data]
  OBVIOUS
<1> HIDE DEF n
<1>2. v \in Seq(Data) /\ Len(v) = n
  BY <1>1
<1>3. v \in Values
  BY <1>1, <1>2, Zenon DEF Values
<1>4. QED
  BY <1>2, <1>3 DEF n

LEMMA ValueBytes ==
  ASSUME NEW v \in Values
  PROVE  /\ v \in Seq(Data) /\ Len(v) \in Nat /\ Len(v) >= 4 /\ v \in [1 .. Len(v) -> Data]
         /\ v[1] \in 0 .. 255
         /\ Len(v) = 4 => v \in [1 .. 4 -> Data]
<1> DEFINE n == Len(v)
<1>1. v \in Seq(Data) /\ n \in Nat /\ v \in [1 .. n -> Data]
  BY LenProperties DEF Values
<1>2. n >= 4
  BY DEF Values
<1> HIDE DEF n
<1>3. 1 \in 1 .. n
  BY <1>1, <1>2
<1>4. v[1] \in Data
  BY <1>1, <1>3
<1>5. v[1] \in 0 .. 255
  BY <1>4, DataIs, Zenon
<1>6. n = 4 => v \in [1 .. 4 -> Data]
  BY <1>1
<1>7. QED
  BY <1>1, <1>2, <1>5, <1>6 DEF n

(* A byte of a value replaced.                                             *)
LEMMA ByteReplaced ==
  ASSUME NEW v \in Values, NEW b \in 0 .. 255
  PROVE  /\ [v EXCEPT ![1] = b] \in Values
         /\ [v EXCEPT ![1] = b][1] = b
<1> DEFINE n == Len(v)  w == [v EXCEPT ![1] = b]
<1>1. v \in Seq(Data) /\ n \in Nat /\ n >= 4 /\ v \in [1 .. n -> Data]
  BY ValueBytes
<1> HIDE DEF n
<1>2. b \in Data
  BY DataIs, Zenon
<1>3. w \in [1 .. n -> Data] /\ w[1] = b
  <2>1. 1 \in 1 .. n
    BY <1>1
  <2>2. QED
    BY <1>1, <1>2, <2>1
<1> HIDE DEF w
<1>4. w \in Seq(Data) /\ Len(w) = n
  BY <1>1, <1>3
<1>5. w \in Values
  BY <1>1, <1>4 DEF Values
<1>6. QED
  BY <1>3, <1>5 DEF w

LEMMA UpdatedIs ==
  ASSUME NEW config, NEW new, Loose(config), Loose(new)
  PROVE  /\ Loose(Updated(config, new)) /\ DOMAIN Updated(config, new) = DOMAIN config \cup DOMAIN new
         /\ \A r \in DOMAIN new : Updated(config, new)[r] = new[r]
         /\ \A r \in DOMAIN config \ DOMAIN new : Updated(config, new)[r] = config[r]
BY DEF Loose, Updated

LEMMA SetRegIs ==
  ASSUME NEW config, Loose(config), NEW reg, NEW value \in Values
  PROVE  /\ Loose(SetReg(config, reg, value)) /\ DOMAIN SetReg(config, reg, value) = DOMAIN config \cup {reg}
         /\ SetReg(config, reg, value)[reg] = value
         /\ \A r \in DOMAIN config \ {reg} : SetReg(config, reg, value)[r] = config[r]
<1> DEFINE new == [r \in {reg} |-> value]
<1>1. DOMAIN new = {reg} /\ new[reg] = value /\ Loose(new)
  BY DEF Loose
<1> HIDE DEF new
<1>2. reg \in DOMAIN new
  BY <1>1
<1> DEFINE up == Updated(config, new)
<1>3. SetReg(config, reg, value) = up
  BY DEF SetReg, new
<1>4. /\ Loose(up) /\ DOMAIN up = DOMAIN config \cup DOMAIN new
      /\ \A r \in DOMAIN new : up[r] = new[r]
      /\ \A r \in DOMAIN config \ DOMAIN new : up[r] = config[r]
  BY <1>1, UpdatedIs, Zenon
<1> HIDE DEF up
<1>5. QED
  BY <1>1, <1>2, <1>3, <1>4, Zenon

LEMMA DefaultIs ==
  /\ Loose(DEFAULT_CONFIG) /\ DOMAIN DEFAULT_CONFIG = {ISA_SPACES_TIMING, TIMERS_MISC_CTRL}
  /\ DEFAULT_CONFIG[ISA_SPACES_TIMING] = <<3, 0, 0, 0>>
<1>1. 0 \in Data /\ 3 \in Data /\ 140 \in Data
  BY DataIs
<1>2. <<3, 0, 0, 0>> \in Values /\ <<0, 0, 0, 140>> \in Values
  <2>1. <<3, 0, 0, 0>> \in [1 .. 4 -> Data] /\ <<0, 0, 0, 140>> \in [1 .. 4 -> Data]
    BY <1>1
  <2>2. QED
    BY <2>1, FourBytes
<1>3. QED
  BY <1>2 DEF DEFAULT_CONFIG, Loose

(* -c: the last value given for a register, the default for the others.    *)
Settings == {s \in Seq([reg : Int, value : Seq(Data)]) : \A i \in DOMAIN s : Len(s[i].value) >= 4}

LEMMA LastSetting ==
  ASSUME NEW s \in Settings, NEW i \in DOMAIN s
  PROVE  LET A == {j \in DOMAIN s : s[j].reg = s[i].reg} IN
         /\ Max(A) \in DOMAIN s /\ s[Max(A)].reg = s[i].reg
         /\ (\A j \in DOMAIN s : j > i => s[j].reg # s[i].reg) => Max(A) = i
<1> DEFINE A == {j \in DOMAIN s : s[j].reg = s[i].reg}  n == Len(s)
<1>1. n \in Nat /\ DOMAIN s = 1 .. n
  BY LenProperties DEF Settings
<1> HIDE DEF n
<1>2. A \in SUBSET Nat /\ A # {} /\ \A j \in A : j <= n
  BY <1>1
<1>3. Max(A) \in A /\ \A j \in A : Max(A) >= j
  BY <1>1, <1>2, HasMax
<1> DEFINE m == Max(A)
<1> HIDE DEF m
<1>4. m \in DOMAIN s /\ s[m].reg = s[i].reg /\ m \in Nat
  BY <1>2, <1>3 DEF m
<1>5. m >= i /\ i \in Nat
  BY <1>1, <1>3 DEF m
<1>6. ASSUME \A j \in DOMAIN s : j > i => s[j].reg # s[i].reg PROVE m = i
  BY <1>4, <1>5, <1>6
<1>7. QED
  BY <1>4, <1>6 DEF m

LEMMA WithRegistersIs ==
  ASSUME NEW s \in Settings
  PROVE  LET config == WithRegisters(DEFAULT_CONFIG, s) IN
         /\ Loose(config)
         /\ DOMAIN config = DOMAIN DEFAULT_CONFIG \cup {s[i].reg : i \in DOMAIN s}
         /\ \A i \in DOMAIN s : (\A j \in DOMAIN s : j > i => s[j].reg # s[i].reg) => config[s[i].reg] = s[i].value
         /\ \A q \in DOMAIN DEFAULT_CONFIG :
              LET given == {i \in DOMAIN s : s[i].reg = q} IN
              config[q] = IF given = {} THEN DEFAULT_CONFIG[q] ELSE s[Max(given)].value
<1> DEFINE last(r) == Max({i \in DOMAIN s : s[i].reg = r})
           R == {s[i].reg : i \in DOMAIN s}  new == [r \in R |-> s[last(r)].value]
<1>1. \A i \in DOMAIN s : s[i].value \in Values
  <2>1. s \in [DOMAIN s -> [reg : Int, value : Seq(Data)]]
    BY LenProperties DEF Settings
  <2>2. \A i \in DOMAIN s : s[i].value \in Seq(Data)
    BY <2>1
  <2>3. QED
    BY <2>2 DEF Settings, Values
<1>2. ASSUME NEW r \in R PROVE last(r) \in DOMAIN s
  <2>1. PICK i \in DOMAIN s : r = s[i].reg
    BY <1>2
  <2>2. QED
    BY <2>1, LastSetting
<1>3. ASSUME NEW i \in DOMAIN s, \A j \in DOMAIN s : j > i => s[j].reg # s[i].reg PROVE last(s[i].reg) = i
  BY <1>3, LastSetting
<1>4. WithRegisters(DEFAULT_CONFIG, s) = Updated(DEFAULT_CONFIG, new)
  BY DEF WithRegisters
<1> HIDE DEF last
<1>5. Loose(new) /\ DOMAIN new = R /\ \A q \in R : new[q] = s[last(q)].value
  BY <1>1, <1>2 DEF Loose
<1>6. ASSUME NEW i \in DOMAIN s, \A j \in DOMAIN s : j > i => s[j].reg # s[i].reg PROVE new[s[i].reg] = s[i].value
  BY <1>3, <1>6
<1> HIDE DEF new
<1> DEFINE up == Updated(DEFAULT_CONFIG, new)
<1>7. /\ Loose(up) /\ DOMAIN up = DOMAIN DEFAULT_CONFIG \cup DOMAIN new
      /\ \A r \in DOMAIN new : up[r] = new[r]
      /\ \A r \in DOMAIN DEFAULT_CONFIG \ DOMAIN new : up[r] = DEFAULT_CONFIG[r]
  <2>1. Loose(DEFAULT_CONFIG) /\ Loose(new)
    BY <1>5, DefaultIs
  <2>2. QED
    BY <2>1, UpdatedIs, Zenon
<1> HIDE DEF up
<1>8. ASSUME NEW i \in DOMAIN s, \A j \in DOMAIN s : j > i => s[j].reg # s[i].reg
      PROVE  up[s[i].reg] = s[i].value
  <2>1. s[i].reg \in DOMAIN new
    BY <1>5
  <2>2. QED
    BY <1>6, <1>7, <1>8, <2>1
<1>9. WithRegisters(DEFAULT_CONFIG, s) = up
  BY <1>4 DEF up
<1>10. ASSUME NEW q \in DOMAIN DEFAULT_CONFIG
       PROVE  LET given == {i \in DOMAIN s : s[i].reg = q} IN
              up[q] = IF given = {} THEN DEFAULT_CONFIG[q] ELSE s[Max(given)].value
  <2> DEFINE given == {i \in DOMAIN s : s[i].reg = q}
  <2>1. CASE given = {}
    <3>1. q \notin R
      BY <2>1
    <3>2. QED
      BY <1>5, <1>7, <2>1, <3>1
  <2>2. CASE given # {}
    <3>1. q \in R
      BY <2>2
    <3>2. up[q] = s[last(q)].value
      BY <1>5, <1>7, <3>1
    <3>3. last(q) = Max(given)
      BY Zenon DEF last
    <3>4. QED
      BY <2>2, <3>2, <3>3
  <2>3. QED
    BY <2>1, <2>2
<1>11. QED
  BY <1>5, <1>7, <1>8, <1>9, <1>10

(* --enable-...: the two bits are on, the rest of the register as it was.  *)
LEMMA WithFlagsIs ==
  ASSUME NEW config, Loose(config), ISA_SPACES_TIMING \in DOMAIN config, NEW flags, flags \subseteq {1, 2}
  PROVE  LET new == WithFlags(config, flags) IN
         /\ Loose(new) /\ DOMAIN new = DOMAIN config
         /\ \A r \in DOMAIN config \ {ISA_SPACES_TIMING} : new[r] = config[r]
         /\ TurnedOn(new[ISA_SPACES_TIMING][1], config[ISA_SPACES_TIMING][1], flags)
         /\ \A j \in 2 .. 4 : new[ISA_SPACES_TIMING][j] = config[ISA_SPACES_TIMING][j]
<1> DEFINE isa == ISA_SPACES_TIMING  v == config[isa]  b1 == OrAll(v[1], flags)
           w == [v EXCEPT ![1] = b1]  new == SetReg(config, isa, w)
<1>0. \A reg : \A value \in Values :
        /\ Loose(SetReg(config, reg, value)) /\ DOMAIN SetReg(config, reg, value) = DOMAIN config \cup {reg}
        /\ SetReg(config, reg, value)[reg] = value
        /\ \A r \in DOMAIN config \ {reg} : SetReg(config, reg, value)[r] = config[r]
  BY SetRegIs, Zenon
<1>1. v \in Values /\ v[1] \in 0 .. 255 /\ v \in [1 .. Len(v) -> Data] /\ Len(v) \in Nat
  <2>1. v \in Values
    BY DEF Loose
  <2> HIDE DEF v
  <2>2. QED
    BY <2>1, ValueBytes
<1>2. WithFlags(config, flags) = new
  BY DEF WithFlags
<1> HIDE DEF isa, v
<1>3. b1 \in 0 .. 255 /\ TurnedOn(b1, v[1], flags)
  <2>1. v[1] \in 0 .. 255 /\ flags \subseteq FiveBits
    BY <1>1 DEF FiveBits
  <2>2. QED
    BY <2>1, OrAllFacts, Zenon
<1> HIDE DEF b1
<1>4. w \in Values /\ w[1] = b1
  BY <1>1, <1>3, ByteReplaced
<1>5. \A j \in 2 .. 4 : w[j] = v[j]
  BY <1>1
<1> HIDE DEF w
<1>6. /\ Loose(new) /\ DOMAIN new = DOMAIN config \cup {isa} /\ new[isa] = w
      /\ \A r \in DOMAIN config \ {isa} : new[r] = config[r]
  <2>1. /\ Loose(SetReg(config, isa, w)) /\ DOMAIN SetReg(config, isa, w) = DOMAIN config \cup {isa}
        /\ SetReg(config, isa, w)[isa] = w
        /\ \A r \in DOMAIN config \ {isa} : SetReg(config, isa, w)[r] = config[r]
    BY <1>0, <1>4, Zenon
  <2>2. QED
    BY <2>1
<1> HIDE DEF new
<1>7. DOMAIN new = DOMAIN config
  BY <1>6 DEF isa
<1>8. TurnedOn(new[isa][1], config[isa][1], flags)
  BY <1>3, <1>4, <1>6, Zenon DEF v
<1>9. \A j \in 2 .. 4 : new[isa][j] = config[isa][j]
  BY <1>5, <1>6, Zenon DEF v
<1>10. QED
  BY <1>2, <1>6, <1>7, <1>8, <1>9 DEF isa

(* Claims.                                                                 *)
LEMMA ControlIsByte ==
  ASSUME NEW c, NEW unit, ValidClaim(c, SizeBits(unit))
  PROVE  Control(c, SizeBits(unit)) \in Data
<1> DEFINE x == SpeedBits[c.speed]  y == SizeBits(unit)[c.size]
<1>1. x \in 0 .. 3
  <2>1. c.speed \in {"subtractive", "slow", "medium", "fast"}
    BY DEF ValidClaim, SpeedBits
  <2>2. QED
    BY <2>1 DEF SpeedBits
<1>2. y \in 0 .. 7
  <2> DEFINE s == c.size
  <2>1. s \in {unit * 2 ^ k : k \in 0 .. 7}
    BY DEF ValidClaim, SizeBits
  <2>2. SizeBits(unit)[s] = CHOOSE k \in 0 .. 7 : s = unit * 2 ^ k
    BY <2>1 DEF SizeBits
  <2>3. \E k \in 0 .. 7 : s = unit * 2 ^ k
    BY <2>1
  <2>4. QED
    BY <2>2, <2>3, Zenon
<1> HIDE DEF x, y
<1>3. 128 + 32 * x + y \in 0 .. 255
  BY <1>1, <1>2
<1>4. QED
  BY <1>3, DataIs DEF Control, x, y

LEMMA BytesOf ==
  ASSUME NEW n \in Int, NEW unit \in Nat, unit > 0
  PROVE  ByteOf(n, unit) \in Data
<1>1. n \div unit \in Int
  OBVIOUS
<1> DEFINE q == n \div unit
<1> HIDE DEF q
<1>2. q % 256 \in 0 .. 255
  BY <1>1 DEF q
<1>3. QED
  BY <1>2, DataIs DEF ByteOf, q

LEMMA By256 ==
  ASSUME NEW n \in Int
  PROVE  n \div 256 \in Int /\ n % 256 \in 0 .. 255 /\ n = 256 * (n \div 256) + (n % 256)
BY SMT

LEMMA By65536 ==
  ASSUME NEW n \in Int, NEW k \in Int, NEW w \in Int, 0 <= w, w < 65536, n = 65536 * k + w
  PROVE  n \div 65536 = k
BY SMT

LEMMA By16777216 ==
  ASSUME NEW n \in Int, NEW k \in Int, NEW w \in Int, 0 <= w, w < 16777216, n = 16777216 * k + w
  PROVE  n \div 16777216 = k
BY SMT

(* What the bytes of a base are worth together: all of it, where it fits   *)
(* the register.                                                           *)
LEMMA LowBytes ==
  ASSUME NEW n \in Int, 0 <= n, n < 65536
  PROVE  ByteOf(n, 1) + 256 * ByteOf(n, 256) = n
<1> DEFINE q == n \div 256  r == n % 256
<1>1. q \in Int /\ r \in 0 .. 255 /\ n = 256 * q + r
  BY By256
<1>2. n \div 1 = n
  BY SMT
<1> HIDE DEF q, r
<1>3. q \in 0 .. 255
  BY <1>1
<1>4. q % 256 = q
  BY <1>3
<1>5. ByteOf(n, 1) = r /\ ByteOf(n, 256) = q
  BY <1>2, <1>4 DEF ByteOf, q, r
<1>6. QED
  BY <1>1, <1>5

LEMMA PageBytes ==
  ASSUME NEW n \in Int, 0 <= n \div 256, n \div 256 < 16777216
  PROVE  ByteOf(n, 256) + 256 * ByteOf(n, 65536) + 65536 * ByteOf(n, 16777216) = n \div 256
<1> DEFINE p == n \div 256  r == n % 256  q == p \div 256  s == p % 256  t == q \div 256  u == q % 256
<1>1. p \in Int /\ r \in 0 .. 255 /\ n = 256 * p + r
  BY By256, SMT
<1>2. 0 <= p /\ p < 16777216
  BY SMT
<1> HIDE DEF p, r
<1>3. q \in Int /\ s \in 0 .. 255 /\ p = 256 * q + s
  BY <1>1, By256, SMT
<1> HIDE DEF q, s
<1>4. t \in Int /\ u \in 0 .. 255 /\ q = 256 * t + u
  BY <1>3, By256, SMT
<1> HIDE DEF t, u
<1>5. t \in 0 .. 255
  BY <1>2, <1>3, <1>4, SMT
<1> DEFINE w == 256 * s + r  z == 65536 * u + w
<1>6. w \in Int /\ 0 <= w /\ w < 65536 /\ n = 65536 * q + w
  BY <1>1, <1>3, SMT
<1> HIDE DEF w
<1>7. n \div 65536 = q
  BY <1>3, <1>6, By65536, SMT
<1>8. z \in Int /\ 0 <= z /\ z < 16777216 /\ n = 16777216 * t + z
  BY <1>4, <1>6, SMT
<1> HIDE DEF z
<1>9. n \div 16777216 = t
  BY <1>4, <1>8, By16777216, SMT
<1>10. t % 256 = t
  BY <1>5, SMT
<1>11. ByteOf(n, 256) = s /\ ByteOf(n, 65536) = u
  BY <1>7, SMT DEF ByteOf, p, s, u
<1>12. ByteOf(n, 16777216) = t
  BY <1>9, <1>10, SMT DEF ByteOf
<1>13. s + 256 * u + 65536 * t = p
  BY <1>3, <1>4, SMT
<1>14. QED
  BY <1>11, <1>12, <1>13, SMT DEF p

LEMMA IoValueIs ==
  ASSUME NEW c, c.base \in Int, ValidClaim(c, IoSizeBits)
  PROVE  /\ IoValue(c) \in [1 .. 4 -> Data] /\ Decodes(IoValue(c), c, IoSizeBits)
         /\ 0 <= c.base /\ c.base < \h10000 => IoValue(c)[1] + \h100 * IoValue(c)[2] = c.base
<1> DEFINE b1 == ByteOf(c.base, 1)  b2 == ByteOf(c.base, \h100)  b4 == Control(c, IoSizeBits)
<1>1. b1 \in Data /\ b2 \in Data /\ b4 \in Data /\ 0 \in Data
  <2>1. b4 \in Data
    BY ControlIsByte DEF IoSizeBits
  <2>2. \h100 \in Nat /\ \h100 > 0 /\ 1 \in Nat /\ 1 > 0
    OBVIOUS
  <2>3. b1 \in Data /\ b2 \in Data
    BY <2>2, BytesOf, Zenon
  <2>4. 0 \in Data
    BY DataIs
  <2>5. QED
    BY <2>1, <2>3, <2>4
<1>2. 0 <= c.base /\ c.base < \h10000 => b1 + \h100 * b2 = c.base
  BY LowBytes
<1>3. IoValue(c) = <<b1, b2, 0, b4>>
  BY DEF IoValue
<1>4. Decodes(<<b1, b2, 0, b4>>, c, IoSizeBits)
  BY DEF Decodes, Control
<1> HIDE DEF b1, b2, b4
<1>5. <<b1, b2, 0, b4>> \in [1 .. 4 -> Data] /\ <<b1, b2, 0, b4>>[1] = b1 /\ <<b1, b2, 0, b4>>[2] = b2
  BY <1>1
<1> DEFINE v == <<b1, b2, 0, b4>>
<1> HIDE DEF v
<1>6. IoValue(c) = v /\ v[1] = b1 /\ v[2] = b2 /\ v \in [1 .. 4 -> Data] /\ Decodes(v, c, IoSizeBits)
  BY <1>3, <1>4, <1>5 DEF v
<1>7. QED
  BY <1>2, <1>6

LEMMA MemValueIs ==
  ASSUME NEW c, c.base \in Int, ValidClaim(c, MemSizeBits)
  PROVE  LET v == MemValue(c)  page == c.base \div \h100 IN
         /\ v \in [1 .. 4 -> Data] /\ Decodes(v, c, MemSizeBits)
         /\ 0 <= page /\ page < \h1000000 => v[1] + \h100 * v[2] + \h10000 * v[3] = page
<1> DEFINE b1 == ByteOf(c.base, \h100)  b2 == ByteOf(c.base, \h10000)
           b3 == ByteOf(c.base, \h1000000)  b4 == Control(c, MemSizeBits)  page == c.base \div \h100
<1>1. b1 \in Data /\ b2 \in Data /\ b3 \in Data
  BY BytesOf, SMT
<1>2. b4 \in Data
  BY ControlIsByte DEF MemSizeBits
<1>3. 0 <= page /\ page < \h1000000 => b1 + \h100 * b2 + \h10000 * b3 = page
  <2>1. ASSUME 0 <= page, page < \h1000000 PROVE b1 + \h100 * b2 + \h10000 * b3 = page
    BY <2>1, PageBytes, SMT
  <2>2. QED
    BY <2>1, SMT
<1>4. MemValue(c) = <<b1, b2, b3, b4>>
  BY SMT DEF MemValue
<1>5. \A x, y, z : Decodes(<<x, y, z, b4>>, c, MemSizeBits)
  BY DEF Decodes, Control
<1> HIDE DEF b1, b2, b3, b4
<1> DEFINE v == <<b1, b2, b3, b4>>
<1>6. v \in [1 .. 4 -> Data] /\ v[1] = b1 /\ v[2] = b2 /\ v[3] = b3 /\ Decodes(v, c, MemSizeBits)
  BY <1>1, <1>2, <1>5
<1> HIDE DEF v
<1>7. MemValue(c) = v
  BY <1>4 DEF v
<1> HIDE DEF page
<1>8. 0 <= page /\ page < \h1000000 => v[1] + \h100 * v[2] + \h10000 * v[3] = page
  BY <1>3, <1>6, SMT
<1>9. QED
  BY <1>6, <1>7, <1>8, SMT DEF page


LEMMA HeededFacts ==
  ASSUME NEW claims \in Seq(Claims), NEW spaces \in Nat
  PROVE  /\ Heeded(claims, spaces) \subseteq 1 .. spaces
         /\ \A i \in Heeded(claims, spaces) : claims[i].base \in Int
<1> DEFINE n == Len(claims)  m == Min({n, spaces})
<1>1. n \in Nat /\ claims \in [1 .. n -> Claims]
  BY LenProperties
<1> HIDE DEF n
<1>2. m = IF n <= spaces THEN n ELSE spaces
  <2>1. n \in Int /\ spaces \in Int
    BY <1>1
  <2>2. QED
    BY <2>1, OfTwo, Zenon
<1> HIDE DEF m
<1>3. 1 .. m \subseteq 1 .. spaces /\ 1 .. m \subseteq 1 .. n
  BY <1>1, <1>2
<1>4. \A i \in 1 .. n : claims[i].base \in Int
  BY <1>1 DEF Claims
<1>5. Heeded(claims, spaces) = 1 .. m
  BY DEF Heeded, m, n
<1>6. QED
  BY <1>3, <1>4, <1>5

(* A claim goes to the register of its own space, and no other is touched. *)
LEMMA WithIoClaimsIs ==
  ASSUME NEW config, Loose(config), NEW claims \in Seq(Claims),
         \A i \in Heeded(claims, IoSpaces) : ValidClaim(claims[i], IoSizeBits)
  PROVE  LET new == WithIoClaims(config, claims)  H == Heeded(claims, IoSpaces)
             R == {IoSpace(i) : i \in H} IN
         /\ Loose(new) /\ DOMAIN new = DOMAIN config \cup R
         /\ \A i \in H : new[IoSpace(i)] = IoValue(claims[i])
         /\ \A r \in DOMAIN config \ R : new[r] = config[r]
<1> DEFINE H == Heeded(claims, IoSpaces)  R == {IoSpace(i) : i \in H}
           own == [r \in R |-> IoValue(claims[(r - IoSpace(1)) \div 4 + 1])]
           new == Updated(config, own)
<1>1. IoSpaces \in Nat /\ H \subseteq 1 .. IoSpaces /\ \A i \in H : claims[i].base \in Int
  <2>1. IoSpaces \in Nat
    BY ConfigAssumption
  <2>2. QED
    BY <2>1, HeededFacts
<1>2. WithIoClaims(config, claims) = new
  BY DEF WithIoClaims
<1>3. \A i \in H : ValidClaim(claims[i], IoSizeBits)
  OBVIOUS
<1> HIDE DEF H
<1>4. ASSUME NEW i \in H PROVE (IoSpace(i) - IoSpace(1)) \div 4 + 1 = i
  <2>1. i \in Int /\ (\h58 + 4 * (i - 1)) - \h58 = 4 * (i - 1) /\ (4 * (i - 1)) \div 4 = i - 1
    BY <1>1
  <2>2. QED
    BY <2>1 DEF IoSpace
<1>5. ASSUME NEW i \in H PROVE IoValue(claims[i]) \in Values
  BY <1>1, <1>3, IoValueIs, FourBytes
<1>6. \A i \in H : own[IoSpace(i)] = IoValue(claims[i])
  BY <1>4
<1>7. DOMAIN own = R /\ Loose(own)
  <2>1. \A r \in R : own[r] \in Values
    BY <1>5, <1>6
  <2>2. QED
    BY <2>1 DEF Loose
<1> HIDE DEF own
<1>8. /\ Loose(new) /\ DOMAIN new = DOMAIN config \cup DOMAIN own
      /\ \A r \in DOMAIN own : new[r] = own[r]
      /\ \A r \in DOMAIN config \ DOMAIN own : new[r] = config[r]
  BY <1>7, UpdatedIs, Zenon
<1> HIDE DEF new
<1>9. \A i \in H : new[IoSpace(i)] = IoValue(claims[i])
  BY <1>6, <1>7, <1>8
<1>10. QED
  BY <1>2, <1>7, <1>8, <1>9 DEF H

LEMMA WithMemClaimsIs ==
  ASSUME NEW config, Loose(config), NEW claims \in Seq(Claims),
         \A i \in Heeded(claims, MemSpaces) : ValidClaim(claims[i], MemSizeBits)
  PROVE  LET new == WithMemClaims(config, claims)  H == Heeded(claims, MemSpaces)
             R == {MemSpace(i) : i \in H} IN
         /\ Loose(new) /\ DOMAIN new = DOMAIN config \cup R
         /\ \A i \in H : new[MemSpace(i)] = MemValue(claims[i])
         /\ \A r \in DOMAIN config \ R : new[r] = config[r]
<1> DEFINE H == Heeded(claims, MemSpaces)  R == {MemSpace(i) : i \in H}
           own == [r \in R |-> MemValue(claims[(r - MemSpace(1)) \div 4 + 1])]
           new == Updated(config, own)
<1>1. MemSpaces \in Nat /\ H \subseteq 1 .. MemSpaces /\ \A i \in H : claims[i].base \in Int
  <2>1. MemSpaces \in Nat
    BY ConfigAssumption
  <2>2. QED
    BY <2>1, HeededFacts
<1>2. WithMemClaims(config, claims) = new
  BY DEF WithMemClaims
<1>3. \A i \in H : ValidClaim(claims[i], MemSizeBits)
  OBVIOUS
<1> HIDE DEF H
<1>4. ASSUME NEW i \in H PROVE (MemSpace(i) - MemSpace(1)) \div 4 + 1 = i
  <2>1. i \in Int /\ (\h70 + 4 * (i - 1)) - \h70 = 4 * (i - 1) /\ (4 * (i - 1)) \div 4 = i - 1
    BY <1>1
  <2>2. QED
    BY <2>1 DEF MemSpace
<1>5. ASSUME NEW i \in H PROVE MemValue(claims[i]) \in Values
  <2>1. MemValue(claims[i]) \in [1 .. 4 -> Data]
    BY <1>1, <1>3, MemValueIs
  <2>2. QED
    BY <2>1, FourBytes
<1>6. \A i \in H : own[MemSpace(i)] = MemValue(claims[i])
  BY <1>4
<1>7. DOMAIN own = R /\ Loose(own)
  <2>1. \A r \in R : own[r] \in Values
    BY <1>5, <1>6
  <2>2. QED
    BY <2>1 DEF Loose
<1> HIDE DEF own
<1>8. /\ Loose(new) /\ DOMAIN new = DOMAIN config \cup DOMAIN own
      /\ \A r \in DOMAIN own : new[r] = own[r]
      /\ \A r \in DOMAIN config \ DOMAIN own : new[r] = config[r]
  BY <1>7, UpdatedIs, Zenon
<1> HIDE DEF new
<1>9. \A i \in H : new[MemSpace(i)] = MemValue(claims[i])
  BY <1>6, <1>7, <1>8
<1>10. QED
  BY <1>2, <1>7, <1>8, <1>9 DEF H

(* --bios-segments: made from the default value.                           *)
LEMMA BiosValueIs ==
  ASSUME NEW names, names \subseteq {"all", "C", "D", "E", "F"}
  PROVE  LET v == BiosValue(names)  s == Segments(names) IN
         /\ v \in Values /\ v[2] = 0 /\ v[3] = 0
         /\ TurnedOn(v[1], 3, IF "F" \in s THEN {8} ELSE {})
         /\ TurnedOn(v[4], 0, {1} \cup ChipSelects(s))
<1> DEFINE s == Segments(names)
           f == IF "F" \in s THEN {8} ELSE {}  c == {1} \cup ChipSelects(s)
           x == OrAll(3, f)  y == OrAll(0, c)  v == BiosValue(names)
<1>1. f \subseteq FiveBits /\ c \subseteq FiveBits
  BY DEF ChipSelects, FiveBits
<1>2. v = <<x, 0, 0, y>>
  <2>1. DEFAULT_CONFIG[ISA_SPACES_TIMING] = <<3, 0, 0, 0>>
    BY DefaultIs
  <2>2. \A w, z : [<<3, 0, 0, 0>> EXCEPT ![1] = w, ![4] = z] = <<w, 0, 0, z>>
    OBVIOUS
  <2>3. <<3, 0, 0, 0>>[1] = 3 /\ <<3, 0, 0, 0>>[4] = 0
    OBVIOUS
  <2>4. BiosValue(names) = [<<3, 0, 0, 0>> EXCEPT ![1] = OrAll(<<3, 0, 0, 0>>[1], f),
                                                  ![4] = OrAll(<<3, 0, 0, 0>>[4], c)]
    BY <2>1 DEF BiosValue
  <2>5. QED
    BY <2>2, <2>3, <2>4
<1> HIDE DEF f, c
<1>3. x \in 0 .. 255 /\ TurnedOn(x, 3, f)
  <2>1. 3 \in 0 .. 255
    OBVIOUS
  <2>2. QED
    BY <1>1, <2>1, OrAllFacts, Zenon
<1>4. y \in 0 .. 255 /\ TurnedOn(y, 0, c)
  <2>1. 0 \in 0 .. 255
    OBVIOUS
  <2>2. QED
    BY <1>1, <2>1, OrAllFacts, Zenon
<1> HIDE DEF x, y, v
<1>5. <<x, 0, 0, y>> \in Values
  <2>1. x \in Data /\ 0 \in Data /\ y \in Data
    BY <1>3, <1>4, DataIs
  <2>2. <<x, 0, 0, y>> \in [1 .. 4 -> Data]
    BY <2>1
  <2>3. QED
    BY <2>2, FourBytes
<1>6. v \in Values /\ v[1] = x /\ v[2] = 0 /\ v[3] = 0 /\ v[4] = y
  BY <1>2, <1>5
<1>7. /\ v \in Values /\ v[2] = 0 /\ v[3] = 0
      /\ TurnedOn(v[1], 3, f) /\ TurnedOn(v[4], 0, c)
  BY <1>3, <1>4, <1>6, Zenon
<1>8. QED
  BY <1>7, Zenon DEF f, c, v, s

LEMMA WithBiosIs ==
  ASSUME NEW config, Loose(config), ISA_SPACES_TIMING \in DOMAIN config,
         NEW names, names \subseteq {"all", "C", "D", "E", "F"}
  PROVE  LET new == WithBios(config, names) IN
         /\ Loose(new) /\ DOMAIN new = DOMAIN config
         /\ \A r \in DOMAIN config \ {ISA_SPACES_TIMING} : new[r] = config[r]
         /\ names = {} => new = config
         /\ names # {} => new[ISA_SPACES_TIMING] = BiosValue(names)
<1> DEFINE isa == ISA_SPACES_TIMING  v == BiosValue(names)  new == WithBios(config, names)
<1>1. CASE names = {}
  <2>1. new = config
    BY <1>1 DEF WithBios
  <2> HIDE DEF new
  <2>2. QED
    BY <1>1, <2>1 DEF new
<1>2. CASE names # {}
  <2>1. new = SetReg(config, isa, v)
    BY <1>2 DEF WithBios
  <2>2. v \in Values
    BY BiosValueIs
  <2> HIDE DEF v, isa, new
  <2>3. /\ Loose(SetReg(config, isa, v)) /\ DOMAIN SetReg(config, isa, v) = DOMAIN config \cup {isa}
        /\ SetReg(config, isa, v)[isa] = v
        /\ \A r \in DOMAIN config \ {isa} : SetReg(config, isa, v)[r] = config[r]
    BY <2>2, SetRegIs
  <2>4. QED
    BY <1>2, <2>1, <2>3 DEF new, v, isa
<1>3. QED
  BY <1>1, <1>2

LEMMA OptionFacts ==
  ASSUME NEW o \in Options
  PROVE  /\ o.config \in Settings /\ o.flags \subseteq {1, 2}
         /\ o.claim_io \in Seq(Claims) /\ o.claim_memory \in Seq(Claims)
         /\ o.bios_segments \subseteq {"all", "C", "D", "E", "F"}
BY OptionsAssumption DEF Settings

(* The four groups of registers do not meet.                               *)
LEMMA Apart ==
  /\ \A i \in 1 .. IoSpaces : IoSpace(i) # ISA_SPACES_TIMING /\ IoSpace(i) \in REGISTERS
  /\ \A i \in 1 .. MemSpaces : MemSpace(i) # ISA_SPACES_TIMING /\ MemSpace(i) \in REGISTERS
  /\ \A i \in 1 .. IoSpaces, j \in 1 .. MemSpaces : IoSpace(i) # MemSpace(j)
<1>1. 80 \notin 88 .. 108 /\ 80 \notin 112 .. 124 /\ \A x \in 88 .. 108 : x \notin 112 .. 124
  OBVIOUS
<1>2. \A i \in 1 .. IoSpaces : IoSpace(i) \in REGISTERS
  BY DEF REGISTERS
<1>3. \A i \in 1 .. MemSpaces : MemSpace(i) \in REGISTERS
  BY DEF REGISTERS
<1>4. QED
  BY <1>1, <1>2, <1>3, Places

(* What the tool makes of a command line it accepts.                       *)
LEMMA GeneratedIs ==
  ASSUME NEW o \in Options, ~Rejected(o)
  PROVE  LET config == generate_config(o)
             Hio == Heeded(o.claim_io, IoSpaces)  Hmem == Heeded(o.claim_memory, MemSpaces) IN
         /\ RegisterMap(config)
         /\ \A i \in Hio : config[IoSpace(i)] = IoValue(o.claim_io[i]) /\ ValidClaim(o.claim_io[i], IoSizeBits)
         /\ \A i \in Hmem :
              config[MemSpace(i)] = MemValue(o.claim_memory[i]) /\ ValidClaim(o.claim_memory[i], MemSizeBits)
         /\ GivenKept(config, o) /\ TimingShows(config, o)
<1> DEFINE isa == ISA_SPACES_TIMING
           Hio == Heeded(o.claim_io, IoSpaces)  Hmem == Heeded(o.claim_memory, MemSpaces)
           Rio == {IoSpace(i) : i \in Hio}  Rmem == {MemSpace(i) : i \in Hmem}
           given == {o.config[i].reg : i \in DOMAIN o.config}
           c1 == WithRegisters(DEFAULT_CONFIG, o.config)
           c2 == WithFlags(c1, o.flags)
           c3 == WithIoClaims(c2, o.claim_io)
           c4 == WithMemClaims(c3, o.claim_memory)
           c5 == WithBios(c4, o.bios_segments)
           names == o.bios_segments
           Stays(i) == \A j \in DOMAIN o.config : j > i => o.config[j].reg # o.config[i].reg
<1>1. generate_config(o) = c5
  BY DEF generate_config
<1>2. /\ o.config \in Settings /\ o.flags \subseteq {1, 2} /\ names \subseteq {"all", "C", "D", "E", "F"}
      /\ o.claim_io \in Seq(Claims) /\ o.claim_memory \in Seq(Claims)
  BY OptionFacts
<1>3. /\ given \subseteq REGISTERS
      /\ \A i \in Hio : ValidClaim(o.claim_io[i], IoSizeBits)
      /\ \A i \in Hmem : ValidClaim(o.claim_memory[i], MemSizeBits)
      /\ \A r \in DOMAIN c5 : Len(c5[r]) = 4
  BY <1>1 DEF Rejected
<1>4. /\ Hio \subseteq 1 .. IoSpaces /\ Hmem \subseteq 1 .. MemSpaces
  <2>1. IoSpaces \in Nat /\ MemSpaces \in Nat
    BY ConfigAssumption
  <2>2. QED
    BY <1>2, <2>1, HeededFacts
<1>5. /\ Loose(c1) /\ DOMAIN c1 = DOMAIN DEFAULT_CONFIG \cup given
      /\ \A i \in DOMAIN o.config : Stays(i) => c1[o.config[i].reg] = o.config[i].value
      /\ \A q \in DOMAIN DEFAULT_CONFIG :
           LET G == {i \in DOMAIN o.config : o.config[i].reg = q} IN
           c1[q] = IF G = {} THEN DEFAULT_CONFIG[q] ELSE o.config[Max(G)].value
  BY <1>2, WithRegistersIs, Zenon
<1>6. isa \in DOMAIN c1 /\ DOMAIN c1 \subseteq REGISTERS
  BY <1>3, <1>5, DefaultIs, RegistersAre
<1> HIDE DEF c1, Stays
<1>7. /\ Loose(c2) /\ DOMAIN c2 = DOMAIN c1
      /\ \A r \in DOMAIN c1 \ {isa} : c2[r] = c1[r]
      /\ TurnedOn(c2[isa][1], c1[isa][1], o.flags)
      /\ \A j \in 2 .. 4 : c2[isa][j] = c1[isa][j]
  <2>1. Loose(c1) /\ ISA_SPACES_TIMING \in DOMAIN c1 /\ o.flags \subseteq {1, 2}
    BY <1>2, <1>5, <1>6
  <2>2. QED
    BY <2>1, WithFlagsIs, Zenon
<1> HIDE DEF c2
<1>8. /\ Loose(c3) /\ DOMAIN c3 = DOMAIN c2 \cup Rio
      /\ \A i \in Hio : c3[IoSpace(i)] = IoValue(o.claim_io[i])
      /\ \A r \in DOMAIN c2 \ Rio : c3[r] = c2[r]
  BY <1>2, <1>3, <1>7, WithIoClaimsIs, Zenon
<1> HIDE DEF c3
<1>9. /\ Loose(c4) /\ DOMAIN c4 = DOMAIN c3 \cup Rmem
      /\ \A i \in Hmem : c4[MemSpace(i)] = MemValue(o.claim_memory[i])
      /\ \A r \in DOMAIN c3 \ Rmem : c4[r] = c3[r]
  BY <1>2, <1>3, <1>8, WithMemClaimsIs, Zenon
<1> HIDE DEF c4
<1>10. /\ Rio \subseteq REGISTERS /\ Rmem \subseteq REGISTERS /\ isa \notin Rio /\ isa \notin Rmem
       /\ Rio \cap Rmem = {}
  <2> HIDE DEF Hio, Hmem
  <2>1. QED
    BY <1>4, Apart
<1> HIDE DEF Rmem, Rio
<1>11. DOMAIN c4 \subseteq REGISTERS /\ isa \in DOMAIN c4 /\ DOMAIN c1 \subseteq DOMAIN c4
  BY <1>6, <1>7, <1>8, <1>9, <1>10
<1>12. c4[isa] = c2[isa] /\ \A r \in DOMAIN c1 \ (Rio \cup Rmem) : c4[r] = c2[r]
  BY <1>6, <1>7, <1>8, <1>9, <1>10
<1>13. \A i \in Hio : c4[IoSpace(i)] = IoValue(o.claim_io[i])
  <2>1. \A i \in Hio : IoSpace(i) \in DOMAIN c3 \ Rmem
    BY <1>8, <1>10 DEF Rio
  <2>2. QED
    BY <1>8, <1>9, <2>1
<1>14. /\ Loose(c5) /\ DOMAIN c5 = DOMAIN c4
       /\ \A r \in DOMAIN c4 \ {isa} : c5[r] = c4[r]
       /\ names = {} => c5 = c4
       /\ names # {} => c5[isa] = BiosValue(names)
  <2>1. Loose(c4) /\ ISA_SPACES_TIMING \in DOMAIN c4 /\ names \subseteq {"all", "C", "D", "E", "F"}
    BY <1>2, <1>9, <1>11
  <2>2. QED
    BY <2>1, WithBiosIs, Zenon
<1> HIDE DEF c5
<1>15. RegisterMap(c5)
  <2>1. \A r \in DOMAIN c5 : c5[r] \in [1 .. 4 -> Data]
    BY <1>3, <1>14, ValueBytes DEF Loose
  <2>2. QED
    BY <1>11, <1>14, <2>1 DEF RegisterMap, Loose
<1>16. \A i \in Hio : c5[IoSpace(i)] = IoValue(o.claim_io[i])
  <2>1. \A i \in Hio : IoSpace(i) \in DOMAIN c4 /\ IoSpace(i) # isa
    BY <1>8, <1>9, <1>10 DEF Rio
  <2>2. QED
    BY <1>13, <1>14, <2>1
<1>17. \A i \in Hmem : c5[MemSpace(i)] = MemValue(o.claim_memory[i])
  <2>1. \A i \in Hmem : MemSpace(i) \in DOMAIN c4 /\ MemSpace(i) # isa
    BY <1>9, <1>10 DEF Rmem
  <2>2. QED
    BY <1>9, <1>14, <2>1
<1>18. c1[isa] = IF names = {} THEN TimingBefore(o) ELSE c1[isa]
  <2>1. isa \in DOMAIN DEFAULT_CONFIG
    BY DefaultIs
  <2>2. QED
    BY <1>5, <2>1, Zenon DEF TimingBefore
<1>19. TimingShows(c5, o)
  <2>1. CASE names = {}
    <3>1. "F" \notin Segments(names)
      BY <2>1 DEF Segments
    <3>2. FastBits(o) = o.flags /\ RomBits(o) = {}
      BY <2>1, <3>1 DEF FastBits, RomBits
    <3>3. c5[isa] = c2[isa] /\ c1[isa] = TimingBefore(o)
      BY <1>12, <1>14, <1>18, <2>1
    <3> DEFINE new == c2[isa]  old == c1[isa]
    <3>4. TurnedOn(new[1], old[1], o.flags) /\ new[2] = old[2] /\ new[3] = old[3] /\ new[4] = old[4]
      BY <1>7
    <3> HIDE DEF new, old
    <3>5. TurnedOn(new[4], old[4], {})
      BY <3>4 DEF TurnedOn
    <3>6. QED
      BY <3>2, <3>3, <3>4, <3>5, Zenon DEF TimingShows, new, old
  <2>2. CASE names # {}
    <3> DEFINE v == BiosValue(names)  s == Segments(names)  f == IF "F" \in s THEN {8} ELSE {}
    <3>1. /\ v[2] = 0 /\ v[3] = 0 /\ TurnedOn(v[1], 3, f)
          /\ TurnedOn(v[4], 0, {1} \cup ChipSelects(s))
      BY <1>2, BiosValueIs, Zenon
    <3>2. FastBits(o) = o.flags \cup f /\ RomBits(o) = {1} \cup ChipSelects(s)
      BY <2>2 DEF FastBits, RomBits
    <3>3. c5[isa] = v
      BY <1>14, <2>2
    <3>4. TimingBefore(o) = <<3, 0, 0, 0>>
      BY <2>2, DefaultIs DEF TimingBefore
    <3>5. TurnedOn(v[1], 3, o.flags \cup f)
      <4> HIDE DEF v, f
      <4>1. Bit(3, 1) /\ Bit(3, 2)
        BY DEF Bit
      <4>2. \A b \in o.flags : Bit(3, b)
        BY <1>2, <4>1
      <4>3. QED
        BY <3>1, <4>2 DEF TurnedOn
    <3> HIDE DEF v, f, s
    <3>6. <<3, 0, 0, 0>>[1] = 3 /\ <<3, 0, 0, 0>>[2] = 0 /\ <<3, 0, 0, 0>>[3] = 0 /\ <<3, 0, 0, 0>>[4] = 0
      OBVIOUS
    <3> DEFINE d == <<3, 0, 0, 0>>
    <3> HIDE DEF d
    <3>7. d[1] = 3 /\ d[2] = 0 /\ d[3] = 0 /\ d[4] = 0 /\ TimingBefore(o) = d
      BY <3>4, <3>6, Zenon DEF d
    <3>8. QED
      BY <3>1, <3>2, <3>3, <3>5, <3>7, Zenon DEF TimingShows
  <2>3. QED
    BY <2>1, <2>2
<1>20. GivenKept(c5, o)
  <2>1. ASSUME NEW i \in DOMAIN o.config, Stays(i),
               o.config[i].reg # isa,
               o.config[i].reg \notin Rio, o.config[i].reg \notin Rmem
        PROVE  c5[o.config[i].reg] = o.config[i].value
    <3> DEFINE r == o.config[i].reg
    <3>1. c1[r] = o.config[i].value /\ r \in DOMAIN c1
      BY <1>5, <2>1
    <3>2. r \notin Rio /\ r \notin Rmem /\ r # isa
      BY <2>1
    <3> HIDE DEF r
    <3>3. c4[r] = c2[r]
      BY <1>12, <3>1, <3>2
    <3>4. c2[r] = c1[r]
      BY <1>7, <3>1, <3>2
    <3>5. c5[r] = c4[r]
      BY <1>11, <1>14, <3>1, <3>2
    <3>6. QED
      BY <3>1, <3>3, <3>4, <3>5 DEF r
  <2>2. QED
    BY <2>1 DEF GivenKept, Stays, Rio, Rmem
<1>21. QED
  BY <1>1, <1>3, <1>15, <1>16, <1>17, <1>19, <1>20

-----------------------------------------------------------------------------
(* The invariant: the programmer's own, and the tool's file, once there is *)
(* one, is made from the one command line last obeyed.                     *)

Made == \E o \in Options :
  /\ tool.options = {o} /\ ~Rejected(o)
  /\ tool.config = generate_config(o) /\ tool.file = create_binary_data(generate_config(o))
ToolTypes ==
  /\ tool = [options |-> tool.options, config |-> tool.config, file |-> tool.file, faults |-> tool.faults]
  /\ tool.faults \in 0 .. MaxFaults
ConfigInv ==
  /\ EepromInv /\ ToolTypes
  /\ Made \/ (tool.options = {} /\ tool.config = NoConfig /\ tool.file = <<>>)

LEMMA ConfigInitInv == ConfigInit => ConfigInv
<1> SUFFICES ASSUME ConfigInit PROVE ConfigInv
  OBVIOUS
<1>1. EepromInv
  BY EepromInit DEF ConfigInit
<1>2. tool = [options |-> {}, config |-> NoConfig, file |-> <<>>, faults |-> 0] /\ 0 \in 0 .. MaxFaults
  BY ConfigAssumption DEF ConfigInit
<1>3. QED
  BY <1>1, <1>2 DEF ConfigInv, ToolTypes

(* A file made by the tool fills the EEPROM, and its lines are HEX lines.  *)
LEMMA MadeFile ==
  ASSUME Made
  PROVE  tool.file \in [1 .. EEPROM_SIZE -> Data] /\ HexFile(tool.file) \in Seq(Line)
<1>1. PICK o \in Options : ~Rejected(o) /\ tool.file = create_binary_data(generate_config(o))
  BY DEF Made
<1>2. RegisterMap(generate_config(o))
  BY <1>1, GeneratedIs
<1> DEFINE config == generate_config(o)
<1> HIDE DEF config
<1>3. create_binary_data(config) \in [1 .. EEPROM_SIZE -> Data]
  BY <1>2, Layout DEF config
<1>4. tool.file \in [1 .. EEPROM_SIZE -> Data]
  BY <1>1, <1>3 DEF config
<1>5. QED
  BY <1>4, HexFileIsFile

LEMMA EepromSame ==
  ASSUME EepromInv, UNCHANGED vars
  PROVE  EepromInv'
BY EepromStep

LEMMA GenerateStep ==
  ASSUME ConfigInv, NEW o \in Options, Generate(o)
  PROVE  ConfigInv'
<1>1. EepromInv'
  BY EepromSame DEF ConfigInv, Generate
<1>2. CASE Rejected(o)
  <2>1. tool' = tool
    BY <1>2 DEF Generate
  <2>2. QED
    BY <1>1, <2>1 DEF ConfigInv, ToolTypes, Made
<1>3. CASE ~Rejected(o)
  <2>1. tool' = [tool EXCEPT !.options = {o}, !.config = generate_config(o),
                             !.file = create_binary_data(generate_config(o))]
    BY <1>3 DEF Generate
  <2>2. /\ tool'.options = {o} /\ tool'.config = generate_config(o)
        /\ tool'.file = create_binary_data(generate_config(o)) /\ tool'.faults = tool.faults
        /\ tool' = [options |-> tool'.options, config |-> tool'.config, file |-> tool'.file,
                    faults |-> tool'.faults]
    BY <2>1 DEF ConfigInv, ToolTypes
  <2>3. ToolTypes'
    BY <2>2 DEF ConfigInv, ToolTypes
  <2>4. Made'
    BY <1>3, <2>2 DEF Made
  <2>5. QED
    BY <1>1, <2>3, <2>4 DEF ConfigInv
<1>4. QED
  BY <1>2, <1>3

LEMMA ConfigStep ==
  ASSUME ConfigInv, [ConfigNext]_configVars
  PROVE  ConfigInv'
<1>1. ASSUME EepromInv', UNCHANGED tool PROVE ConfigInv'
  BY <1>1 DEF ConfigInv, ToolTypes, Made
<1>2. CASE \E o \in Options : Generate(o)
  BY <1>2, GenerateStep
<1>3. CASE LoadConfig
  <2>1. Made
    BY <1>3 DEF ConfigInv, LoadConfig
  <2>2. HexFile(tool.file) \in Seq(Line)
    BY <2>1, MadeFile
  <2> DEFINE f == HexFile(tool.file)
  <2>3. Load(f) /\ UNCHANGED tool
    BY <1>3 DEF LoadConfig
  <2> HIDE DEF f
  <2>4. EepromInv'
    BY <2>2, <2>3, LoadStep DEF ConfigInv, f
  <2>5. QED
    BY <1>1, <2>3, <2>4
<1>4. ASSUME Next, Fault PROVE ConfigInv'
  <2>1. tool' = [tool EXCEPT !.faults = @ + 1] /\ tool.faults < MaxFaults
    BY <1>4 DEF Fault
  <2>2. EepromInv'
    BY <1>4, EepromStep DEF ConfigInv
  <2>3. /\ tool'.options = tool.options /\ tool'.config = tool.config /\ tool'.file = tool.file
        /\ tool'.faults = tool.faults + 1
        /\ tool' = [options |-> tool'.options, config |-> tool'.config, file |-> tool'.file,
                    faults |-> tool'.faults]
    BY <2>1 DEF ConfigInv, ToolTypes
  <2>4. ToolTypes'
    <3>1. tool'.faults \in 0 .. MaxFaults
      BY <2>1, <2>3, ConfigAssumption DEF ConfigInv, ToolTypes
    <3>2. QED
      BY <2>3, <3>1 DEF ToolTypes
  <2>5. QED
    BY <2>2, <2>3, <2>4 DEF ConfigInv, Made
<1>5. CASE Programmer \/ BoundedPowerLoss
  <2>1. Next /\ (Fault \/ UNCHANGED tool)
    BY <1>5 DEF Programmer, BoundedPowerLoss, Next
  <2>2. EepromInv'
    BY <2>1, EepromStep DEF ConfigInv
  <2>3. QED
    BY <1>1, <1>4, <2>1, <2>2
<1>6. CASE UNCHANGED configVars
  <2>1. UNCHANGED vars /\ UNCHANGED tool
    BY <1>6 DEF configVars
  <2>2. EepromInv'
    BY <2>1, EepromSame DEF ConfigInv
  <2>3. QED
    BY <1>1, <2>1, <2>2
<1>7. QED
  BY <1>2, <1>3, <1>5, <1>6 DEF ConfigNext

(* Whatever is generated, written, verified or cut off by a loss of power, *)
(* the tool's file is the one its last accepted command line makes, and    *)
(* the programmer keeps its own invariant while it writes that file.       *)
THEOREM ConfigInvariant == ConfigSpec => []ConfigInv
BY ConfigInitInv, ConfigStep, PTL DEF ConfigSpec

(* Every variable of the tool, the programmer and the EEPROM keeps its     *)
(* type: the generated map has only registers the chip has, and the file   *)
(* is exactly as long as the EEPROM.                                       *)
THEOREM ConfigTypeCorrect == ConfigSpec => []ConfigTypeOK
<1>1. ConfigInv => ConfigTypeOK
  <2> SUFFICES ASSUME ConfigInv PROVE ConfigTypeOK
    OBVIOUS
  <2>1. TypeOK
    BY EepromTypes DEF ConfigInv
  <2>2. CASE Made
    <3>1. PICK o \in Options : tool.options = {o} /\ ~Rejected(o) /\ tool.config = generate_config(o)
      BY <2>2 DEF Made
    <3>2. RegisterMap(tool.config)
      BY <3>1, GeneratedIs
    <3>3. tool.file \in [1 .. EEPROM_SIZE -> Data]
      BY <2>2, MadeFile
    <3>4. QED
      BY <2>1, <3>1, <3>2, <3>3 DEF ConfigTypeOK, ConfigInv, ToolTypes, RegisterMap
  <2>3. CASE tool.options = {} /\ tool.config = NoConfig /\ tool.file = <<>>
    BY <2>1, <2>3 DEF ConfigTypeOK, ConfigInv, ToolTypes, NoConfig
  <2>4. QED
    BY <2>2, <2>3 DEF ConfigInv
<1>2. QED
  BY <1>1, ConfigInvariant, PTL

(* After "verification successful", the EEPROM holds the tool's file.      *)
LEMMA DeliveredFile ==
  ASSUME ConfigInv, Delivered
  PROVE  Made /\ mem = RomOf(tool.file)
<1>1. Made
  BY DEF ConfigInv, Delivered
<1>2. pgm.memory = RomOf(tool.file) /\ DOMAIN RomOf(tool.file) = Cells
  BY DEF Delivered, RomOf
<1>3. \A a \in Cells : mem[a] = pgm.memory[a]
  BY <1>2 DEF ConfigInv, EepromInv, Delivered, VerifiedMeansStored
<1>4. mem \in [Cells -> Data]
  BY EepromFacts DEF ConfigInv
<1>5. mem = RomOf(tool.file)
  <2>1. \A a \in Cells : mem[a] = RomOf(tool.file)[a]
    BY <1>2, <1>3
  <2>2. mem = [a \in Cells |-> mem[a]]
    BY <1>4
  <2>3. QED
    BY <2>1, <2>2 DEF RomOf
<1>6. QED
  BY <1>1, <1>5

(* For every command line, EEPROM and loss of power: once verification was *)
(* announced, the chip loads exactly the registers the tool generated.  No *)
(* byte left by an interrupted or earlier write is taken for a register,   *)
(* and no byte of a value for the end of the list.                         *)
THEOREM Boots == ConfigSpec => []BootsAsGenerated
<1>1. ConfigInv => BootsAsGenerated
  <2> SUFFICES ASSUME ConfigInv, Delivered PROVE BootRom(mem) = tool.config
    BY DEF BootsAsGenerated
  <2>1. Made /\ mem = RomOf(tool.file)
    BY DeliveredFile
  <2>2. PICK o \in Options : /\ ~Rejected(o) /\ tool.config = generate_config(o)
                             /\ tool.file = create_binary_data(generate_config(o))
    BY <2>1 DEF Made
  <2>3. RegisterMap(tool.config)
    BY <2>2, GeneratedIs
  <2>4. BootRom(RomOf(create_binary_data(tool.config))) = tool.config
    BY <2>3, BootsFromFile
  <2>5. QED
    BY <2>1, <2>2, <2>4
<1>2. QED
  BY <1>1, ConfigInvariant, PTL

(* The registers made of an accepted command line show all its options.    *)
LEMMA OptionsShowIn ==
  ASSUME NEW o \in Options, ~Rejected(o)
  PROVE  LET chip == generate_config(o) IN
         /\ IoClaimed(chip, o) /\ MemClaimed(chip, o)
         /\ GivenKept(chip, o) /\ TimingShows(chip, o)
<1> DEFINE chip == generate_config(o)
           Hio == Heeded(o.claim_io, IoSpaces)  Hmem == Heeded(o.claim_memory, MemSpaces)
<1>1. /\ \A i \in Hio : chip[IoSpace(i)] = IoValue(o.claim_io[i]) /\ ValidClaim(o.claim_io[i], IoSizeBits)
      /\ \A i \in Hmem :
           chip[MemSpace(i)] = MemValue(o.claim_memory[i]) /\ ValidClaim(o.claim_memory[i], MemSizeBits)
      /\ GivenKept(chip, o) /\ TimingShows(chip, o)
  BY GeneratedIs, Zenon
<1> HIDE DEF chip
<1>2. /\ \A i \in Hio : o.claim_io[i].base \in Int
      /\ \A i \in Hmem : o.claim_memory[i].base \in Int
  <2>1. IoSpaces \in Nat /\ MemSpaces \in Nat
    BY ConfigAssumption
  <2>2. o.claim_io \in Seq(Claims) /\ o.claim_memory \in Seq(Claims)
    BY OptionFacts
  <2>3. QED
    BY <2>1, <2>2, HeededFacts, Zenon
<1>3. IoClaimed(chip, o)
  <2> SUFFICES ASSUME NEW i \in Hio
               PROVE  LET v == chip[IoSpace(i)]  c == o.claim_io[i] IN
                      /\ Decodes(v, c, IoSizeBits)
                      /\ 0 <= c.base /\ c.base < \h10000 => v[1] + \h100 * v[2] = c.base
    BY DEF IoClaimed
  <2> DEFINE c == o.claim_io[i]  v == IoValue(c)
  <2>1. chip[IoSpace(i)] = v /\ ValidClaim(c, IoSizeBits) /\ c.base \in Int
    BY <1>1, <1>2
  <2> HIDE DEF c
  <2>2. Decodes(v, c, IoSizeBits) /\ (0 <= c.base /\ c.base < \h10000 => v[1] + \h100 * v[2] = c.base)
    BY <2>1, IoValueIs
  <2> HIDE DEF v
  <2>3. QED
    BY <2>1, <2>2 DEF c
<1>4. MemClaimed(chip, o)
  <2> SUFFICES ASSUME NEW i \in Hmem
               PROVE  LET v == chip[MemSpace(i)]  c == o.claim_memory[i]  page == c.base \div \h100 IN
                      /\ Decodes(v, c, MemSizeBits)
                      /\ 0 <= page /\ page < \h1000000 => v[1] + \h100 * v[2] + \h10000 * v[3] = page
    BY SMT DEF MemClaimed
  <2> DEFINE c == o.claim_memory[i]  v == MemValue(c)  page == c.base \div \h100
  <2>1. chip[MemSpace(i)] = v /\ ValidClaim(c, MemSizeBits) /\ c.base \in Int
    BY <1>1, <1>2, SMT
  <2> HIDE DEF c
  <2>2. /\ Decodes(v, c, MemSizeBits)
        /\ 0 <= page /\ page < \h1000000 => v[1] + \h100 * v[2] + \h10000 * v[3] = page
    BY <2>1, MemValueIs, SMT
  <2> HIDE DEF v
  <2>3. QED
    BY <2>1, <2>2, SMT DEF c
<1>5. QED
  BY <1>1, <1>3, <1>4, Zenon DEF chip

(* For every command line, and every history of writes and faults: once    *)
(* verification was announced, the chip that loads the EEPROM decodes the  *)
(* spaces claimed, at the base, size and speed asked for, and has the      *)
(* values given for registers no other option speaks of.  The register     *)
(* three options share is the value given, or the default, with the bits   *)
(* of the flags and segments on and no other changed; beside               *)
(* --bios-segments it is made of the default, and a value given is lost.   *)
THEOREM OptionsShow == ConfigSpec => []OptionsTakeEffect
<1>1. ConfigInv => OptionsTakeEffect
  <2> SUFFICES ASSUME ConfigInv, Delivered, NEW o \in tool.options
               PROVE  LET chip == BootRom(mem) IN
                      /\ IoClaimed(chip, o) /\ MemClaimed(chip, o)
                      /\ GivenKept(chip, o) /\ TimingShows(chip, o)
    BY Zenon DEF OptionsTakeEffect
  <2>1. Made /\ mem = RomOf(tool.file)
    BY DeliveredFile
  <2>2. o \in Options /\ ~Rejected(o) /\ tool.file = create_binary_data(generate_config(o))
    BY <2>1 DEF Made
  <2> DEFINE config == generate_config(o)
  <2>3. RegisterMap(config)
    BY <2>2, GeneratedIs, Zenon
  <2>4. /\ IoClaimed(config, o) /\ MemClaimed(config, o)
        /\ GivenKept(config, o) /\ TimingShows(config, o)
    BY <2>2, OptionsShowIn, Zenon
  <2>5. tool.file = create_binary_data(config)
    BY <2>2
  <2> HIDE DEF config
  <2>6. BootRom(RomOf(create_binary_data(config))) = config
    BY <2>3, BootsFromFile, Zenon
  <2>7. BootRom(mem) = config
    BY <2>1, <2>5, <2>6
  <2>8. QED
    BY <2>4, <2>7, Zenon
<1>2. QED
  BY <1>1, ConfigInvariant, PTL
=============================================================================
