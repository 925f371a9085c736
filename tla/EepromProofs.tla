---------------------------- MODULE EepromProofs ----------------------------
(* EepromProgrammer, every HEX file, memory size and loss of power: what   *)
(* is in the EEPROM when the program says it is.  Proofs.                  *)
EXTENDS EepromProgrammer, TLAPS, FiniteSetTheorems, SequenceTheorems, WellFoundedInduction

-----------------------------------------------------------------------------
(* Least and greatest elements.                                            *)

LEMMA HasMin ==
  ASSUME NEW S \in SUBSET Nat, S # {}
  PROVE  Min(S) \in S /\ \A y \in S : Min(S) <= y
<1>1. PICK x \in S : \A y \in S : ~(<<y, x>> \in OpToRel(<, Nat))
  BY NatLessThanWellFounded, WFMin
<1>2. \A y \in S : x <= y
  <2>1. ASSUME NEW y \in S PROVE ~(y < x)
    BY <1>1, <2>1 DEF OpToRel
  <2>2. QED
    BY <2>1
<1>3. QED
  BY <1>2 DEF Min

LEMMA HasMax ==
  ASSUME NEW S \in SUBSET Nat, S # {}, NEW k \in Nat, \A y \in S : y <= k
  PROVE  Max(S) \in S /\ \A y \in S : Max(S) >= y
<1> DEFINE T == {k - y : y \in S}
<1>1. T \in SUBSET Nat /\ T # {}
  <2>1. \A y \in S : k - y \in Nat
    OBVIOUS
  <2>2. T \subseteq Nat
    BY <2>1
  <2>3. T # {}
    BY Zenon
  <2>4. QED
    BY <2>2, <2>3
<1>2. Min(T) \in T /\ \A z \in T : Min(T) <= z
  BY <1>1, HasMin
<1>3. PICK x \in S : Min(T) = k - x
  BY <1>2
<1>4. \A y \in S : x >= y
  BY <1>2, <1>3
<1>5. QED
  BY <1>4 DEF Max

LEMMA OfTwo ==
  ASSUME NEW a \in Int, NEW b \in Int
  PROVE  /\ Max({a, b}) = IF a >= b THEN a ELSE b
         /\ Min({a, b}) = IF a <= b THEN a ELSE b
<1>1. \E x \in {a, b} : \A y \in {a, b} : x >= y
  OBVIOUS
<1>2. \E x \in {a, b} : \A y \in {a, b} : x <= y
  OBVIOUS
<1>3. Max({a, b}) \in {a, b} /\ \A y \in {a, b} : Max({a, b}) >= y
  BY <1>1 DEF Max
<1>4. Min({a, b}) \in {a, b} /\ \A y \in {a, b} : Min({a, b}) <= y
  BY <1>2 DEF Min
<1>5. QED
  BY <1>3, <1>4

-----------------------------------------------------------------------------
(* Pages.                                                                  *)

LEMMA Sizes ==
  /\ Byte \in Nat /\ PAGE_SIZE \in Nat /\ PAGE_SIZE > 0 /\ Pages \in Nat /\ Pages > 0
  /\ ChunkSize \in Nat /\ ChunkSize > 0
  /\ EEPROM_SIZE \in Nat /\ EEPROM_SIZE > 0 /\ EEPROM_SIZE <= Byte
  /\ EEPROM_SIZE = PAGE_SIZE * Pages
<1>1. Pages * PAGE_SIZE \in Nat /\ Pages * PAGE_SIZE > 0 /\ Pages * PAGE_SIZE = PAGE_SIZE * Pages
  BY EepromAssumption
<1>2. QED
  BY <1>1, EepromAssumption DEF EEPROM_SIZE

LEMMA PageOf ==
  ASSUME NEW a \in Nat
  PROVE  /\ Page(a) \in Int /\ a % PAGE_SIZE \in 0 .. PAGE_SIZE - 1
         /\ a = PAGE_SIZE * Page(a) + (a % PAGE_SIZE)
BY Sizes DEF Page

LEMMA Multiples ==
  ASSUME NEW x \in Int, NEW y \in Int, x > y
  PROVE  PAGE_SIZE * x >= PAGE_SIZE * y + PAGE_SIZE
<1>1. x - y >= 1 /\ x - y \in Nat
  OBVIOUS
<1>2. PAGE_SIZE * (x - y) >= PAGE_SIZE
  BY <1>1, Sizes
<1>3. PAGE_SIZE * (x - y) = PAGE_SIZE * x - PAGE_SIZE * y
  BY Sizes
<1>4. PAGE_SIZE * x \in Int /\ PAGE_SIZE * y \in Int
  BY Sizes
<1>5. QED
  BY <1>2, <1>3, <1>4, Sizes

(* The place in its page of an address that is not past the page's end.    *)
LEMMA InPage ==
  ASSUME NEW a \in Nat, NEW k \in Nat, (a % PAGE_SIZE) + k < PAGE_SIZE
  PROVE  Page(a + k) = Page(a) /\ (a + k) % PAGE_SIZE = (a % PAGE_SIZE) + k
<1> DEFINE p == Page(a)  q == Page(a + k)  r == a % PAGE_SIZE  s == (a + k) % PAGE_SIZE
           mp == PAGE_SIZE * p  mq == PAGE_SIZE * q
<1>1. p \in Int /\ r \in 0 .. PAGE_SIZE - 1 /\ a = mp + r
  BY PageOf
<1>2. a + k \in Nat
  OBVIOUS
<1>3. q \in Int /\ s \in 0 .. PAGE_SIZE - 1 /\ a + k = mq + s
  BY <1>2, PageOf
<1>4. (p > q => mp >= mq + PAGE_SIZE) /\ (q > p => mq >= mp + PAGE_SIZE)
  BY <1>1, <1>3, Multiples
<1>5. mp \in Int /\ mq \in Int
  BY <1>1, <1>3, Sizes
<1>6. p = q => mp = mq
  OBVIOUS
<1> HIDE DEF p, q, r, s, mp, mq
<1>7. p = q
  BY <1>1, <1>3, <1>4, <1>5, Sizes DEF r
<1>8. s = r + k
  BY <1>1, <1>3, <1>5, <1>6, <1>7, Sizes
<1>9. QED
  BY <1>7, <1>8 DEF p, q, r, s

LEMMA SamePage ==
  ASSUME NEW a \in Nat, NEW k \in Nat, Page(a + k) = Page(a)
  PROVE  (a % PAGE_SIZE) + k < PAGE_SIZE
<1>1. a + k \in Nat
  OBVIOUS
<1>2. PAGE_SIZE * Page(a) \in Int
  BY PageOf, Sizes
<1>3. /\ a = PAGE_SIZE * Page(a) + (a % PAGE_SIZE) /\ a % PAGE_SIZE \in Int
      /\ a + k = PAGE_SIZE * Page(a) + ((a + k) % PAGE_SIZE)
      /\ (a + k) % PAGE_SIZE \in 0 .. PAGE_SIZE - 1
  BY <1>1, PageOf, Sizes
<1> DEFINE m == PAGE_SIZE * Page(a)  r == a % PAGE_SIZE  s == (a + k) % PAGE_SIZE
<1> HIDE DEF m, r, s
<1>4. r + k = s
  BY <1>2, <1>3 DEF m, r, s
<1>5. s < PAGE_SIZE
  BY <1>3, Sizes DEF s
<1>6. QED
  BY <1>4, <1>5 DEF r

LEMMA PageEnd ==
  ASSUME NEW a \in Cells, NEW k \in Nat, Page(a + k) = Page(a)
  PROVE  a + k \in Cells
<1> DEFINE m == PAGE_SIZE * Page(a)
<1>1. a \in Nat /\ a < EEPROM_SIZE
  BY Sizes DEF Cells
<1>2. m \in Int /\ a = m + (a % PAGE_SIZE) /\ a % PAGE_SIZE \in 0 .. PAGE_SIZE - 1 /\ Page(a) \in Int
  BY <1>1, PageOf, Sizes
<1>3. m + PAGE_SIZE <= EEPROM_SIZE
  <2>1. Page(a) >= Pages => m >= EEPROM_SIZE
    <3>1. ASSUME Page(a) > Pages PROVE PAGE_SIZE * Page(a) >= PAGE_SIZE * Pages + PAGE_SIZE
      <4>1. Page(a) \in Int /\ Pages \in Int
        BY <1>2, Sizes
      <4>2. QED
        BY <3>1, <4>1, Multiples
    <3>2. QED
      BY <1>2, <3>1, Sizes
  <2>2. Pages > Page(a)
    BY <1>1, <1>2, <2>1, Sizes
  <2>3. PAGE_SIZE * Pages >= m + PAGE_SIZE
    BY <1>2, <2>2, Sizes, Multiples
  <2>4. QED
    BY <2>3, Sizes
<1>4. (a % PAGE_SIZE) + k < PAGE_SIZE
  BY <1>1, SamePage
<1> HIDE DEF m
<1>5. QED
  BY <1>1, <1>2, <1>3, <1>4, Sizes DEF Cells

-----------------------------------------------------------------------------
(* Types.                                                                  *)

Maps(S) == UNION {[T -> Data] : T \in SUBSET S}
Program ==
  [pc : {"idle", "menu", "parse", "group", "write", "nap", "verify", "dump"},
   todo : Seq(Line), memory : Maps(Nat), at : Nat, data : Seq(Data), stop : Nat, result : Results,
   short : SUBSET Cells, blind : SUBSET Cells]

TypeInv == mem \in [Cells -> Data] /\ cycle \in Maps(Cells) /\ pgm \in Program

LEMMA MapFacts ==
  ASSUME NEW S, NEW f
  PROVE  f \in Maps(S) <=> f \in [DOMAIN f -> Data] /\ DOMAIN f \subseteq S
BY DEF Maps

LEMMA NoDataMap == NoData \in Maps(Nat) /\ NoData \in Maps(Cells) /\ DOMAIN NoData = {}
BY DEF NoData, Maps

LEMMA EndedTypes ==
  ASSUME NEW r \in Results
  PROVE  Ended(r) \in Program
<1>1. << >> \in Seq(Line) /\ << >> \in Seq(Data)
  BY EmptySeq
<1>2. QED
  BY <1>1, NoDataMap DEF Ended, Program

LEMMA EndTypes ==
  ASSUME TypeInv, NEW r \in Results, End(r)
  PROVE  /\ pgm' \in Program /\ pgm'.pc = "idle" /\ pgm'.result = r /\ pgm'.memory = pgm.memory
         /\ pgm'.blind = pgm.blind
<1>1. Ended(r) \in Program /\ Ended(r).pc = "idle" /\ Ended(r).result = r
  BY EndedTypes DEF Ended
<1>2. pgm.memory \in Maps(Nat) /\ pgm.blind \in SUBSET Cells
  BY DEF TypeInv, Program
<1>3. QED
  BY <1>1, <1>2 DEF End, Program

(* What the bytes of an accepted line give.                                *)
LEMMA LineTypes ==
  ASSUME NEW d \in Line, ~IndexError(d), ~TooShort(d)
  PROVE  /\ Address(d) \in Nat /\ Count(d) \in Nat
         /\ \A i \in 1 .. Count(d) : d[4 + i] \in Data
<1>1. Len(d) \in Nat /\ Len(d) >= 5 /\ d \in [1 .. Len(d) -> Data]
  BY LenProperties DEF Line, TooShort
<1>2. d[1] \in Data /\ d[2] \in Data /\ d[3] \in Data
  BY <1>1
<1>3. Count(d) \in Nat /\ Len(d) >= 5 + Count(d)
  BY <1>1, <1>2 DEF Count, IndexError, TooShort, Data
<1>4. Address(d) \in Nat
  <2>1. d[2] * Byte \in Nat
    BY <1>2, Sizes DEF Data
  <2>2. QED
    BY <1>2, <2>1 DEF Address, Data
<1>5. ASSUME NEW i \in 1 .. Count(d) PROVE d[4 + i] \in Data
  <2>1. 4 + i \in 1 .. Len(d)
    BY <1>1, <1>3
  <2>2. QED
    BY <1>1, <2>1
<1>6. QED
  BY <1>3, <1>4, <1>5

LEMMA PutTypes ==
  ASSUME NEW memory \in Maps(Nat), NEW d \in Line, ~IndexError(d), ~TooShort(d)
  PROVE  Put(memory, d) \in Maps(Nat)
<1> DEFINE new == Address(d) .. Address(d) + Count(d) - 1
<1>1. /\ Address(d) \in Nat /\ Count(d) \in Nat
      /\ \A i \in 1 .. Count(d) : d[4 + i] \in Data
  BY LineTypes
<1>2. memory \in [DOMAIN memory -> Data] /\ DOMAIN memory \subseteq Nat
  BY MapFacts
<1>3. new \subseteq Nat
  BY <1>1
<1>4. ASSUME NEW a \in new PROVE d[5 + a - Address(d)] \in Data
  <2> DEFINE i == 1 + a - Address(d)
  <2>1. i \in 1 .. Count(d) /\ 5 + a - Address(d) = 4 + i
    BY <1>1
  <2>2. QED
    BY <1>1, <2>1
<1>5. Put(memory, d) \in [DOMAIN memory \cup new -> Data]
  BY <1>2, <1>4 DEF Put
<1>6. QED
  BY <1>2, <1>3, <1>5 DEF Maps

(* The bytes of a group: as many as it has addresses, in their order.      *)
LEMMA Nths ==
  ASSUME NEW start \in Nat, NEW last \in Nat, start <= last
  PROVE  /\ Cardinality(start .. last) = last - start + 1
         /\ \A i \in 1 .. last - start + 1 : Nth(start .. last, i) = start + i - 1
<1>1. Cardinality(start .. last) = last - start + 1
  BY FS_Interval
<1>2. ASSUME NEW i \in 1 .. last - start + 1 PROVE Nth(start .. last, i) = start + i - 1
  <2>1. ASSUME NEW a \in start .. last
        PROVE  Cardinality({b \in start .. last : b < a}) = a - start
    <3>1. {b \in start .. last : b < a} = start .. a - 1
      OBVIOUS
    <3> DEFINE k == Cardinality(start .. a - 1)
    <3>2. a - 1 \in Int
      OBVIOUS
    <3>3. k = IF start > a - 1 THEN 0 ELSE a - 1 - start + 1
      BY <3>2, FS_Interval
    <3> HIDE DEF k
    <3>4. k = a - start
      BY <3>3
    <3>5. QED
      BY <3>1, <3>4 DEF k
  <2>2. start + i - 1 \in start .. last
    OBVIOUS
  <2>3. \A a \in start .. last : a - start = i - 1 <=> a = start + i - 1
    OBVIOUS
  <2>4. \A a \in start .. last :
          Cardinality({b \in start .. last : b < a}) = i - 1 <=> a = start + i - 1
    BY <2>1, <2>3
  <2>5. QED
    BY <2>2, <2>4 DEF Nth
<1>3. QED
  BY <1>1, <1>2

(* A group is a run of addresses in one page, from the least byte pending. *)
LEMMA GroupRun ==
  ASSUME TypeInv, Pending # {}
  PROVE  LET start == Min(Pending)  addrs == GroupOf(start)  last == Max(addrs)  n == last - start + 1 IN
         /\ start \in Pending /\ \A a \in Pending : start <= a
         /\ last \in Pending /\ start <= last /\ Page(last) = Page(start)
         /\ start .. last \subseteq Pending
         /\ Bytes(addrs) \in Seq(Data) /\ Len(Bytes(addrs)) = n
         /\ \A i \in 1 .. n : Bytes(addrs)[i] = pgm.memory[start + i - 1]
<1> DEFINE start == Min(Pending)  addrs == GroupOf(start)  last == Max(addrs)  n == last - start + 1
<1>1. /\ pgm.memory \in [DOMAIN pgm.memory -> Data] /\ DOMAIN pgm.memory \subseteq Nat
      /\ Pending \in SUBSET Nat /\ Pending \subseteq DOMAIN pgm.memory
  BY MapFacts DEF TypeInv, Program, Pending
<1>2. start \in Pending /\ start \in Nat /\ \A a \in Pending : start <= a
  BY <1>1, HasMin
<1> HIDE DEF start
<1>3. start \in addrs
  BY <1>2 DEF GroupOf
<1>4. addrs \in SUBSET Nat /\ \A a \in addrs : a <= start + PAGE_SIZE
  <2>1. addrs \in SUBSET Nat
    BY <1>1 DEF GroupOf
  <2>2. ASSUME NEW a \in addrs PROVE a <= start + PAGE_SIZE
    <3>1. a \in Nat /\ start <= a /\ Page(a) = Page(start)
      BY <1>1, <1>2, <2>2 DEF GroupOf
    <3>2. a - start \in Nat /\ start + (a - start) = a
      BY <1>2, <3>1
    <3>3. (start % PAGE_SIZE) + (a - start) < PAGE_SIZE
      BY <1>2, <3>1, <3>2, SamePage
    <3>4. start % PAGE_SIZE \in Nat
      BY <1>2, PageOf, Sizes
    <3>5. QED
      BY <1>2, <3>1, <3>3, <3>4, Sizes
  <2>3. QED
    BY <2>1, <2>2
<1>5. last \in addrs /\ \A a \in addrs : last >= a
  <2>1. start + PAGE_SIZE \in Nat
    BY <1>2, Sizes
  <2>2. QED
    BY <1>3, <1>4, <2>1, HasMax
<1> HIDE DEF last
<1>6. last \in Pending /\ start <= last /\ Page(last) = Page(start) /\ start .. last \subseteq Pending /\ last \in Nat
  BY <1>1, <1>2, <1>5 DEF GroupOf
<1>7. addrs = start .. last
  <2>1. addrs \subseteq start .. last
    BY <1>1, <1>2, <1>4, <1>5, <1>6 DEF GroupOf
  <2>2. ASSUME NEW a \in start .. last PROVE a \in addrs
    <3>1. a \in Pending /\ start .. a \subseteq Pending
      BY <1>2, <1>6
    <3>2. Page(a) = Page(start)
      <4>1. a - start \in Nat /\ start + (a - start) = a /\ last - start \in Nat /\ start + (last - start) = last
        BY <1>2, <1>6
      <4>2. (start % PAGE_SIZE) + (last - start) < PAGE_SIZE
        BY <1>2, <1>6, <4>1, SamePage
      <4>3. (start % PAGE_SIZE) + (a - start) < PAGE_SIZE
        BY <1>2, <1>6, <4>2, PageOf, Sizes
      <4>4. QED
        BY <1>2, <4>1, <4>3, InPage
    <3>3. QED
      BY <3>1, <3>2 DEF GroupOf
  <2>3. QED
    BY <2>1, <2>2
<1> HIDE DEF addrs
<1>8. n \in Nat /\ Cardinality(addrs) = n /\ \A i \in 1 .. n : Nth(addrs, i) = start + i - 1
  BY <1>2, <1>6, <1>7, Nths
<1>9. \A i \in 1 .. n : start + i - 1 \in start .. last
  BY <1>2, <1>6
<1>10. \A i \in 1 .. n : pgm.memory[Nth(addrs, i)] = pgm.memory[start + i - 1] /\ pgm.memory[start + i - 1] \in Data
  BY <1>1, <1>6, <1>8, <1>9
<1>11. Bytes(addrs) = [i \in 1 .. n |-> pgm.memory[Nth(addrs, i)]]
  BY <1>8 DEF Bytes
<1>12. Bytes(addrs) \in [1 .. n -> Data]
  BY <1>10, <1>11
<1>13. Bytes(addrs) \in Seq(Data) /\ Len(Bytes(addrs)) = n
  BY <1>8, <1>12
<1>14. QED
  BY <1>2, <1>6, <1>10, <1>11, <1>13 DEF start, addrs, last

-----------------------------------------------------------------------------
(* The inductive invariant.                                                *)

(* The EEPROM holds what the program has for address a, or is about to, or *)
(* did not acknowledge it.                                                 *)
Holds(a) == a \in Cells /\ (a \in pgm.short \/ Stored[a] = pgm.memory[a])

(* What is to be written next: a run of bytes inside one page.             *)
RunToWrite ==
  LET n == Len(pgm.data) IN
  /\ n >= 1 /\ pgm.at \in Cells /\ Page(pgm.at + n - 1) = Page(pgm.at)
  /\ \A i \in 1 .. n : /\ pgm.at + i - 1 \in DOMAIN pgm.memory
                       /\ pgm.data[i] = pgm.memory[pgm.at + i - 1]

(* During verification, and after it: what was read back, at an address    *)
(* that was acknowledged, was not about to change.                         *)
ReadBack ==
  \A a \in DOMAIN pgm.memory : a < pgm.at => a \in pgm.blind \/ mem[a] = pgm.memory[a]
Verifying == (\A a \in DOMAIN pgm.memory : Holds(a)) /\ ReadBack /\ (pgm.at > 0 => ~Busy)

EepromInv ==
  /\ TypeInv
  /\ pgm.pc \in {"menu", "parse"} => pgm.at = 0
  /\ pgm.pc \in {"group", "write", "nap", "verify"} => DOMAIN pgm.memory # {}
  /\ pgm.pc \in {"group", "write", "nap"} => \A a \in DOMAIN pgm.memory : a < pgm.at => Holds(a)
  /\ pgm.pc = "write" => RunToWrite
  /\ pgm.pc = "nap" => pgm.data = <<>>
  /\ pgm.pc = "verify" => Verifying
  /\ pgm.result = "verified" => pgm.pc = "idle" /\ ~Busy /\ VerifiedMeansStored
  /\ pgm.pc = "dump" => pgm.stop <= EEPROM_SIZE
  /\ pgm.result # "value_error"

LEMMA EepromInit == Init => EepromInv
<1> SUFFICES ASSUME Init PROVE EepromInv
  OBVIOUS
<1>1. TypeInv
  <2>1. Erased \in Data
    BY Sizes DEF Erased, Data
  <2>2. QED
    BY <2>1, NoDataMap, EndedTypes DEF Init, TypeInv, Results
<1>2. pgm.pc = "idle" /\ pgm.result = "none"
  BY DEF Init, Ended
<1>3. QED
  BY <1>1, <1>2 DEF EepromInv

(* What is known of the program in every state.                            *)
LEMMA EepromFacts ==
  ASSUME EepromInv
  PROVE  /\ TypeInv /\ mem \in [Cells -> Data] /\ cycle \in Maps(Cells) /\ pgm \in Program
         /\ pgm.at \in Nat /\ pgm.stop \in Nat /\ pgm.memory \in Maps(Nat)
         /\ pgm.todo \in Seq(Line) /\ pgm.data \in Seq(Data)
         /\ pgm.short \in SUBSET Cells /\ pgm.blind \in SUBSET Cells
         /\ DOMAIN pgm.memory \subseteq Nat /\ Cells \subseteq Nat
         /\ Stored \in [Cells -> Data]
         /\ (~Busy => Stored = mem)
<1>1. TypeInv
  BY DEF EepromInv
<1>2. DOMAIN pgm.memory \subseteq Nat
  BY <1>1, MapFacts DEF TypeInv, Program
<1>3. cycle \in [DOMAIN cycle -> Data]
  BY <1>1, MapFacts DEF TypeInv
<1>4. Stored \in [Cells -> Data]
  BY <1>1, <1>3 DEF Stored, TypeInv
<1>5. ASSUME ~Busy PROVE Stored = mem
  <2>1. DOMAIN cycle = {}
    BY <1>5, NoDataMap DEF Busy
  <2>2. Stored = [a \in Cells |-> mem[a]]
    BY <2>1 DEF Stored
  <2>3. QED
    BY <1>1, <2>2 DEF TypeInv
<1>6. QED
  BY <1>1, <1>2, <1>4, <1>5 DEF TypeInv, Program, Cells

(* A program that ends with nothing to report but an error, or that does   *)
(* not write or verify.                                                    *)
LEMMA Ends ==
  ASSUME EepromInv, NEW r \in Results \ {"verified", "value_error"}, End(r), UNCHANGED <<mem, cycle>>
  PROVE  EepromInv'
<1>1. pgm' \in Program /\ pgm'.pc = "idle" /\ pgm'.result = r
  BY EepromFacts, EndTypes
<1>2. TypeInv'
  BY <1>1, EepromFacts DEF TypeInv
<1>3. QED
  BY <1>1, <1>2 DEF EepromInv

LEMMA ScanStep ==
  ASSUME EepromInv, Scan
  PROVE  EepromInv'
<1>1. "not_found" \in Results /\ "none" \in Results
  BY DEF Results
<1>2. CASE pgm' = Ended("not_found")
  <2>1. pgm' \in Program /\ pgm'.pc = "idle" /\ pgm'.result = "not_found"
    BY <1>1, <1>2, EndedTypes DEF Ended
  <2>2. QED
    BY <2>1, EepromFacts DEF Scan, TypeInv, EepromInv
<1>3. CASE pgm' = [Ended("none") EXCEPT !.pc = "menu"]
  <2>1. pgm' \in Program /\ pgm'.pc = "menu" /\ pgm'.result = "none" /\ pgm'.at = 0
    <3>1. Ended("none") \in Program /\ Ended("none").at = 0 /\ Ended("none").result = "none"
      BY <1>1, EndedTypes DEF Ended
    <3>2. QED
      BY <1>3, <3>1 DEF Program
  <2>2. QED
    BY <2>1, EepromFacts DEF Scan, TypeInv, EepromInv
<1>4. QED
  BY <1>2, <1>3 DEF Scan

LEMMA LoadStep ==
  ASSUME EepromInv, NEW f \in Seq(Line), Load(f)
  PROVE  EepromInv'
<1>1. pgm' \in Program /\ pgm'.pc = "parse" /\ pgm'.at = 0 /\ pgm'.result = pgm.result
  BY EepromFacts DEF Load, Program, EepromInv
<1>2. QED
  BY <1>1, EepromFacts DEF Load, TypeInv, EepromInv

LEMMA ParseStep ==
  ASSUME EepromInv, ParseLine
  PROVE  EepromInv'
<1> DEFINE d == Head(pgm.todo)
<1>1. pgm.pc = "parse" /\ pgm.todo # <<>> /\ UNCHANGED <<mem, cycle>>
  BY DEF ParseLine
<1>2. d \in Line /\ Tail(pgm.todo) \in Seq(Line)
  BY <1>1, EepromFacts, HeadTailProperties
<1> HIDE DEF d
<1>3. CASE IndexError(d)
  BY <1>1, <1>3, Ends DEF ParseLine, Results, d
<1>4. CASE ~IndexError(d)
  <2>1. pgm' = [pgm EXCEPT !.todo = IF EndOfFile(d) THEN <<>> ELSE Tail(pgm.todo),
                           !.memory = IF DataRecord(d) THEN Put(pgm.memory, d) ELSE pgm.memory]
    BY <1>4 DEF ParseLine, d
  <2>2. (IF DataRecord(d) THEN Put(pgm.memory, d) ELSE pgm.memory) \in Maps(Nat)
    BY <1>2, <1>4, EepromFacts, PutTypes DEF DataRecord, Accepted
  <2>3. (IF EndOfFile(d) THEN <<>> ELSE Tail(pgm.todo)) \in Seq(Line)
    BY <1>2, EmptySeq
  <2>4. pgm' \in Program /\ pgm'.pc = "parse" /\ pgm'.at = pgm.at /\ pgm'.result = pgm.result
    BY <1>1, <2>1, <2>2, <2>3, EepromFacts DEF Program
  <2>5. QED
    BY <1>1, <2>4, EepromFacts DEF TypeInv, EepromInv
<1>5. QED
  BY <1>3, <1>4

LEMMA ParsedStep ==
  ASSUME EepromInv, Parsed
  PROVE  EepromInv'
<1>1. CASE pgm.memory = NoData
  BY <1>1, Ends DEF Parsed, Results
<1>2. CASE pgm.memory # NoData
  <2>1. /\ pgm' = [pgm EXCEPT !.pc = "group"] /\ pgm.pc = "parse" /\ pgm.at = 0
        /\ UNCHANGED <<mem, cycle>>
    BY <1>2 DEF Parsed, Goto, EepromInv
  <2>2. pgm' \in Program /\ pgm'.pc = "group" /\ pgm'.at = 0 /\ pgm'.memory = pgm.memory /\ pgm'.result = pgm.result
    BY <2>1, EepromFacts DEF Program
  <2>3. DOMAIN pgm.memory # {}
    <3>1. pgm.memory \in [DOMAIN pgm.memory -> Data]
      BY EepromFacts, MapFacts
    <3>2. QED
      BY <1>2, <3>1 DEF NoData
  <2>4. \A a \in DOMAIN pgm.memory : ~(a < 0)
    BY EepromFacts
  <2>5. QED
    BY <2>1, <2>2, <2>3, <2>4, EepromFacts DEF TypeInv, EepromInv
<1>3. QED
  BY <1>1, <1>2

(* Grouping: the bytes before the run that is next are dealt with.         *)
LEMMA GroupStep ==
  ASSUME EepromInv, Group
  PROVE  EepromInv'
<1> DEFINE start == Min(Pending)  addrs == GroupOf(start)  last == Max(addrs)  n == last - start + 1
<1>1. pgm.pc = "group" /\ Pending # {} /\ UNCHANGED <<mem, cycle>>
  BY DEF Group
<1>2. /\ start \in Pending /\ \A a \in Pending : start <= a
      /\ last \in Pending /\ start <= last /\ Page(last) = Page(start)
      /\ start .. last \subseteq Pending
      /\ Bytes(addrs) \in Seq(Data) /\ Len(Bytes(addrs)) = n
      /\ \A i \in 1 .. n : Bytes(addrs)[i] = pgm.memory[start + i - 1]
  BY <1>1, EepromFacts, GroupRun
<1>3. start \in Nat /\ last \in Nat /\ Pending \subseteq DOMAIN pgm.memory
  BY <1>2, EepromFacts DEF Pending
<1>4. IF start >= EEPROM_SIZE \/ last >= EEPROM_SIZE THEN End("write_failed")
      ELSE pgm' = [pgm EXCEPT !.pc = "write", !.at = start, !.data = Bytes(addrs)]
  BY DEF Group
<1> HIDE DEF start, addrs, last
<1>5. CASE start >= EEPROM_SIZE \/ last >= EEPROM_SIZE
  BY <1>1, <1>4, <1>5, Ends DEF Results
<1>6. CASE ~(start >= EEPROM_SIZE \/ last >= EEPROM_SIZE)
  <2>1. pgm' = [pgm EXCEPT !.pc = "write", !.at = start, !.data = Bytes(addrs)]
    BY <1>4, <1>6
  <2>2. /\ pgm' \in Program /\ pgm'.pc = "write" /\ pgm'.at = start /\ pgm'.data = Bytes(addrs)
        /\ pgm'.memory = pgm.memory /\ pgm'.result = pgm.result /\ pgm'.short = pgm.short
    BY <1>2, <1>3, <2>1, EepromFacts DEF Program
  <2>3. Stored' = Stored
    BY <1>1 DEF Stored
  <2>4. ASSUME NEW a \in DOMAIN pgm.memory, a < start PROVE Holds(a)'
    <3>1. a < pgm.at
      <4>1. a \notin Pending
        BY <1>2, <1>3, <2>4, EepromFacts
      <4>2. QED
        BY <4>1, EepromFacts DEF Pending
    <3>2. QED
      BY <1>1, <2>2, <2>3, <3>1 DEF Holds, EepromInv
  <2>5. RunToWrite'
    <3>1. start \in Cells /\ n >= 1 /\ start + n - 1 = last
      BY <1>2, <1>3, <1>6, Sizes DEF Cells
    <3>2. \A i \in 1 .. n : start + i - 1 \in DOMAIN pgm.memory
      <4>1. \A i \in 1 .. n : start + i - 1 \in start .. last
        BY <1>2, <1>3
      <4>2. QED
        BY <1>2, <1>3, <4>1
    <3> HIDE DEF n
    <3>3. QED
      BY <1>2, <2>2, <3>1, <3>2 DEF RunToWrite
  <2>6. QED
    BY <1>1, <2>2, <2>4, <2>5, EepromFacts DEF TypeInv, EepromInv
<1>7. QED
  BY <1>5, <1>6

LEMMA WriteCompleteStep ==
  ASSUME EepromInv, WriteComplete
  PROVE  EepromInv'
<1>1. /\ pgm.pc = "group" /\ Pending = {} /\ UNCHANGED <<mem, cycle>>
      /\ pgm' = [pgm EXCEPT !.pc = "verify", !.at = 0]
  BY DEF WriteComplete
<1>2. /\ pgm' \in Program /\ pgm'.pc = "verify" /\ pgm'.at = 0
      /\ pgm'.memory = pgm.memory /\ pgm'.result = pgm.result /\ pgm'.short = pgm.short
  BY <1>1, EepromFacts DEF Program
<1>3. Stored' = Stored
  BY <1>1 DEF Stored
<1>4. ASSUME NEW a \in DOMAIN pgm.memory PROVE Holds(a)' /\ ~(a < 0)
  <2>1. a < pgm.at /\ a \in Nat
    BY <1>1, EepromFacts DEF Pending
  <2>2. QED
    BY <1>1, <1>2, <1>3, <2>1 DEF Holds, EepromInv
<1>5. Verifying'
  BY <1>2, <1>4 DEF Verifying, ReadBack
<1>6. QED
  BY <1>1, <1>2, <1>5, EepromFacts DEF TypeInv, EepromInv

(* A page write inside a page goes where it should, and nowhere else.      *)
LEMMA LatchedRun ==
  ASSUME NEW start \in Nat, NEW data \in Seq(Data), Len(data) >= 1,
         (start % PAGE_SIZE) + Len(data) - 1 < PAGE_SIZE
  PROVE  Latched(start, data) = [a \in start .. start + Len(data) - 1 |-> data[a - start + 1]]
<1> DEFINE n == Len(data)
           cell(i) == Page(start) * PAGE_SIZE + ((start + i - 1) % PAGE_SIZE)
<1>1. n \in Nat /\ n >= 1 /\ DOMAIN data = 1 .. n
  BY LenProperties
<1>2. ASSUME NEW i \in 1 .. n PROVE cell(i) = start + i - 1
  <2> DEFINE k == i - 1  m == Page(start) * PAGE_SIZE  r == start % PAGE_SIZE
  <2>1. k \in Nat /\ start + i - 1 = start + k /\ r \in 0 .. PAGE_SIZE - 1
    BY <1>1, <1>2, PageOf
  <2>2. r + k < PAGE_SIZE
    BY <1>1, <1>2, <2>1, Sizes
  <2>3. (start + k) % PAGE_SIZE = r + k
    BY <2>1, <2>2, InPage
  <2>4. start = m + r /\ m \in Int
    <3>1. Page(start) \in Int /\ start = PAGE_SIZE * Page(start) + r
      BY PageOf
    <3>2. PAGE_SIZE * Page(start) = m /\ m \in Int
      BY <3>1, Sizes
    <3>3. QED
      BY <3>1, <3>2
  <2>5. cell(i) = m + ((start + k) % PAGE_SIZE)
    BY <2>1
  <2> HIDE DEF m, r
  <2>6. QED
    BY <2>1, <2>3, <2>4, <2>5, Sizes
<1> HIDE DEF cell
<1>3. {cell(i) : i \in DOMAIN data} = start .. start + n - 1
  <2>1. {cell(i) : i \in DOMAIN data} \subseteq start .. start + n - 1
    BY <1>1, <1>2
  <2>2. ASSUME NEW a \in start .. start + n - 1 PROVE a \in {cell(i) : i \in DOMAIN data}
    <3>1. a - start + 1 \in 1 .. n
      BY <1>1
    <3>2. cell(a - start + 1) = a
      BY <1>2, <3>1
    <3>3. QED
      BY <1>1, <3>1, <3>2
  <2>3. QED
    BY <2>1, <2>2
<1>4. ASSUME NEW a \in start .. start + n - 1
      PROVE  Max({i \in DOMAIN data : cell(i) = a}) = a - start + 1
  <2>1. {i \in DOMAIN data : cell(i) = a} = {a - start + 1, a - start + 1}
    <3>1. a - start + 1 \in 1 .. n
      BY <1>1
    <3>2. \A i \in 1 .. n : cell(i) = a <=> i = a - start + 1
      BY <1>1, <1>2
    <3>3. QED
      BY <1>1, <3>1, <3>2
  <2>2. a - start + 1 \in Int
    BY <1>1
  <2>3. QED
    BY <2>1, <2>2, OfTwo
<1>5. Latched(start, data) = [a \in {cell(i) : i \in DOMAIN data} |-> data[Max({i \in DOMAIN data : cell(i) = a})]]
  BY DEF Latched, cell
<1>6. QED
  BY <1>3, <1>4, <1>5

(* What is sent is a whole run: it leaves nothing for a second transfer.   *)
(* Each byte that is taken goes where it belongs.                          *)
LEMMA WholeRun ==
  ASSUME EepromInv, pgm.pc = "write"
  PROVE  LET n == Len(pgm.data) IN
         /\ ChunkLen(pgm.at, n) = n /\ n \in Nat /\ n >= 1
         /\ \A k \in 1 .. n : Latched(pgm.at, SubSeq(pgm.data, 1, k))
                                = [a \in pgm.at .. pgm.at + k - 1 |-> pgm.memory[a]]
         /\ pgm.at .. pgm.at + n - 1 \subseteq DOMAIN pgm.memory \cap Cells
<1> DEFINE n == Len(pgm.data)  at == pgm.at
<1>1. /\ n \in Nat /\ n >= 1 /\ at \in Cells /\ at \in Nat /\ Page(at + n - 1) = Page(at)
      /\ \A i \in 1 .. n : at + i - 1 \in DOMAIN pgm.memory /\ pgm.data[i] = pgm.memory[at + i - 1]
  BY EepromFacts, LenProperties DEF EepromInv, RunToWrite
<1>2. n - 1 \in Nat /\ at + (n - 1) = at + n - 1
  BY <1>1
<1>3. (at % PAGE_SIZE) + (n - 1) < PAGE_SIZE /\ at % PAGE_SIZE \in Nat
  <2> DEFINE k == n - 1
  <2>1. k \in Nat /\ Page(at + k) = Page(at)
    BY <1>1, <1>2
  <2> HIDE DEF k
  <2>2. (at % PAGE_SIZE) + k < PAGE_SIZE
    BY <1>1, <2>1, SamePage
  <2> HIDE DEF at, n
  <2>3. at % PAGE_SIZE \in 0 .. PAGE_SIZE - 1
    BY <1>1, PageOf
  <2>4. at % PAGE_SIZE \in Nat
    BY <2>3
  <2>5. QED
    BY <2>2, <2>4 DEF k
<1>4. ChunkLen(at, n) = n
  <2>1. n \in Int /\ PAGE_SIZE - (at % PAGE_SIZE) \in Int /\ n <= PAGE_SIZE - (at % PAGE_SIZE)
    BY <1>1, <1>3, Sizes
  <2>2. QED
    BY <2>1, OfTwo DEF ChunkLen
<1>5. ASSUME NEW a \in at .. at + n - 1
      PROVE  a \in DOMAIN pgm.memory /\ a \in Cells /\ pgm.data[a - at + 1] = pgm.memory[a]
  <2>1. a - at + 1 \in 1 .. n /\ at + (a - at + 1) - 1 = a
    BY <1>1, <1>5
  <2>2. at + n - 1 \in Cells
    BY <1>1, <1>2, PageEnd
  <2>3. a \in Cells
    BY <1>1, <1>5, <2>2, Sizes DEF Cells
  <2>4. QED
    BY <1>1, <2>1, <2>3
<1>6. ASSUME NEW k \in 1 .. n
      PROVE  Latched(at, SubSeq(pgm.data, 1, k)) = [a \in at .. at + k - 1 |-> pgm.memory[a]]
  <2> DEFINE p == SubSeq(pgm.data, 1, k)
  <2>1. p \in Seq(Data) /\ Len(p) = k /\ \A i \in 1 .. k : p[i] = pgm.data[i]
    BY <1>1, EepromFacts
  <2> HIDE DEF p
  <2>2. k >= 1 /\ k \in Nat /\ (at % PAGE_SIZE) + k - 1 < PAGE_SIZE
    <3> DEFINE r == at % PAGE_SIZE
    <3>1. k \in Nat /\ k >= 1 /\ k <= n /\ r \in Nat /\ r + (n - 1) < PAGE_SIZE
      BY <1>1, <1>3
    <3> HIDE DEF r, n
    <3>2. r + k - 1 < PAGE_SIZE
      BY <1>1, <3>1, Sizes
    <3>3. QED
      BY <3>1, <3>2 DEF r
  <2>3. Latched(at, p) = [a \in at .. at + k - 1 |-> p[a - at + 1]]
    BY <1>1, <2>1, <2>2, LatchedRun
  <2>4. ASSUME NEW a \in at .. at + k - 1 PROVE p[a - at + 1] = pgm.memory[a]
    <3>1. a \in at .. at + n - 1 /\ a - at + 1 \in 1 .. k
      BY <1>1, <2>2
    <3>2. QED
      BY <1>5, <2>1, <3>1
  <2>5. QED
    BY <2>3, <2>4 DEF p
<1>7. QED
  BY <1>1, <1>4, <1>5, <1>6

(* A transfer of which k bytes are taken, whatever becomes of the program: *)
(* they are in the write cycle, and no other cell is.                      *)
LEMMA TakenBytes ==
  ASSUME EepromInv, pgm.pc = "write", NEW k \in 0 .. Len(pgm.data), k > 0 => ~Busy, mem' = mem,
         cycle' = IF k = 0 THEN cycle ELSE Latched(pgm.at, SubSeq(pgm.data, 1, k))
  PROVE  LET taken == pgm.at .. pgm.at + k - 1 IN
         /\ cycle' \in Maps(Cells) /\ taken \subseteq DOMAIN pgm.memory \cap Cells
         /\ \A a \in taken : Stored'[a] = pgm.memory[a]
         /\ \A a \in Cells \ taken : Stored'[a] = Stored[a]
<1> DEFINE n == Len(pgm.data)  at == pgm.at  taken == at .. at + k - 1
<1>1. /\ n \in Nat /\ n >= 1 /\ at \in Nat
      /\ \A i \in 1 .. n : Latched(at, SubSeq(pgm.data, 1, i)) = [a \in at .. at + i - 1 |-> pgm.memory[a]]
      /\ at .. at + n - 1 \subseteq DOMAIN pgm.memory \cap Cells
  BY WholeRun, EepromFacts
<1>2. taken \subseteq DOMAIN pgm.memory \cap Cells
  BY <1>1
<1>3. CASE k = 0
  <2>1. taken = {} /\ cycle' = cycle
    BY <1>1, <1>3
  <2>2. Stored' = Stored
    BY <2>1 DEF Stored
  <2>3. QED
    BY <1>2, <2>1, <2>2, EepromFacts
<1>4. CASE k # 0
  <2>1. k \in 1 .. n /\ ~Busy
    BY <1>1, <1>4
  <2>2. cycle' = [a \in taken |-> pgm.memory[a]]
    BY <1>1, <1>4, <2>1
  <2> HIDE DEF taken
  <2>3. cycle' \in Maps(Cells) /\ DOMAIN cycle' = taken
    <3>1. \A a \in DOMAIN pgm.memory : pgm.memory[a] \in Data
      BY EepromFacts, MapFacts
    <3>2. cycle' \in [taken -> Data]
      BY <1>2, <2>2, <3>1
    <3>3. QED
      BY <1>2, <3>2, MapFacts
  <2>4. Stored' = [a \in Cells |-> IF a \in taken THEN pgm.memory[a] ELSE mem[a]]
    BY <2>2, <2>3 DEF Stored
  <2>5. Stored = mem
    BY <2>1, EepromFacts
  <2>6. QED
    BY <1>2, <2>3, <2>4, <2>5 DEF taken
<1>5. QED
  BY <1>3, <1>4

LEMMA WriteStep ==
  ASSUME EepromInv, WriteChunk
  PROVE  /\ EepromInv'
         /\ \A a \in Cells : Stored'[a] # Stored[a] => a \in DOMAIN pgm.memory
<1> DEFINE n == Len(pgm.data)  at == pgm.at
<1>1. pgm.pc = "write" /\ mem' = mem
  BY DEF WriteChunk
<1>2. /\ ChunkLen(at, n) = n /\ n \in Nat /\ n >= 1 /\ at \in Nat
      /\ at .. at + n - 1 \subseteq DOMAIN pgm.memory \cap Cells
  BY <1>1, WholeRun, EepromFacts
<1>3. PICK k \in 0 .. n :
        /\ k > 0 => ~Busy
        /\ cycle' = IF k = 0 THEN cycle ELSE Latched(at, SubSeq(pgm.data, 1, k))
        /\ \/ End("write_failed")
           \/ /\ ~Busy
              /\ pgm' = [pgm EXCEPT !.pc = "nap", !.at = at + n, !.data = SubSeq(pgm.data, n + 1, n),
                                    !.short = pgm.short \cup (at + k .. at + n - 1)]
  BY <1>2 DEF WriteChunk
<1> DEFINE taken == at .. at + k - 1  lost == at + k .. at + n - 1
<1>4. /\ cycle' \in Maps(Cells) /\ taken \subseteq DOMAIN pgm.memory \cap Cells
      /\ \A a \in taken : Stored'[a] = pgm.memory[a]
      /\ \A a \in Cells \ taken : Stored'[a] = Stored[a]
  BY <1>1, <1>3, TakenBytes
<1>5. \A a \in Cells : Stored'[a] # Stored[a] => a \in DOMAIN pgm.memory
  BY <1>4
<1>6. CASE End("write_failed")
  <2>1. pgm' \in Program /\ pgm'.pc = "idle" /\ pgm'.result = "write_failed"
    BY <1>6, EepromFacts, EndTypes DEF Results
  <2>2. EepromInv'
    BY <1>1, <1>4, <2>1, EepromFacts DEF TypeInv, EepromInv
  <2>3. QED
    BY <1>5, <2>2
<1>7. CASE pgm' = [pgm EXCEPT !.pc = "nap", !.at = at + n, !.data = SubSeq(pgm.data, n + 1, n),
                              !.short = pgm.short \cup lost]
  <2>1. SubSeq(pgm.data, n + 1, n) = <<>>
    BY <1>2, EepromFacts, SubSeqEmpty
  <2>2. lost \subseteq Cells /\ \A a \in Nat : a < at + n => a < at \/ a \in taken \/ a \in lost
    BY <1>2
  <2> HIDE DEF lost
  <2>3. /\ pgm' \in Program /\ pgm'.pc = "nap" /\ pgm'.at = at + n /\ pgm'.data = <<>>
        /\ pgm'.memory = pgm.memory /\ pgm'.result = pgm.result /\ pgm'.short = pgm.short \cup lost
    <3>1. <<>> \in Seq(Data) /\ at + n \in Nat /\ pgm.short \cup lost \in SUBSET Cells
      BY <1>2, <2>2, EepromFacts, EmptySeq
    <3>2. pgm' = [pgm EXCEPT !.pc = "nap", !.at = at + n, !.data = <<>>, !.short = pgm.short \cup lost]
      BY <1>7, <2>1
    <3>3. QED
      BY <3>1, <3>2, EepromFacts DEF Program
  <2> HIDE DEF taken
  <2>4. ASSUME NEW a \in DOMAIN pgm.memory, a < at + n PROVE Holds(a)'
    <3>1. CASE a \in taken
      BY <1>4, <2>3, <3>1 DEF Holds
    <3>2. CASE a \in lost
      BY <2>2, <2>3, <3>2 DEF Holds
    <3>3. CASE a \notin taken /\ a \notin lost
      <4>1. a < at
        BY <2>2, <2>4, <3>3, EepromFacts
      <4>2. Holds(a)
        BY <1>1, <4>1 DEF EepromInv
      <4>3. QED
        BY <1>4, <2>3, <3>3, <4>2 DEF Holds
    <3>4. QED
      BY <3>1, <3>2, <3>3
  <2>5. DOMAIN pgm.memory # {} /\ pgm.result # "verified" /\ pgm.result # "value_error"
    BY <1>1 DEF EepromInv
  <2>6. TypeInv'
    BY <1>1, <1>4, <2>3, EepromFacts DEF TypeInv
  <2>7. EepromInv'
    BY <2>3, <2>4, <2>5, <2>6 DEF EepromInv
  <2>8. QED
    BY <1>5, <2>7
<1>8. QED
  BY <1>3, <1>6, <1>7

LEMMA NapStep ==
  ASSUME EepromInv, Nap
  PROVE  EepromInv'
<1>1. /\ pgm.pc = "nap" /\ UNCHANGED <<mem, cycle>> /\ pgm.data = <<>>
      /\ pgm' = [pgm EXCEPT !.pc = "group"]
  BY DEF Nap, Goto, EepromInv
<1>2. /\ pgm' \in Program /\ pgm'.pc = "group" /\ pgm'.at = pgm.at
      /\ pgm'.memory = pgm.memory /\ pgm'.result = pgm.result /\ pgm'.short = pgm.short
  BY <1>1, EepromFacts DEF Program
<1>3. Stored' = Stored
  BY <1>1 DEF Stored
<1>4. \A a \in DOMAIN pgm.memory : a < pgm.at => Holds(a)'
  BY <1>1, <1>2, <1>3 DEF EepromInv, Holds
<1>5. QED
  BY <1>1, <1>2, <1>4, EepromFacts DEF TypeInv, EepromInv

(* Reading back: what agrees is stored, but for an address that was not    *)
(* acknowledged, and nothing changes any more.                             *)
LEMMA VerifyStep ==
  ASSUME EepromInv, VerifyByte
  PROVE  EepromInv'
<1> DEFINE a == Min(Pending)
<1>1. pgm.pc = "verify" /\ Pending # {} /\ UNCHANGED <<mem, cycle>> /\ Verifying
  BY DEF VerifyByte, EepromInv
<1>2. a \in Pending /\ \A b \in Pending : a <= b
  <2>1. Pending \in SUBSET Nat
    BY EepromFacts DEF Pending
  <2>2. QED
    BY <1>1, <2>1, HasMin
<1>3. a \in DOMAIN pgm.memory /\ a \in Nat /\ a \in Cells /\ a < EEPROM_SIZE
  <2>1. a \in DOMAIN pgm.memory /\ Holds(a)
    BY <1>1, <1>2 DEF Pending, Verifying
  <2>2. QED
    BY <2>1, EepromFacts, Sizes DEF Holds, Cells
<1>4. \/ End("bus_error")
      \/ ~Busy /\ \E c \in Cells :
            IF mem[c] # pgm.memory[a] THEN End("mismatch")
            ELSE pgm' = [pgm EXCEPT !.at = a + 1, !.blind = pgm.blind \cup ({a} \ {c})]
  <2>1. ~(a >= EEPROM_SIZE)
    BY <1>3, Sizes
  <2>2. QED
    BY <2>1, Zenon DEF VerifyByte
<1> HIDE DEF a
<1>5. CASE End("bus_error") \/ End("mismatch")
  BY <1>1, <1>5, Ends DEF Results
<1>6. ASSUME ~Busy, NEW c \in Cells, mem[c] = pgm.memory[a],
             pgm' = [pgm EXCEPT !.at = a + 1, !.blind = pgm.blind \cup ({a} \ {c})]
      PROVE  EepromInv'
  <2> DEFINE unread == {a} \ {c}
  <2>1. unread \subseteq Cells /\ (a \in unread \/ mem[a] = pgm.memory[a])
    BY <1>3, <1>6
  <2> HIDE DEF unread
  <2>2. /\ pgm' \in Program /\ pgm'.pc = "verify" /\ pgm'.at = a + 1
        /\ pgm'.memory = pgm.memory /\ pgm'.result = pgm.result /\ pgm'.short = pgm.short
        /\ pgm'.blind = pgm.blind \cup unread
    <3>1. pgm.blind \cup unread \in SUBSET Cells /\ a + 1 \in Nat
      BY <1>3, <2>1, EepromFacts
    <3>2. pgm' = [pgm EXCEPT !.at = a + 1, !.blind = pgm.blind \cup unread]
      BY <1>6 DEF unread
    <3>3. QED
      BY <1>1, <3>1, <3>2, EepromFacts DEF Program
  <2>3. Stored' = Stored /\ (Busy' <=> Busy)
    BY <1>1 DEF Stored, Busy
  <2>4. ASSUME NEW b \in DOMAIN pgm.memory, b < a + 1
        PROVE  b \in pgm.blind \cup unread \/ mem[b] = pgm.memory[b]
    <3>1. b \in Nat
      BY EepromFacts
    <3>2. CASE b < pgm.at
      BY <1>1, <3>2 DEF Verifying, ReadBack
    <3>3. CASE ~(b < pgm.at)
      <4>1. b \in Pending
        BY <3>1, <3>3, EepromFacts DEF Pending
      <4>2. b = a
        BY <1>2, <1>3, <2>4, <3>1, <4>1
      <4>3. QED
        BY <2>1, <4>2
    <3>4. QED
      BY <3>2, <3>3
  <2>5. \A b \in DOMAIN pgm.memory : Holds(b)'
    BY <1>1, <2>2, <2>3 DEF Verifying, Holds
  <2>6. ReadBack' /\ ~Busy'
    BY <1>1, <1>6, <2>2, <2>3, <2>4 DEF ReadBack
  <2>7. Verifying'
    BY <2>2, <2>5, <2>6 DEF Verifying
  <2>8. DOMAIN pgm.memory # {} /\ pgm.result # "verified" /\ pgm.result # "value_error"
    BY <1>1 DEF EepromInv
  <2>9. QED
    BY <1>1, <2>2, <2>7, <2>8, EepromFacts DEF TypeInv, EepromInv
<1>7. QED
  BY <1>4, <1>5, <1>6

LEMMA VerifiedStep ==
  ASSUME EepromInv, Verified
  PROVE  EepromInv'
<1>1. pgm.pc = "verify" /\ Pending = {} /\ End("verified") /\ UNCHANGED <<mem, cycle>>
  BY DEF Verified
<1>2. Verifying /\ DOMAIN pgm.memory # {}
  BY <1>1 DEF EepromInv
<1>3. /\ pgm' \in Program /\ pgm'.pc = "idle" /\ pgm'.result = "verified" /\ pgm'.memory = pgm.memory
      /\ pgm'.blind = pgm.blind
  BY <1>1, EepromFacts, EndTypes DEF Results
<1>4. \A a \in DOMAIN pgm.memory : a \in Nat /\ a < pgm.at
  BY <1>1, EepromFacts DEF Pending
<1>5. ~Busy
  BY <1>2, <1>4, EepromFacts DEF Verifying
<1>6. \A a \in DOMAIN pgm.memory : a \in Cells /\ (a \in pgm.blind \/ mem[a] = pgm.memory[a])
  BY <1>2, <1>4 DEF Verifying, ReadBack, Holds
<1>7. VerifiedMeansStored' /\ ~Busy'
  BY <1>1, <1>3, <1>5, <1>6 DEF VerifiedMeansStored, Busy
<1>8. QED
  BY <1>1, <1>3, <1>7, EepromFacts DEF TypeInv, EepromInv

(* The dump, in lines that stay inside the EEPROM.                         *)
LEMMA DumpStep ==
  ASSUME EepromInv, Dump
  PROVE  EepromInv'
<1>1. PICK start \in Starts, length \in Lengths :
        IF start < 0 \/ start >= EEPROM_SIZE THEN End("none")
        ELSE pgm' = [pgm EXCEPT !.pc = "dump", !.at = start,
               !.stop = Max({start, Min({start + length, EEPROM_SIZE})})]
  BY DEF Dump
<1>2. pgm.pc = "menu" /\ UNCHANGED <<mem, cycle>> /\ start \in Int /\ length \in Int
  BY EepromAssumption DEF Dump
<1>3. CASE start < 0 \/ start >= EEPROM_SIZE
  BY <1>1, <1>2, <1>3, Ends DEF Results
<1>4. CASE ~(start < 0 \/ start >= EEPROM_SIZE)
  <2> DEFINE low == Min({start + length, EEPROM_SIZE})  stop == Max({start, low})
  <2>1. low \in Int /\ low <= EEPROM_SIZE
    <3>1. start + length \in Int /\ EEPROM_SIZE \in Int
      BY <1>2, Sizes
    <3> DEFINE end == start + length
    <3> HIDE DEF end
    <3>2. low = IF end <= EEPROM_SIZE THEN end ELSE EEPROM_SIZE
      BY <3>1, OfTwo DEF end
    <3> HIDE DEF low
    <3>3. end \in Int
      BY <3>1 DEF end
    <3>4. QED
      BY <3>1, <3>2, <3>3
  <2> HIDE DEF low
  <2>2. stop \in Nat /\ stop <= EEPROM_SIZE /\ start \in Nat
    BY <1>2, <1>4, <2>1, OfTwo, Sizes
  <2>3. pgm' = [pgm EXCEPT !.pc = "dump", !.at = start, !.stop = stop]
    BY <1>1, <1>4 DEF low
  <2> HIDE DEF stop
  <2>4. pgm' \in Program /\ pgm'.pc = "dump" /\ pgm'.stop = stop /\ pgm'.result = pgm.result
    BY <2>2, <2>3, EepromFacts DEF Program
  <2>5. QED
    BY <1>2, <2>2, <2>4, EepromFacts DEF TypeInv, EepromInv
<1>5. QED
  BY <1>3, <1>4

LEMMA DumpChunkStep ==
  ASSUME EepromInv, DumpChunk
  PROVE  EepromInv'
<1> DEFINE n == Min({ChunkSize, pgm.stop - pgm.at})
<1>1. /\ pgm.pc = "dump" /\ pgm.at < pgm.stop /\ UNCHANGED <<mem, cycle>>
      /\ pgm.stop <= EEPROM_SIZE /\ pgm.at \in Nat /\ pgm.stop \in Nat
  BY EepromFacts DEF DumpChunk, Reading, EepromInv
<1>2. ~(pgm.at + n > EEPROM_SIZE)
  <2>1. n \in Int /\ n <= pgm.stop - pgm.at
    <3> DEFINE left == pgm.stop - pgm.at
    <3>1. left \in Int /\ ChunkSize \in Int
      BY <1>1, Sizes
    <3> HIDE DEF left
    <3>2. n = IF ChunkSize <= left THEN ChunkSize ELSE left
      BY <3>1, OfTwo DEF left
    <3> HIDE DEF n
    <3>3. n \in Int /\ n <= left
      BY <3>1, <3>2
    <3>4. QED
      BY <3>3 DEF left
  <2> HIDE DEF n
  <2>2. QED
    BY <1>1, <2>1, Sizes
<1>3. \/ End("bus_error")
      \/ pgm' = [pgm EXCEPT !.at = pgm.at + ChunkSize]
  <2>1. ~(pgm.at >= EEPROM_SIZE)
    BY <1>1, Sizes
  <2>2. ~OutOfRange(n)
    BY <1>2, <2>1, Zenon DEF OutOfRange
  <2>3. Reading(n)
    BY Zenon DEF DumpChunk
  <2> HIDE DEF n
  <2>4. QED
    BY <2>2, <2>3 DEF Reading
<1>4. CASE End("bus_error")
  BY <1>1, <1>4, Ends DEF Results
<1>5. CASE pgm' = [pgm EXCEPT !.at = pgm.at + ChunkSize]
  <2>1. pgm.at + ChunkSize \in Nat
    BY <1>1, Sizes
  <2>2. pgm' \in Program /\ pgm'.pc = "dump" /\ pgm'.stop = pgm.stop /\ pgm'.result = pgm.result
    BY <1>1, <1>5, <2>1, EepromFacts DEF Program
  <2>3. QED
    BY <1>1, <2>2, EepromFacts DEF TypeInv, EepromInv
<1>6. QED
  BY <1>3, <1>4, <1>5

(* The end of a write cycle: what was about to be stored is.               *)
LEMMA CycleEndStep ==
  ASSUME EepromInv, WriteCycleEnds
  PROVE  EepromInv' /\ Stored' = Stored
<1>1. Busy /\ mem' = Stored /\ cycle' = NoData /\ pgm' = pgm
  BY DEF WriteCycleEnds
<1>2. TypeInv'
  BY <1>1, EepromFacts, NoDataMap DEF TypeInv
<1>3. Stored' = Stored
  <2>1. Stored' = [a \in Cells |-> mem'[a]]
    BY <1>1, NoDataMap DEF Stored
  <2>2. QED
    BY <1>1, <2>1, EepromFacts
<1>4. \A a : Holds(a)' <=> Holds(a)
  BY <1>1, <1>3 DEF Holds
<1>5. ASSUME pgm.pc = "verify" PROVE Verifying'
  <2>1. Verifying /\ ~(pgm.at > 0)
    BY <1>1, <1>5 DEF EepromInv, Verifying
  <2>2. \A a \in DOMAIN pgm.memory : ~(a < pgm.at)
    BY <2>1, EepromFacts
  <2>3. QED
    BY <1>1, <1>4, <2>1, <2>2 DEF Verifying, ReadBack
<1>6. RunToWrite' <=> RunToWrite
  BY <1>1 DEF RunToWrite
<1>7. pgm.result # "verified"
  BY <1>1 DEF EepromInv
<1>8. EepromInv'
  BY <1>1, <1>2, <1>4, <1>5, <1>6, <1>7 DEF EepromInv
<1>9. QED
  BY <1>3, <1>8

(* Loss of power: the program is gone, and with it all that it knew.       *)
LEMMA PowerStep ==
  ASSUME EepromInv, PowerLoss
  PROVE  /\ EepromInv'
         /\ \A a \in Cells : Stored'[a] # Stored[a] => a \in DOMAIN cycle
<1>1. PICK new \in SUBSET DOMAIN cycle, erased \in SUBSET DOMAIN cycle :
        mem' = [a \in Cells |-> IF a \in new THEN cycle[a]
                                ELSE IF a \in erased THEN Erased ELSE mem[a]]
  BY DEF PowerLoss
<1>2. cycle' = NoData /\ pgm' = Ended("none")
  BY DEF PowerLoss
<1>3. cycle \in [DOMAIN cycle -> Data] /\ Erased \in Data
  BY EepromFacts, MapFacts, Sizes DEF Erased, Data
<1>4. mem' \in [Cells -> Data]
  BY <1>1, <1>3, EepromFacts
<1>5. pgm' \in Program /\ pgm'.pc = "idle" /\ pgm'.result = "none"
  BY <1>2, EndedTypes DEF Ended, Results
<1>6. EepromInv'
  BY <1>2, <1>4, <1>5, NoDataMap DEF TypeInv, EepromInv
<1>7. Stored' = [a \in Cells |-> mem'[a]]
  BY <1>2, NoDataMap DEF Stored
<1>8. \A a \in Cells : a \notin DOMAIN cycle => Stored'[a] = Stored[a]
  BY <1>1, <1>7 DEF Stored
<1>9. QED
  BY <1>6, <1>8

LEMMA EepromStep ==
  ASSUME EepromInv, [Next]_vars
  PROVE  /\ EepromInv'
         /\ \A a \in Cells : Stored'[a] # Stored[a] => a \in DOMAIN pgm.memory \/ a \in DOMAIN cycle
<1>1. ASSUME mem' = mem, cycle' = cycle PROVE Stored' = Stored
  BY <1>1 DEF Stored
<1>2. CASE Scan \/ (\E f \in Files : Load(f)) \/ Dump
  BY <1>1, <1>2, ScanStep, LoadStep, DumpStep, EepromAssumption DEF Scan, Load, Dump
<1>3. CASE NotOpened \/ Leave \/ Dumped
  <2>1. mem' = mem /\ cycle' = cycle /\ \E r \in {"not_opened", "none", "dumped"} : End(r)
    BY <1>3 DEF NotOpened, Leave, Dumped
  <2>2. EepromInv'
    BY <2>1, Ends DEF Results
  <2>3. QED
    BY <1>1, <2>1, <2>2
<1>4. CASE ParseLine \/ Parsed \/ Group \/ WriteComplete
  BY <1>1, <1>4, ParseStep, ParsedStep, GroupStep, WriteCompleteStep
  DEF ParseLine, Parsed, Group, WriteComplete
<1>5. CASE WriteChunk
  BY <1>5, WriteStep
<1>6. CASE Nap \/ VerifyByte \/ Verified \/ DumpChunk
  BY <1>1, <1>6, NapStep, VerifyStep, VerifiedStep, DumpChunkStep DEF Nap, VerifyByte, Verified, DumpChunk, Reading
<1>7. CASE WriteCycleEnds
  BY <1>7, CycleEndStep
<1>8. CASE PowerLoss
  BY <1>8, PowerStep
<1>9. CASE UNCHANGED vars
  <2>1. mem' = mem /\ cycle' = cycle /\ pgm' = pgm
    BY <1>9 DEF vars
  <2>2. Stored' = Stored /\ (\A a : Holds(a)' <=> Holds(a)) /\ (Busy' <=> Busy)
    BY <2>1 DEF Stored, Holds, Busy
  <2>3. (RunToWrite' <=> RunToWrite) /\ (Verifying' <=> Verifying) /\ (VerifiedMeansStored' <=> VerifiedMeansStored)
    BY <2>1, <2>2 DEF RunToWrite, Verifying, ReadBack, VerifiedMeansStored
  <2>4. TypeInv' <=> TypeInv
    BY <2>1 DEF TypeInv
  <2>5. QED
    BY <2>1, <2>2, <2>3, <2>4 DEF EepromInv
<1>10. QED
  BY <1>2, <1>3, <1>4, <1>5, <1>6, <1>7, <1>8, <1>9 DEF Next, Step

(* The inductive invariant of the programmer and its EEPROM: what is       *)
(* stored, about to be stored and read back at each point of the program.  *)
THEOREM EepromInvariant == Spec => []EepromInv
BY EepromInit, EepromStep, PTL DEF Spec

LEMMA EepromTypes ==
  ASSUME EepromInv
  PROVE  TypeOK
<1>1. cycle \in [DOMAIN cycle -> Data] /\ DOMAIN cycle \subseteq Cells
  BY EepromFacts, MapFacts
<1>2. pgm.memory \in [DOMAIN pgm.memory -> Data] /\ DOMAIN pgm.memory \subseteq Nat
  BY EepromFacts, MapFacts
<1>3. pgm \in Program /\ mem \in [Cells -> Data]
  BY EepromFacts
<1>4. QED
  BY <1>1, <1>2, <1>3 DEF TypeOK, Program

(* Every variable keeps its type: no address or byte leaves its width.     *)
THEOREM EepromTypeCorrect == Spec => []TypeOK
BY EepromInvariant, EepromTypes, PTL

(* For every HEX file, page size and number of pages, and wherever power   *)
(* was lost or a write cut short before: after "verification successful"   *)
(* every byte parsed is in the EEPROM, and stays there while that is the   *)
(* last result, but for an address not acknowledged when read back.        *)
THEOREM VerifiedStored == Spec => []VerifiedMeansStored
<1>1. EepromInv => VerifiedMeansStored
  BY DEF EepromInv, VerifiedMeansStored
<1>2. QED
  BY <1>1, EepromInvariant, PTL

(* "EEPROM write complete!" over short writes: each byte is stored, about  *)
(* to be, or was not acknowledged, on any page boundaries; nothing is lost *)
(* to a page that wraps or to a chunk passed over.                         *)
THEOREM WriteCompleteLoses == Spec => []LostOnlyIfUnacknowledged
<1>1. EepromInv => LostOnlyIfUnacknowledged
  BY DEF EepromInv, Verifying, Holds, LostOnlyIfUnacknowledged
<1>2. QED
  BY <1>1, EepromInvariant, PTL

(* No transfer changes a cell that no record names: no page write wraps    *)
(* around its page, and a gap between records is not written over.         *)
THEOREM NothingStray == Spec => NoStrayWrite
BY EepromInvariant, EepromStep, PTL DEF Spec, NoStrayWrite

(* For every start and length asked for, no line of the dump reaches past  *)
(* the end of the EEPROM.                                                  *)
THEOREM DumpInRange == Spec => []NoValueError
<1>1. EepromInv => NoValueError
  BY DEF EepromInv, NoValueError
<1>2. QED
  BY <1>1, EepromInvariant, PTL
=============================================================================
