-------------------------- MODULE EepromProgrammer --------------------------
(***************************************************************************)
(* AT24C02_Programmer.py and the EEPROM it programs: a microcontroller     *)
(* reads Intel HEX lines, groups their bytes into page writes, sends them  *)
(* over I2C, reads them back, or dumps the memory.                         *)
(*                                                                         *)
(* Any I2C transfer may raise an exception, and does while the EEPROM is   *)
(* in its internal write cycle; the cycle may outlast the 5 ms the program *)
(* sleeps.  A transfer may also stop at a byte that is not acknowledged:   *)
(* writeto returns the number of acknowledged bytes, and nothing here      *)
(* looks at it.  Power may go at any time: what was being written is then  *)
(* old, new or erased.                                                     *)
(* (A Wrong... operator is a plausible slip, no part of the model.)        *)
(***************************************************************************)
EXTENDS Integers, Sequences, FiniteSetsExt, SequencesExt

CONSTANTS
  Byte,       \* values of a byte             (256)
  PAGE_SIZE,  \* bytes of an EEPROM page      (8)
  Pages,      \* pages of the EEPROM          (32)
  ChunkSize,  \* bytes of one line of a dump  (16)
  Files,      \* the HEX files: sequences of lines, a line a sequence of bytes
  Starts,     \* the start addresses a user asks a dump of
  Lengths     \* the lengths

EEPROM_SIZE == Pages * PAGE_SIZE
Data == 0 .. Byte - 1
Line == Seq(Data)

(* A word address is one byte.                                             *)
ASSUME EepromAssumption ==
  /\ Byte \in Nat /\ PAGE_SIZE \in Nat \ {0} /\ Pages \in Nat \ {0}
  /\ EEPROM_SIZE <= Byte
  /\ ChunkSize \in Nat \ {0}
  /\ \A f \in Files : f \in Seq(Line)
  /\ Starts \subseteq Int /\ Lengths \subseteq Int

VARIABLES
  mem,    \* the cells of the EEPROM
  cycle,  \* the cells its internal write cycle is programming, and to what
  pgm     \* the program: where it is, its locals, what it said last; and, a
          \* history, the addresses whose bytes were not acknowledged when
          \* written (short) and that were not when read back (blind)

vars == <<mem, cycle, pgm>>

Cells == 0 .. EEPROM_SIZE - 1
Erased == Byte - 1
NoData == [a \in {} |-> 0]

Results == {"none", "not_found", "not_opened", "nothing", "write_failed", "mismatch",
            "verified", "dumped", "bus_error", "index_error", "value_error"}

(* What the EEPROM holds once its write cycle is over.                     *)
Stored == [a \in Cells |-> IF a \in DOMAIN cycle THEN cycle[a] ELSE mem[a]]

TypeOK ==
  /\ mem \in [Cells -> Data]
  /\ DOMAIN cycle \subseteq Cells /\ \A a \in DOMAIN cycle : cycle[a] \in Data
  /\ DOMAIN pgm = {"pc", "todo", "memory", "at", "data", "stop", "result", "short", "blind"}
  /\ pgm.pc \in {"idle", "menu", "parse", "group", "write", "nap", "verify", "dump"}
  /\ pgm.todo \in Seq(Line) /\ pgm.data \in Seq(Data)
  /\ DOMAIN pgm.memory \subseteq Nat
  /\ \A a \in DOMAIN pgm.memory : pgm.memory[a] \in Data
  /\ pgm.at \in Nat /\ pgm.stop \in Nat
  /\ pgm.result \in Results
  /\ pgm.short \subseteq Cells /\ pgm.blind \subseteq Cells

(* The program at its start, or after it ended with result r.              *)
Ended(r) == [pc |-> "idle", todo |-> <<>>, memory |-> NoData, at |-> 0,
             data |-> <<>>, stop |-> 0, result |-> r, short |-> {}, blind |-> {}]

Init ==
  /\ mem = [a \in Cells |-> Erased]
  /\ cycle = NoData
  /\ pgm = Ended("none")

-----------------------------------------------------------------------------
(* The EEPROM.  It answers no transfer during its write cycle.             *)

Busy == cycle # NoData
Page(a) == a \div PAGE_SIZE

(* A page write: the address counter wraps inside the page.                *)
Latched(start, data) ==
  LET cell(i) == Page(start) * PAGE_SIZE + ((start + i - 1) % PAGE_SIZE) IN
  [a \in {cell(i) : i \in DOMAIN data} |->
     data[Max({i \in DOMAIN data : cell(i) = a})]]

WriteCycleEnds ==
  /\ Busy
  /\ mem' = Stored
  /\ cycle' = NoData
  /\ UNCHANGED pgm

(* A write cycle cut short leaves each of its cells old, new or erased.    *)
PowerLoss ==
  /\ pgm.pc # "idle" \/ Busy
  /\ \E new, erased \in SUBSET DOMAIN cycle :
       mem' = [a \in Cells |-> IF a \in new THEN cycle[a]
                               ELSE IF a \in erased THEN Erased ELSE mem[a]]
  /\ cycle' = NoData
  /\ pgm' = Ended("none")

-----------------------------------------------------------------------------
(* parse_hex_line.  A line that is not a record (no colon, no hex digits)  *)
(* is refused like one that is too short.                                  *)

Count(d) == d[1]
Address(d) == d[2] * Byte + d[3]
RecordType(d) == d[4]
TooShort(d) == Len(d) < 5

(* Indexing the checksum byte fails: an exception nothing catches.         *)
IndexError(d) == ~TooShort(d) /\ Len(d) < 5 + Count(d)

Total(d) ==
  LET sum[i \in 0 .. Len(d)] == IF i = 0 THEN 0 ELSE sum[i - 1] + d[i] IN sum[Len(d)]
Checksum(d) == (Byte - (Total(d) % Byte)) % Byte

(* The sum runs over all bytes but the last, whatever the count says.      *)
ChecksumError(d) == Checksum(SubSeq(d, 1, Len(d) - 1)) # d[5 + Count(d)]

Accepted(d) == ~TooShort(d) /\ ~IndexError(d) /\ ~ChecksumError(d)
DataRecord(d) == Accepted(d) /\ RecordType(d) = 0
EndOfFile(d) == Accepted(d) /\ RecordType(d) = 1

(* A well-formed line, as the tools that make HEX files write it.          *)
Record(type, address, data) ==
  LET body == <<Len(data), address \div Byte, address % Byte, type>> \o data
  IN Append(body, Checksum(body))
Eof == Record(1, 0, <<>>)

(* A data record's bytes go into memory_data, over what was there.         *)
Put(memory, d) ==
  LET new == Address(d) .. Address(d) + Count(d) - 1 IN
  [a \in DOMAIN memory \cup new |->
     IF a \in new THEN d[5 + a - Address(d)] ELSE memory[a]]

-----------------------------------------------------------------------------
(* main.                                                                   *)

Goto(pc) == pgm' = [pgm EXCEPT !.pc = pc]
End(r) == pgm' = [Ended(r) EXCEPT !.memory = pgm.memory, !.blind = pgm.blind]

(* scan_i2c_devices: the EEPROM answers, unless it is busy or missing.     *)
Scan ==
  /\ pgm.pc = "idle"
  /\ \/ pgm' = Ended("not_found")
     \/ ~Busy /\ pgm' = [Ended("none") EXCEPT !.pc = "menu"]
  /\ UNCHANGED <<mem, cycle>>

(* Choices 1 and 2: lines typed in, or a file that may not open.           *)
NotOpened == pgm.pc = "menu" /\ End("not_opened") /\ UNCHANGED <<mem, cycle>>

Load(f) ==
  /\ pgm.pc = "menu"
  /\ pgm' = [pgm EXCEPT !.pc = "parse", !.todo = f]
  /\ UNCHANGED <<mem, cycle>>

(* process_hex_lines: one line.  A refused line is passed over.            *)
ParseLine ==
  /\ pgm.pc = "parse" /\ pgm.todo # <<>>
  /\ LET d == Head(pgm.todo) IN
     IF IndexError(d) THEN End("index_error")
     ELSE pgm' = [pgm EXCEPT !.todo = IF EndOfFile(d) THEN <<>> ELSE Tail(@),
                             !.memory = IF DataRecord(d) THEN Put(@, d) ELSE @]
  /\ UNCHANGED <<mem, cycle>>

Parsed ==
  /\ pgm.pc = "parse" /\ pgm.todo = <<>>
  /\ IF pgm.memory = NoData THEN End("nothing") ELSE Goto("group")
  /\ UNCHANGED <<mem, cycle>>

-----------------------------------------------------------------------------
(* write_memory_to_eeprom: the bytes in order of address, from pgm.at on,  *)
(* grouped into runs of consecutive addresses within a page.               *)

Pending == {a \in DOMAIN pgm.memory : a >= pgm.at}
WrongGroupOf(start) == {a \in Pending : Page(a) = Page(start)}
GroupOf(start) ==
  {a \in Pending : Page(a) = Page(start) /\ start .. a \subseteq Pending}

(* The bytes of a set of addresses, in order.                              *)
Nth(addrs, i) == CHOOSE a \in addrs : Cardinality({b \in addrs : b < a}) = i - 1
Bytes(addrs) == [i \in 1 .. Cardinality(addrs) |-> pgm.memory[Nth(addrs, i)]]

WrongGroup ==
  /\ pgm.pc = "group" /\ Pending # {}
  /\ LET start == Min(Pending)  addrs == GroupOf(start) IN
     IF start > EEPROM_SIZE \/ Max(addrs) > EEPROM_SIZE
     THEN End("write_failed")
     ELSE pgm' = [pgm EXCEPT !.pc = "write", !.at = start, !.data = Bytes(addrs)]
  /\ UNCHANGED <<mem, cycle>>
(* write_page refuses a group that starts or ends outside the EEPROM.      *)
Group ==
  /\ pgm.pc = "group" /\ Pending # {}
  /\ LET start == Min(Pending)  addrs == GroupOf(start) IN
     IF start >= EEPROM_SIZE \/ Max(addrs) >= EEPROM_SIZE
     THEN End("write_failed")
     ELSE pgm' = [pgm EXCEPT !.pc = "write", !.at = start, !.data = Bytes(addrs)]
  /\ UNCHANGED <<mem, cycle>>

WrongWriteComplete ==
  /\ pgm.pc = "group" /\ (Pending # {} => GroupOf(Min(Pending)) = Pending)
  /\ pgm' = [pgm EXCEPT !.pc = "verify", !.at = 0]
  /\ UNCHANGED <<mem, cycle>>
(* "EEPROM write complete!"                                                *)
WriteComplete ==
  /\ pgm.pc = "group" /\ Pending = {}
  /\ pgm' = [pgm EXCEPT !.pc = "verify", !.at = 0]
  /\ UNCHANGED <<mem, cycle>>

(* write_page: no transfer goes past the end of the page it starts in.     *)
ChunkLen(start, n) == Min({n, PAGE_SIZE - (start % PAGE_SIZE)})

(* The first k bytes are taken, and the transfer raises an exception or    *)
(* returns: write_page goes on as if all of them were.                     *)
WriteChunk ==
  LET n == ChunkLen(pgm.at, Len(pgm.data)) IN
  /\ pgm.pc = "write"
  /\ \E k \in 0 .. n :
       /\ k > 0 => ~Busy
       /\ cycle' = IF k = 0 THEN cycle ELSE Latched(pgm.at, SubSeq(pgm.data, 1, k))
       /\ \/ End("write_failed")
          \/ /\ ~Busy
             /\ pgm' = [pgm EXCEPT !.pc = "nap", !.at = @ + n,
                                   !.data = SubSeq(@, n + 1, Len(@)),
                                   !.short = @ \cup (pgm.at + k .. pgm.at + n - 1)]
  /\ UNCHANGED mem

WrongNap == pgm.pc = "nap" /\ Goto("write") /\ UNCHANGED <<mem, cycle>>
Nap ==
  /\ pgm.pc = "nap"
  /\ Goto(IF pgm.data = <<>> THEN "group" ELSE "write")
  /\ UNCHANGED <<mem, cycle>>

-----------------------------------------------------------------------------
WrongVerifyByte ==
  /\ pgm.pc = "verify" /\ Pending # {}
  /\ pgm' = [pgm EXCEPT !.at = Min(Pending) + 1]
  /\ UNCHANGED <<mem, cycle>>
(* verify_eeprom_data, in order of address.  An address outside the EEPROM *)
(* is skipped; an exception in read_byte is caught by nobody.  A cell b is *)
(* read, another than asked for when the address was not acknowledged: the *)
(* EEPROM goes on from the address it had.                                 *)
VerifyByte ==
  /\ pgm.pc = "verify" /\ Pending # {}
  /\ LET a == Min(Pending) IN
     \/ End("bus_error")
     \/ a >= EEPROM_SIZE /\ pgm' = [pgm EXCEPT !.at = a + 1]
     \/ /\ a < EEPROM_SIZE /\ ~Busy
        /\ \E b \in Cells :
             IF mem[b] # pgm.memory[a] THEN End("mismatch")
             ELSE pgm' = [pgm EXCEPT !.at = a + 1, !.blind = @ \cup ({a} \ {b})]
  /\ UNCHANGED <<mem, cycle>>

Verified ==
  /\ pgm.pc = "verify" /\ Pending = {}
  /\ End("verified")
  /\ UNCHANGED <<mem, cycle>>

-----------------------------------------------------------------------------
(* Choice 3: dump_eeprom_contents, a line of ChunkSize bytes at a time.    *)
Dump ==
  /\ pgm.pc = "menu"
  /\ \E start \in Starts, length \in Lengths :
       IF start < 0 \/ start >= EEPROM_SIZE THEN End("none")
       ELSE pgm' = [pgm EXCEPT !.pc = "dump", !.at = start,
              !.stop = Max({start, Min({start + length, EEPROM_SIZE})})]
  /\ UNCHANGED <<mem, cycle>>

(* read_sequential raises ValueError outside the EEPROM.                   *)
OutOfRange(n) == pgm.at >= EEPROM_SIZE \/ pgm.at + n > EEPROM_SIZE
Reading(n) ==
  /\ IF OutOfRange(n) THEN End("value_error")
     ELSE \/ End("bus_error")
          \/ ~Busy /\ pgm' = [pgm EXCEPT !.at = @ + ChunkSize]
  /\ UNCHANGED <<mem, cycle>>

WrongDumpChunk ==
  pgm.pc = "dump" /\ pgm.at < pgm.stop /\ Reading(ChunkSize)
DumpChunk ==
  pgm.pc = "dump" /\ pgm.at < pgm.stop /\ Reading(Min({ChunkSize, pgm.stop - pgm.at}))

Dumped ==
  /\ pgm.pc = "dump" /\ pgm.at >= pgm.stop
  /\ End("dumped")
  /\ UNCHANGED <<mem, cycle>>

-----------------------------------------------------------------------------
(* Between two runs the user may leave the program at its menu (choice 4). *)
Leave == pgm.pc = "menu" /\ End("none") /\ UNCHANGED <<mem, cycle>>

Step ==
  \/ ParseLine \/ Parsed \/ Group \/ WriteComplete \/ WriteChunk \/ Nap
  \/ VerifyByte \/ Verified \/ DumpChunk \/ Dumped

Next ==
  \/ Scan \/ NotOpened \/ (\E f \in Files : Load(f)) \/ Dump \/ Leave \/ Step
  \/ WriteCycleEnds \/ PowerLoss

Spec == Init /\ [][Next]_vars /\ WF_vars(Step)

-----------------------------------------------------------------------------
(* "EEPROM verification successful!": every byte parsed from the lines is  *)
(* in the EEPROM, whatever was not acknowledged when written, but for an   *)
(* address that was not acknowledged when read back.                       *)
VerifiedMeansStored ==
  pgm.result = "verified" =>
    \A a \in DOMAIN pgm.memory :
       a \in Cells /\ (a \in pgm.blind \/ mem[a] = pgm.memory[a])

(* "EEPROM write complete!" is no evidence: write_page looks at no count   *)
(* of acknowledged bytes.  But nothing else is lost: each byte is in the   *)
(* EEPROM, or in its write cycle, on whatever page boundaries the records  *)
(* fell, or was not acknowledged; and no address is outside.               *)
LostOnlyIfUnacknowledged ==
  pgm.pc = "verify" =>
    \A a \in DOMAIN pgm.memory :
       a \in Cells /\ (a \in pgm.short \/ Stored[a] = pgm.memory[a])

(* No cell changes that no record names: no page write wraps, and a gap    *)
(* between records is not written over.                                    *)
NoStrayWrite ==
  [][\A a \in Cells : Stored'[a] # Stored[a] => a \in DOMAIN pgm.memory \/ a \in DOMAIN cycle]_vars

(* The range checks of read_sequential never fail on what the dump asks.   *)
NoValueError == pgm.result # "value_error"

(* Whatever the user began comes to an end.                                *)
ProgramEnds == pgm.pc = "parse" \/ pgm.pc = "dump" ~> pgm.pc = "idle"
=============================================================================
