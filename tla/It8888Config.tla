---------------------------- MODULE It8888Config ----------------------------
(***************************************************************************)
(* From the options of IT8888F_ConfigTool.py to the registers of the       *)
(* bridge chip: the tool makes a binary file of its options, the file is   *)
(* turned into Intel HEX lines, AT24C02_Programmer.py writes those to the  *)
(* EEPROM, power may go or a transfer be cut short meanwhile, and at       *)
(* power-on the chip loads its registers from the EEPROM.                  *)
(*                                                                         *)
(* A register is known by its index; its 32-bit value is the sequence of   *)
(* its four bytes, lowest first, which is how struct.pack("<I") writes it. *)
(* (A Wrong... operator is a plausible slip, no part of the model.)        *)
(***************************************************************************)
EXTENDS EepromProgrammer

CONSTANTS
  Fixed,       \* the registers from index 00h to 54h      (11 of them)
  IoSpaces,    \* positively decoded I/O spaces            (6)
  MemSpaces,   \* positively decoded memory spaces         (4)
  Options,     \* the command lines of the tool
  LineLength,  \* data bytes of a line of the HEX file     (16)
  MaxFaults    \* bound: how often power goes or a transfer is cut short

ISA_SPACES_TIMING == \h50
TIMERS_MISC_CTRL == \h54
IoSpace(i) == \h58 + 4 * (i - 1)
MemSpace(i) == \h70 + 4 * (i - 1)
REGISTERS == Fixed \cup {IoSpace(i) : i \in 1 .. IoSpaces} \cup {MemSpace(i) : i \in 1 .. MemSpaces}

(* The whole register map fits the EEPROM (in the code 106 bytes of 256).  *)
ASSUME ConfigAssumption ==
  /\ Byte = 256
  /\ {ISA_SPACES_TIMING, TIMERS_MISC_CTRL} \subseteq Fixed
  /\ Fixed \subseteq 0 .. TIMERS_MISC_CTRL
  /\ IoSpaces \in 0 .. 6 /\ MemSpaces \in 0 .. 4
  /\ 5 * Cardinality(REGISTERS) + 1 <= EEPROM_SIZE
  /\ LineLength \in 1 .. Byte - 1 /\ MaxFaults \in Nat

(* What argparse and int() let through.  A register's value is written in  *)
(* its four bytes or, if it is of more than 32 bits, in more.              *)
Claims == [base : Int, size : Int, speed : STRING]
ASSUME OptionsAssumption ==
  \A o \in Options :
    /\ o.config \in Seq([reg : Int, value : Seq(Data)])
    /\ \A i \in DOMAIN o.config : Len(o.config[i].value) >= 4
    /\ o.flags \subseteq {1, 2}
    /\ o.claim_io \in Seq(Claims) /\ o.claim_memory \in Seq(Claims)
    /\ o.bios_segments \subseteq {"all", "C", "D", "E", "F"}

VARIABLE
  tool  \* the command line last obeyed, what the tool made of it, the file,
        \* and how many faults there were

configVars == <<vars, tool>>

-----------------------------------------------------------------------------
(* Claims: a base, a size and a speed in words; a word outside the tables  *)
(* is an error.                                                            *)

SpeedBits == [subtractive |-> 0, slow |-> 1, medium |-> 2, fast |-> 3]
SizeBits(unit) == [s \in {unit * 2 ^ k : k \in 0 .. 7} |-> CHOOSE k \in 0 .. 7 : s = unit * 2 ^ k]
IoSizeBits == SizeBits(1)    \* bytes
MemSizeBits == SizeBits(16)  \* kilobytes

ValidClaim(c, sizes) == c.size \in DOMAIN sizes /\ c.speed \in DOMAIN SpeedBits

(* Enable, speed and size share the highest byte.                          *)
Control(c, sizes) == 128 + 32 * SpeedBits[c.speed] + sizes[c.size]
ByteOf(n, unit) == (n \div unit) % 256

IoValue(c) == <<ByteOf(c.base, 1), ByteOf(c.base, \h100), 0, Control(c, IoSizeBits)>>
MemValue(c) ==
  <<ByteOf(c.base, \h100), ByteOf(c.base, \h10000), ByteOf(c.base, \h1000000),
    Control(c, MemSizeBits)>>

-----------------------------------------------------------------------------
(* generate_config: a map from registers to values, each option applied to *)
(* what the ones before it made.                                           *)

DEFAULT_CONFIG ==
  [r \in {ISA_SPACES_TIMING, TIMERS_MISC_CTRL} |->
     IF r = ISA_SPACES_TIMING THEN <<3, 0, 0, 0>> ELSE <<0, 0, 0, \h8C>>]

Updated(config, new) ==
  [r \in DOMAIN config \cup DOMAIN new |-> IF r \in DOMAIN new THEN new[r] ELSE config[r]]
SetReg(config, reg, value) == Updated(config, [r \in {reg} |-> value])

(* -c NAME=VALUE, in order: the last value of a register stays.            *)
WithRegisters(config, settings) ==
  LET last(r) == Max({i \in DOMAIN settings : settings[i].reg = r}) IN
  Updated(config, [r \in {settings[i].reg : i \in DOMAIN settings} |-> settings[last(r)].value])

(* Bits of a byte, among the first five, put to one.                       *)
OrAll(b, bits) ==
  LET or(x, bit) == IF bit \in bits /\ (x \div bit) % 2 = 0 THEN x + bit ELSE x IN
  or(or(or(or(or(b, 1), 2), 4), 8), 16)

(* --enable-subtractive and --enable-delayed-tx: bits 0 and 1.             *)
WithFlags(config, flags) ==
  SetReg(config, ISA_SPACES_TIMING, [config[ISA_SPACES_TIMING] EXCEPT ![1] = OrAll(@, flags)])

(* --claim-io and --claim-memory: the first claims, one space each.        *)
Heeded(claims, spaces) == 1 .. Min({Len(claims), spaces})

WithIoClaims(config, claims) ==
  Updated(config, [r \in {IoSpace(i) : i \in Heeded(claims, IoSpaces)} |->
                     IoValue(claims[(r - IoSpace(1)) \div 4 + 1])])
WithMemClaims(config, claims) ==
  Updated(config, [r \in {MemSpace(i) : i \in Heeded(claims, MemSpaces)} |->
                     MemValue(claims[(r - MemSpace(1)) \div 4 + 1])])

(* --bios-segments: chip selects in the highest byte, which also gets the  *)
(* write-protect bit; segment F is a bit of the lowest.  The register is   *)
(* made from its default value.                                            *)
ChipSelects(segments) ==
  (IF "C" \in segments THEN {2, 4} ELSE {}) \cup
  (IF "D" \in segments THEN {8} ELSE {}) \cup (IF "E" \in segments THEN {16} ELSE {})
Segments(names) == IF "all" \in names THEN {"C", "D", "E", "F"} ELSE names

WrongBiosValue(names) ==
  LET s == Segments(names) IN
  <<OrAll(0, IF "F" \in s THEN {8} ELSE {}), 0, 0, OrAll(0, {1} \cup ChipSelects(s))>>
BiosValue(names) ==
  LET s == Segments(names)  v == DEFAULT_CONFIG[ISA_SPACES_TIMING] IN
  [v EXCEPT ![1] = OrAll(@, IF "F" \in s THEN {8} ELSE {}),
            ![4] = OrAll(@, {1} \cup ChipSelects(s))]
WithBios(config, names) ==
  IF names = {} THEN config ELSE SetReg(config, ISA_SPACES_TIMING, BiosValue(names))

generate_config(o) ==
  LET given   == WithFlags(WithRegisters(DEFAULT_CONFIG, o.config), o.flags)
      claimed == WithMemClaims(WithIoClaims(given, o.claim_io), o.claim_memory)
  IN WithBios(claimed, o.bios_segments)

(* What ends the tool before it opens the file: an unknown register, a bad *)
(* claim among those looked at, or (an exception of struct.pack) a value   *)
(* of more than four bytes.                                                *)
Rejected(o) ==
  \/ \E i \in DOMAIN o.config : o.config[i].reg \notin REGISTERS
  \/ \E i \in Heeded(o.claim_io, IoSpaces) : ~ValidClaim(o.claim_io[i], IoSizeBits)
  \/ \E i \in Heeded(o.claim_memory, MemSpaces) : ~ValidClaim(o.claim_memory[i], MemSizeBits)
  \/ LET config == generate_config(o) IN \E r \in DOMAIN config : Len(config[r]) # 4

-----------------------------------------------------------------------------
(* create_binary_data: an index and four bytes for each register, in order *)
(* of index, an end marker, and padding to the size of the EEPROM.         *)

EndMarker == \hAA

WrongGroups(config) ==
  [k \in 1 .. 5 * Cardinality(DOMAIN config) |->
     LET r == Nth(DOMAIN config, (k + 4) \div 5)  j == (k - 1) % 5 IN
     IF j = 0 THEN r ELSE config[r][5 - j]]
Groups(config) ==
  [k \in 1 .. 5 * Cardinality(DOMAIN config) |->
     LET r == Nth(DOMAIN config, (k + 4) \div 5)  j == (k - 1) % 5 IN
     IF j = 0 THEN r ELSE config[r][j]]

Wrong_create_binary_data(config) ==
  LET data == Groups(config) IN
  data \o [i \in 1 .. EEPROM_SIZE - Len(data) |-> \hFF] \o <<EndMarker>>
create_binary_data(config) ==
  LET data == Append(Groups(config), EndMarker) IN
  data \o [i \in 1 .. EEPROM_SIZE - Len(data) |-> \hFF]

(* Intel HEX lines of a binary file, as objcopy and the like make them.    *)
HexFile(file) ==
  LET lines == (Len(file) + LineLength - 1) \div LineLength
      line(i) == SubSeq(file, LineLength * (i - 1) + 1, Min({LineLength * i, Len(file)})) IN
  Append([i \in 1 .. lines |-> Record(0, LineLength * (i - 1), line(i))], Eof)

-----------------------------------------------------------------------------
(* The chip's boot ROM configuration: five-byte groups from address 0 on,  *)
(* up to the end marker or the end of the EEPROM.  The last value counts.  *)

GroupStarts(rom) ==
  {a \in Cells : /\ a % 5 = 0 /\ a + 4 \in Cells
                 /\ \A b \in 0 .. a : b % 5 = 0 => rom[b] # EndMarker}
BootRom(rom) ==
  LET at(r) == Max({a \in GroupStarts(rom) : rom[a] = r}) IN
  [r \in {rom[a] : a \in GroupStarts(rom)} |-> [i \in 1 .. 4 |-> rom[at(r) + i]]]

-----------------------------------------------------------------------------
NoConfig == [r \in {} |-> <<>>]

ConfigInit ==
  /\ Init
  /\ tool = [options |-> {}, config |-> NoConfig, file |-> <<>>, faults |-> 0]

(* main of the tool: the file is opened only once its contents are ready.  *)
Generate(o) ==
  /\ pgm.pc = "idle"
  /\ IF Rejected(o) THEN tool' = tool
     ELSE LET config == generate_config(o) IN
          tool' = [tool EXCEPT !.options = {o}, !.config = config,
                               !.file = create_binary_data(config)]
  /\ UNCHANGED vars

LoadConfig == tool.file # <<>> /\ Load(HexFile(tool.file)) /\ UNCHANGED tool

Fault == tool.faults < MaxFaults /\ tool' = [tool EXCEPT !.faults = @ + 1]
BoundedPowerLoss == PowerLoss /\ Fault

(* A transfer not acknowledged to its end, or that fails halfway.          *)
CutShort ==
  \/ ~(pgm'.short \subseteq pgm.short /\ pgm'.blind \subseteq pgm.blind)
  \/ pgm.pc = "write" /\ pgm'.pc = "idle" /\ cycle' # cycle
Programmer ==
  /\ Scan \/ NotOpened \/ Leave \/ Step \/ WriteCycleEnds
  /\ IF CutShort THEN Fault ELSE UNCHANGED tool

ConfigNext ==
  \/ \E o \in Options : Generate(o)
  \/ LoadConfig \/ Programmer \/ BoundedPowerLoss

ConfigSpec == ConfigInit /\ [][ConfigNext]_configVars

-----------------------------------------------------------------------------
ConfigTypeOK ==
  /\ TypeOK
  /\ tool.options \subseteq Options
  /\ DOMAIN tool.config \subseteq REGISTERS
  /\ tool.file \in {<<>>} \cup [1 .. EEPROM_SIZE -> Data]
  /\ tool.faults \in 0 .. MaxFaults

(* The programmer has written and verified the tool's present file, each   *)
(* byte at an address the EEPROM acknowledged.                             *)
Delivered ==
  /\ tool.file # <<>> /\ pgm.result = "verified" /\ pgm.blind = {}
  /\ pgm.memory = [a \in Cells |-> tool.file[a + 1]]

(* Once "verification successful" was printed for the tool's file, a chip  *)
(* powered on at any later moment loads exactly the configuration the tool *)
(* generated: no byte of an earlier, perhaps half-written, configuration   *)
(* is taken for a group, and no value for the end marker.                  *)
BootsAsGenerated == Delivered => BootRom(mem) = tool.config

(* What a command line asks for shows in the registers the chip loads.     *)
(* A claimed space decodes to the size and speed asked for, and to the     *)
(* base where the register can hold it (16 bits of an I/O base, bits 8 to  *)
(* 31 of a memory base).  A register no other option speaks of has the     *)
(* value given for it.  ISA_SPACES_TIMING, which three options share, is   *)
(* the value given for it, or the default, with the bits of the flags and  *)
(* the segments on and no other changed; but a value given for it beside   *)
(* --bios-segments is lost: the tool then starts from the default, where   *)
(* its comment says "current value or default".                            *)
Decodes(v, c, sizes) == v[4] = 128 + 32 * SpeedBits[c.speed] + sizes[c.size]

IoClaimed(chip, o) ==
  \A i \in Heeded(o.claim_io, IoSpaces) :
    LET v == chip[IoSpace(i)]  c == o.claim_io[i] IN
    /\ Decodes(v, c, IoSizeBits)
    /\ 0 <= c.base /\ c.base < \h10000 => v[1] + \h100 * v[2] = c.base
MemClaimed(chip, o) ==
  \A i \in Heeded(o.claim_memory, MemSpaces) :
    LET v == chip[MemSpace(i)]  c == o.claim_memory[i]  page == c.base \div \h100 IN
    /\ Decodes(v, c, MemSizeBits)
    /\ 0 <= page /\ page < \h1000000 => v[1] + \h100 * v[2] + \h10000 * v[3] = page
GivenKept(chip, o) ==
  \A i \in DOMAIN o.config :
    LET r == o.config[i].reg IN
    \/ \E j \in DOMAIN o.config : j > i /\ o.config[j].reg = r
    \/ r = ISA_SPACES_TIMING
    \/ r \in {IoSpace(j) : j \in Heeded(o.claim_io, IoSpaces)}
    \/ r \in {MemSpace(j) : j \in Heeded(o.claim_memory, MemSpaces)}
    \/ chip[r] = o.config[i].value

Bits == {1, 2, 4, 8, 16, 32, 64, 128}
Bit(b, bit) == (b \div bit) % 2 = 1
TurnedOn(new, old, on) == \A bit \in Bits : Bit(new, bit) <=> Bit(old, bit) \/ bit \in on

TimingBefore(o) ==
  LET given == {i \in DOMAIN o.config : o.config[i].reg = ISA_SPACES_TIMING} IN
  IF given = {} \/ o.bios_segments # {} THEN DEFAULT_CONFIG[ISA_SPACES_TIMING]
  ELSE o.config[Max(given)].value
FastBits(o) == o.flags \cup (IF "F" \in Segments(o.bios_segments) THEN {8} ELSE {})
RomBits(o) == IF o.bios_segments = {} THEN {} ELSE {1} \cup ChipSelects(Segments(o.bios_segments))

TimingShows(chip, o) ==
  LET new == chip[ISA_SPACES_TIMING]  old == TimingBefore(o) IN
  /\ TurnedOn(new[1], old[1], FastBits(o)) /\ TurnedOn(new[4], old[4], RomBits(o))
  /\ new[2] = old[2] /\ new[3] = old[3]

OptionsTakeEffect ==
  Delivered => \A o \in tool.options :
    LET chip == BootRom(mem) IN
    /\ IoClaimed(chip, o) /\ MemClaimed(chip, o)
    /\ GivenKept(chip, o) /\ TimingShows(chip, o)
=============================================================================
