# A verification of the PCIe–PCI–ISA bridge software

This directory holds TLA+ modules that model the programs of the repository,
TLC configurations that check them on small instances, and theorems about them
with proofs TLAPS checks. Paths below are relative to the repository; `Ex.c`
is `UEFI DXE Driver/LegacyIoDxeEx/LegacyIoDxeEx.c`.

    tlc -workers 2 -config dma.cfg MCLegacyDma.tla     # one of the runs
    tlapm LegacyDmaProofs.tla                          # one of the proofs

`PROJECT.json` lists every run, every mutant, and for every definition the
lines of source it models. An operator named `Wrong…` is no part of a model:
it is a plausible slip in the definition after it. Put in that definition's
place it makes one property fail, which shows that the property depends on
that piece of code.

## 1. Inventory

The repository builds hardware that puts an ISA bus behind a PCI(e) slot, and
software that makes it usable. The board designs, footprints, data sheets and
ACPI dumps have no behaviour to model. The programs are these.

| Component | State it keeps | Operations | Talks to |
|---|---|---|---|
| **Extended Legacy I/O protocol, DMA** (`Ex.c`, `LegacyIoProtocol.h`) | `DmaChannels[8]`: mode, count, address, active flag | allocate and free a buffer; program, start, poll, stop a channel | the two 8237 controllers, through ports; the pool allocator |
| **Legacy I/O protocol, Read and Write** (`LegacyIoDxe.c`, and a copy in `Ex.c`) | the I/O range | range and width checks, one port access | root bridges, the ISA bus |
| **Enabling I/O forwarding, installing the protocols** (`LegacyIoDxe.c`, `Ex.c`) | the attributes of the root bridges, the handle database | the two entry points | PCI root bridge protocol, boot services |
| **IsaIoForwardingDxe** | the same attributes | its entry point | the same |
| **IsaIoLoader** (`IsaIoLoader.c`) | a pool buffer | load a driver file, load and start the image | IsaIoForwardingDxe |
| **DemoUseDmaProtocol** (`AppIoDma.c`) | a buffer, a poll count | a whole DMA transfer | the DMA protocol |
| **UseIsaIoProtocol** (`OsIoProtocol.c`) | a handle buffer | a read of port 60h, a write to port 80h | the Legacy I/O protocol |
| **AT24C02 programmer** (`AT24C02_Programmer.py`, on a microcontroller) | parsed bytes, the EEPROM | scan, parse HEX, write, verify, dump | the EEPROM over I2C |
| **IT8888F configuration tool** (`IT8888F_ConfigTool.py`) | a register map | configure functions, export files | the files the programmer takes |
| **CHIPSEC checks** (`CHIPSEC/*.py`) | saved registers | probe DMA and LPC registers and restore them | the chipset |
| **ACPI SSDT** (`ACPI SSDT/IT8893_ACPI_SSDT.asl`) | three bridge registers | the functions of `_DSM` (`_INI` is empty) | the operating system, which evaluates it and writes the same registers |

What is hard in them, and what therefore makes them correct:

- **DMA protocol.** A call is up to nine port accesses. None of its functions
  raises the task priority level, so a timer callback may make whole calls
  between any two of them, and the controllers move data all the while.
  Address and count registers are 16 bits wide, written and read a byte at a
  time; which byte is next is decided by one flip-flop per *controller*, shared
  by four channels. Correct means: a channel never runs half programmed, the
  registers agree with the driver's record, a call for one channel leaves the
  others alone, nothing but `LegacyDmaStart` enables a channel and never one
  that was not programmed.
- **Read and Write.** Any client reaches any port of 00h–FFh, those of the DMA
  controllers among them, in accesses of up to four bytes, and no record is
  kept. Correct means: harm is done only to the channels whose ports the access
  covers, and it is over when the channel is programmed again.
- **Forwarding.** Attributes are read and written back in two calls with
  callbacks between them; each of a dozen boot services may fail, for each
  bridge. Correct means: an attribute that was set stays, the reported status
  is the truth, every error path returns what it allocated, and the accesses of a
  client go out once the bridge above the ISA bus was set.
- **DMA demo.** It waits for a device that may never answer, then has to take
  the channel away before it frees the memory under it; and the completion it
  waits for is told by a bit that an earlier transfer may have left set.
- **EEPROM programmer.** Bytes that come in any order are regrouped into page
  writes, against a part whose address counter wraps inside a page, which
  answers nothing while it programs, may stop acknowledging in the middle of a
  transfer, and may lose power. Correct means: "verification successful" is the
  truth, no byte is lost but those the part did not acknowledge, no cell is
  written that no record names, and the program ends.
- **Register probes.** They change registers of a running machine and put back
  what they read; any access may raise, and devices go on meanwhile. Correct
  means: what is left changed is bounded by what raised and by what completed
  between a reading and its writing back.

The hazards, each at its line, with the properties that would catch it going
wrong, are in `PROJECT.json`.

## 2. The modules and the code

| Module | Models |
|---|---|
| `Isa8237` | the 8237 pair and its page registers, which are hardware: the port decoding, masks, modes, flip-flops, terminal-count bits and bus cycles the driver relies on |
| `LegacyDma` | the DMA half of `Ex.c` on top of `Isa8237` |
| `DmaTasks` | the abstract specification: a set of DMA tasks that are committed, enabled, disabled and advanced atomically |
| `LegacyDmaRefinement` | the mapping that shows `LegacyDma` implements `DmaTasks` |
| `LegacyDmaDocs` | what comments and headers say of the DMA calls, where the code does otherwise |
| `RawPortAccess` | a client of Read and Write composed with `LegacyDma` and the controllers |
| `DmaDemo` | the demo client composed with `LegacyDma` and the controllers |
| `IoForwarding` | the three entry points, the loader and the example client on a set of root bridges |
| `EepromProgrammer` | the programmer composed with the EEPROM |
| `It8888Config` | the configuration tool and the register map it builds |
| `LpcDmaProbe` | the CHIPSEC register probes on the controllers and the LPC bridge |
| `AcpiDsm` | the `_DSM` method of the SSDT and the bridge registers it writes |
| `MC…` | instances of these for TLC |
| `Isa8237Proofs` | lemmas about the controllers, what each port access and bus cycle leaves of the registers; the theorems about programs that drive them rest on these |
| `LegacyDmaProofs` | theorems about `LegacyDma` and its refinement |
| `RawPortProofs`, `DmaDemoProofs` | theorems about the two compositions with `LegacyDma`, on top of `LegacyDmaProofs` |
| `LpcDmaProbeProofs` | theorems about `LpcDmaProbe` |
| `EepromProofs`, `ConfigProofs` | theorems about `EepromProgrammer` and, on top of these, about `It8888Config` |
| `IoForwardingProofs` | theorems about `IoForwarding` |

**`Isa8237` and `LegacyDma`.** `ch[c]` are the registers of channel *c*, `ff[k]`
the flip-flop of controller *k*, `DmaChannels` is `This->DmaChannels`, and
`frame[t]` is the call that the caller at task priority *t* is in: its program
counter and live locals. Each port access and each store is an action:
`ProgramDmaChannel` is the checks and computations of `LegacyDmaProgramChannel`
up to the first access, then `ProgMask`, `ProgClear`, `ProgMode`,
`ProgAddrLo`, … `ProgStore` follow line by line (`Ex.c:468-500`). Between any two
of them there may be a `BusCycle` of a controller or, if its priority is higher
(`Runs`), the call of another caller, which then ends before the first goes on:
that is how UEFI runs callbacks. Ports are numbers, looked up in the table the
code has (`AddrPort`, `CountPort`, …) and decoded again by `PortWrite`: a wrong
table entry reaches a wrong register in the model too. `AllocatePool` returns
any free address of `PoolAddrs`, or fails.

**`RawPortAccess`** adds the other two functions of the protocol. `access` is the
call a client is in: `LegacyIoRead` and `LegacyIoWrite` are its checks
(`Ex.c:102-114`), and each `RawCycle` is one byte cycle of the port access: a
32-bit access is four, upwards. The client runs at `ClientTpl`, between any two
steps of a caller of the DMA functions; while it does, bus cycles go on. Nothing
in the driver depends on what it did, so the module also keeps a history
variable, `hit`: the channels an access may have disturbed since their last
programming began. `HarmIsLocal` says that `hit` is all there is: a channel
outside it has every guarantee of the driver. Leaving any part of
`Disturbed` out of `hit` makes the property fail, so it is no wider than it must be.

**`DmaDemo`** runs the demo function against all this: `Locate` and `Open` find the
protocol and allocate the array of handles, `Invoke…` begins a call, `…Back` is what
the demo does with its result, and `AppEnd` frees the array and returns. `Rerun` starts
the application again on the driver and the controllers as its last run left them,
terminal-count bits included. `stale` is a history variable: was that bit set when the
demo asked for the start?

**`IoForwarding`.** `image[d]` is an entry point: where it is, the loop index,
the attributes it read, the bridges it set (a history variable), and whether it
holds the handle buffer. `GetAttributes` and `SetAttributes` are separate
actions because they are separate calls; `Callback` is other firmware turning
on another attribute in between. `Supports` is arbitrary: a bridge may not be
able to forward. The ISA bus is behind one of them, `IsaBridge`: what the others
forward reaches nothing. `LoadImage` gives the loader a copy of the forwarder to start
whether or not the dispatcher started one before.

**`EepromProgrammer`.** `pgm` is the program: what is left to parse, the
`memory_data` dictionary, the position of the write, verify or dump loop, the
last thing it printed. `cycle` is the internal write cycle of the part; it ends
in its own time, `WriteCycleEnds`, before or after the 5 ms the program sleeps,
and any transfer before that is refused. A transfer may also stop halfway: then
`writeto` raises, or returns the number of acknowledged bytes, which the program
throws away; `WriteChunk` writes the bytes that were taken and goes on either way.
Two history variables keep the addresses concerned: `short` those whose byte was not
acknowledged when written, `blind` those whose address was not when read back, so
that another cell was read. `PowerLoss` may come at any point and leaves each cell being
programmed old, new or erased.

**`It8888Config`** extends the programmer with the tool that makes its input.
`tool` holds the command line last obeyed, the register map made of it and the
binary file. The map goes from register indices to the four bytes of a value;
`generate_config` applies the options in the order the code does, so that a later
one overrides an earlier one. `HexFile`, external, turns the file into HEX lines;
the programmer of `EepromProgrammer` writes them; `BootRom`, external too, is
what the chip loads from the EEPROM when it is powered on. `Fault` bounds how often
power is lost or a transfer cut short. `TimingBefore` says what `ISA_SPACES_TIMING`, the
register three options share, is made from: the value given for it, or the default, and
the default in any case where `--bios-segments` is used.

**`LpcDmaProbe`.** A script is data: a sequence of tasks (one per function or loop
turn), each a sequence of accesses, with whether its exceptions are caught and
whether its last access is a `finally`. `OutPort`, `InPort`, `LoadBits`, … execute
one access each on `Isa8237` and the LPC registers `pci`; `Raise` is an access
that raises instead; `Device` is a bus cycle of whatever channel is open. Ports
are the sums the scripts compute, so that `DMA2_BASE + DMA_REG_CLEAR_FLIP_FLOP`
reaches in the model what it reaches in the machine: the address register of
channel 7. Reads that are only logged are left out. `was` keeps, for the properties, what
the LPC registers held at the start, which channels were masked, and which had a
terminal-count bit left by an earlier transfer: the scripts run on a machine that has
been running.

## 3. What the runs check

Passing runs:

| Run | Instance | What it shows |
|---|---|---|
| `dma` | two callers at TPL 4 and 8, channels 1 and 5, on different controllers; bytes of 1 bit, a count of 3, a mode with stray bits | all safety invariants of the protocol and both action properties, over every interleaving of port accesses, callbacks and bus cycles; and the port-level driver implements `DmaTasks`: to an observer of the bus, programming a channel is atomic |
| `raw` | an application with channel 1, buffers allocated and freed, refused calls, auto-initialize; a client of Read and Write at a higher TPL that makes one access, of every width, at ports 3, 8, 12, 80h, FFh and 100h | raw accesses harm only the channels their ports touch; the driver beside them still implements `DmaTasks`, and again from the next programming on |
| `demo` | the demo client, run again and again, five pool addresses, three polls, an old terminal-count bit or none | every run ends, with the channel masked and the buffer and the array of handles freed; the controller moves only bytes it asked for, modulo the page; no completion is lost on it; an old completion may end its polls while the channel runs, but only the first one |
| `forwarding` | two root bridges, the ISA bus behind one, each able to forward or not, all attributes on or off | attributes set stay set, statuses tell the truth, pool is returned; the read and the write of the client both reach the ISA bus once its bridge was set |
| `eeprom` | eight cells in two pages; good, overlapping, overrunning and corrupted files; dumps that begin or end outside; transfers that fail or are cut short | what is reported verified is stored, unless its address was not acknowledged when read back; what is reported written is stored or was not acknowledged; page writes never wrap or write over a gap, the program ends |
| `config` | four registers in 24 cells; two good and three bad command lines; one power loss or transfer cut short | what was verified is what the chip boots with, and what each option asks for shows in it; a value given for `ISA_SPACES_TIMING` is lost exactly when `--bios-segments` is used |
| `probe` | both scripts; channels 2 and 3 with a transfer under way; an old terminal-count bit or none; two accesses raise | every LPC register is put back but for one per access that raised; which channels are left open and masked (below); base registers and pages are never written; when the controller is left disabled |

Runs that must find a violation, each of a sentence a comment, header or
document of the repository says. The code does otherwise:

| Run | The sentence | What the code does |
|---|---|---|
| `dma_shared_flipflop` | "DMA channel programmed successfully" | two callers on one controller: a callback moves the shared byte pointer in the middle of a programming, and the call still returns success with bytes in the wrong registers |
| `doc_wide_address` | "DMA buffer to use" | channels 5–7 take word addresses; the code writes the byte address |
| `doc_stale_done` | "a set bit means the channel is done" | the bit may be left from the transfer before |
| `doc_torn_count` | "Number of bytes remaining in the transfer" | the two bytes of a running counter are read apart |
| `doc_arbiter_bits` | "Bits 7-0 control PCI Arbiter Priority (default 0xAA)" | the field is declared eight bits too high: `_DSM` function 3 stores AAh over bits 15–8, among them the arbiter time-out, the pull-ups and the slew rate |

What the scripts of run `probe` leave of the masks is not what they found.
`lpc_dma_z390_test.py` gives channels 1 and 3 a mode of its own, opens them and ends with
them masked, in use or not; an exception leaves one of them open instead.
`lpc_dma_h81_z390_test.py` masks all four and writes back what it read before: a
channel that completed since is opened past its end, and an exception in between leaves
all four masked. `MasksKept` says that this is all. Channels 1 and 3 lose the mode their
devices gave them; `ProgrammingKept` says that the modes of channels 0 and 2 and everything
else that was programmed stay, and that a mode changes only while its channel is masked.

`dma` and the theorems assume that callers do not share a controller;
`dma_shared_flipflop` shows that the assumption is needed.

Further disagreements, seen while reading the code and not kept as runs:

- `Ex.c:215`, "Allocate an aligned buffer to ensure it crosses no page boundaries":
  `AllocatePool` (:216) aligns to 8 bytes. Of a buffer that crosses a 64K page the
  controller moves the rest from the start of that page
  (`TransfersFollowBuffer` in run `demo` says exactly which bytes).
- `Ex.c:444` cuts a 64-bit address to 32 bits before the 16 MB check, so that a
  buffer above 4 GB that a client describes itself may pass. `AllocateDmaBuffer`
  checks the whole address, which is why the demo is safe from it (run `demo`
  has such a pool address).
- A 16- or 32-bit access covers the ports next to the one named: a 32-bit write at
  the POST port 80h, the example port of `OsIoProtocol.c`, would overwrite the page
  registers of channels 2, 3 and 1. `LegacyIoDxe.c:43` (and `Ex.c:103`), "Check if the port is within our managed range",
  checks the first port only: an access at port FFh leaves the range by up to three ports.
- `_DSM` function 0 answers that functions 0 to 5 are supported; 4 and 5 do nothing.
  The method reads and writes the Device Control register without a lock, beside an
  operating system that writes it too.
- `Ex.c:414` accepts channel 4, the cascade input; programming it takes
  channels 0 to 3 off the bus.
- `Ex.c:535` lets a finished channel be started again; its counter is then
  FFFFh and it runs past its region.
- `Ex.c:432`: an odd count of 1 on a 16-bit channel becomes 0, programs a count
  of FFFFh and succeeds; `LegacyDmaStart` then answers not ready.
- `Ex.c:602`: reading the status clears the terminal-count bits of all four
  channels, so a neighbour's completion is lost; `Ex.c:621` reports a channel
  nobody started, or one already found finished, as active.
- `Ex.c:227` checks only the first byte of a buffer against 16 MB; `Ex.c:414`
  never compares the count with the length of the buffer.
- `AppIoDma.c:158` returns `EFI_SUCCESS` when the transfer did not complete. Its first
  poll may see the terminal-count bit of an earlier transfer (run `doc_stale_done`); it
  then stops a transfer that has hardly begun (`FooledOnceAtMost`).
- `IsaIoForwardingDxe.c:61` returns `EFI_SUCCESS` when no bridge forwards, where
  `Steps.md:20` says "If successful, the `ISA_MOTHERBOARD_IO` attribute will be set
  immediately". The file also reads `PciRootBridgeIo->Attributes` (line 47),
  which the UEFI protocol does not have; it is modelled as written, setting the
  attribute if the bridge supports it.
- `Ex.c:772` calls `EnableIoForwardinG`, a misspelling that does not link; it is
  modelled as the call of `EnableIoForwarding` it stands for.
- The headers of Read and Write say a width of "8, 16, or 32 bits"; the code
  takes 1, 2 or 4.
- The HEX lines `AT24C02_Programmer.md:11` gives to paste carry 17 data bytes
  under a count of 16 and unrelated checksums: each is dropped, and nothing is
  written.
- `lpc_dma_h81_z390_test.py:106` (and :616, :717) reads port 8 to save the command
  register; that is the status register, and "Restore original command" (:644)
  writes it into the command register. The "non-destructive read" (:594) clears
  the terminal-count bits.
- `lpc_dma_h81_z390_test.py:850`, "Return everything to original state", writes
  back mask bits read earlier (:718): a channel that completed in between is
  opened again. After an exception nothing is written back (:880).
- `lpc_dma_z390_test.py:10`, "Register offsets for each DMA controller": those of
  the second controller are twice as far apart. The residue checks of channels 5
  to 7 write channel 7's address register and read channel 6's.
- `AT24C02_Programmer.py` drops a corrupted HEX line with a message and reports
  the rest "successful"; extended-address records are ignored, so data beyond
  64K would land at its low address. A line shorter than its count ends the program
  with an `IndexError` (line 124).
- `AT24C02_Programmer.py:62`, 76 and 84 ignore the number of acknowledged bytes that
  `writeto` returns, so that "EEPROM write complete!" (:229) may be announced of bytes
  the EEPROM never took; so does line 41 when the bytes are read back.
- `IT8888F_ConfigTool.py:261` says "Start with current value or default"; the
  code starts from the default, so that `--bios-segments` drops a value given
  with `-c ISA_SPACES_TIMING=…`. Bases wider than the register are cut silently
  (lines 337, 364).

### Bounds, and why they are enough

- `Byte` is the number of values of a byte, 2 or 4 in the runs, 256 in the code
  (and any number from 2 on in the proofs). A register is two bytes, an address
  three. With 1-bit bytes all carries and borrows between bytes happen within a
  transfer of two units. Port numbers, channels and command bytes have their
  real values.
- Two callers suffice for a call interrupted by another; a third would interrupt
  the second in the same places. The proofs have any number.
- Pool addresses include one inside a page, one across a page end, one at the
  end of the bus's address space, one beyond it and one above 32 bits.
- `raw`: port 3 is the count register of channel 1; 8, with two or four bytes,
  the status, mask and mode registers; 12, with four, the byte pointer, master clear
  and all mask registers; 80h, with four, page registers; FFh the end of the
  range and 100h beyond it. `Commands` has one byte, 1, which opens channel 1 in the mask
  register, takes it out of its mode in the mode register and opens all but
  channel 0 in the all-mask register. `MaxAccesses` is 1, which falls between any
  two steps of the application. Two accesses, of one byte at ports 3, 8 and 12 and
  with fewer arguments, were checked once (660,764 states) and show nothing else.
- `DemoPolls` is 3, for 10: the loop ends early, on the last poll, and without
  completion.
- Two root bridges, for any number: one able and one not, in both orders; the ISA bus is
  behind the second, so that the first may forward to nowhere.
- `DoneAtStart` are the channels whose terminal-count bit may be set at the start, any
  subset of it: those the callers of a run use, and channel 2, on whose bit the
  command register of run `probe` depends.
- The EEPROM has 2 pages of 4, with records that cross a page, overlap, leave
  gaps and run over the end; in `config` 6 pages of 4 for a map of four
  registers, one I/O and one memory space. Its padding is part of the file, so
  that 24 cells stand for 256. `MaxFaults` is 1: one power loss leaves an EEPROM in
  an arbitrary mixture, one transfer cut short leaves bytes unwritten or read from
  elsewhere, and a second would only do so again. Run `eeprom` has no such bound.
- In `probe` a channel in use has two units to go and completes at any point or
  not at all; the LPC registers are one mixture of present, absent and
  read-only, and all absent; `MaxFaults` 2 lets an exception meet the `finally`
  of another. `MasksKept` needs `MaskReadable`: a controller whose port 0Fh reads
  back the masks.

### Fairness

`DmaDemo` assumes `WF(DemoStep)`, `IoForwarding` `WF(Progress)` and `EepromProgrammer`
`WF(Step)`: straight-line code on a processor goes on. Nothing is assumed of
the rest: a device may never ask for a bus cycle, a write cycle need not end
(the program then fails on an I2C error), callbacks may come for ever, nobody need run
the demo again, users and power do as they like. `LegacyDma`, `It8888Config` and `LpcDmaProbe` have no fairness; only safety
is asked of them.

### What the models assume

- All channels but the cascade are masked at `Init`, as the firmware leaves the
  controllers, but for those in use under the probes. Terminal-count bits may be set,
  in the proofs those of any channels: nothing clears one but a status read. A channel
  asks for the bus at any time.
- Callers allocate into a buffer structure that holds no buffer, and each driver
  is started at most once, but for a second copy of the forwarder that the loader starts.
- The ISA bus is behind one PCI root bridge; an access reaches it when that bridge
  forwards.
- An EEPROM that does not acknowledge a byte of a transfer takes none after it; one that
  does not acknowledge the address of a read returns whatever cell it stood at.
- Ports have no aliases, and an access of two or four bytes is that many byte
  cycles upwards; the alignment assertions of the I/O library are compiled out. The
  command and request registers change nothing modelled: a disabled
  controller is one whose devices do not ask.
- No caller uses channel 4.
- A callback runs to its end before what it interrupted goes on (UEFI has one
  processor and no preemption among callers of one TPL).
- A page of the EEPROM whose write cycle loses power may hold, in each cell, the
  old value, the new one or FFh.
- The chip reads the EEPROM in groups of five bytes from address 0 to the end
  marker, the format `IT8888F_ConfigTool.py:7-12` quotes from its data sheet.

## 4. Refinement

`DmaTasks` says what the DMA interface promises: per channel a task, absent, or
with the region it covers, the progress made and whether it is enabled;
`Commit` replaces a task, `Enable` and `Disable` switch it, a cycle advances an
enabled one. `LegacyDmaRefinement` maps a channel under reprogramming to "no
task", and any other to the contents of its registers. That the mapping is a
refinement is the property `ImplementsTasks` of run `dma`; dropping a single
port write breaks it. `TasksUnlessDisturbed` of run `raw` says the same beside a
client of Read and Write, but for the steps in which a narrow channel is
disturbed. It is the weaker statement about a wider system: there buffers are
allocated and freed, calls refused, and transfers restarted by auto-initialize.

## 5. What is proved

Every theorem is for all values of the constants: any number of callers, channels
assigned to them, buffers, modes and counts; any number of values of a byte from 2
on; any number of root bridges; any HEX files, page size and memory size; any command
lines of the configuration tool; any channels in use, registers and exceptions under the
probes.

| Module | Theorem | States | Assuming |
|---|---|---|---|
| `LegacyDmaProofs` | `TypeCorrect` | `TypeOK` | |
| | `SafetyInvariant` | the invariant `SafetyInv` | `Exclusive` |
| | `RegistersMatch` | `RegistersMatchRecord` | `Exclusive` |
| | `NeverHalfWritten` | `MaskedWhileRewritten` | `Exclusive` |
| | `EnabledIsProgrammed` | `EnabledOnlyIfProgrammed` | `Exclusive` |
| | `OthersUntouched` | `OtherChannelsUntouched`, an action property | |
| | `OnlyStart` | `OnlyStartEnables`, an action property | `Exclusive` |
| | `OpenServed` | `OpenIsServed` | `Exclusive`, `CascadeUnused` |
| | `CountInvariant` | the invariant `CountInv` | `Exclusive` |
| | `CountdownEnds` | `CountdownKeepsEnd` | `Exclusive` |
| | `TasksImplemented` | `ImplementsTasks`: the driver implements `DmaTasks` | `Exclusive` |
| `RawPortProofs` | `RawTypeCorrect` | `RawTypeOK` | |
| | `RawInvariant` | the invariant `RawInv` | `Exclusive` |
| | `HarmLocal` | `HarmIsLocal` | `Exclusive` |
| | `TasksBesideRaw` | `TasksUnlessDisturbed`, a refinement but for disturbed channels | `Exclusive` |
| `DmaDemoProofs` | `DemoIsClient` | `DemoSpec => Spec`: the demo is a client of the driver | |
| | `DemoInvariant` | the invariant `DemoInv` | `Exclusive` |
| | `DemoTypeCorrect` | `DemoTypeOK` | `Exclusive` |
| | `TransfersInBuffer` | `TransfersFollowBuffer` | `Exclusive` |
| | `CompletionKept` | `CompletionNotLost` | `Exclusive` |
| | `DemoEndsClean` | `EndsClean` | `Exclusive` |
| | `FooledOnce` | `FooledOnceAtMost` | `Exclusive` |
| `IoForwardingProofs` | `TypeCorrect` | `TypeOK` | |
| | `ForwardingInvariant` | the invariant `ForwardingInv` | |
| | `BridgesStayOn` | `ForwardingStays` | |
| | `ReportTrue` | `ReportIsTrue` | |
| | `MemoryReturned` | `PoolReturned` | |
| | `ClientReachesBus` | `AccessesReachBus`, an action property | |
| `EepromProofs` | `EepromInvariant` | the invariant `EepromInv` | |
| | `EepromTypeCorrect` | `TypeOK` | |
| | `VerifiedStored` | `VerifiedMeansStored` | |
| | `WriteCompleteLoses` | `LostOnlyIfUnacknowledged` | |
| | `NothingStray` | `NoStrayWrite`, an action property | |
| | `DumpInRange` | `NoValueError` | |
| `ConfigProofs` | `ConfigInvariant` | the invariant `ConfigInv` | |
| | `ConfigTypeCorrect` | `ConfigTypeOK` | |
| | `Boots` | `BootsAsGenerated` | |
| | `OptionsShow` | `OptionsTakeEffect` | |
| `LpcDmaProbeProofs` | `ProbeTypes` | `ProbeTypeOK` | |
| | `ProbeProgramming` | `ProgrammingKept`, an action property | |
| | `ProbeMasks` | `MasksKept` | `MaskReadable` |
| | `ProbeDisables` | `DisabledOnlyAfterChannel2` | `MaskReadable` |
| | `ProbeRegisters` | `LpcRegsRestored` | |

The constants have the assumptions their modules name: `ByteAssumption`,
`ConstantAssumption` (the ranges of the C types), `RawAssumption`, `DemoAssumption`
(the demo asks for a size, count and mode among those `LegacyDma` considers),
`ForwardingAssumption`, `EepromAssumption`, `ConfigAssumption` (bytes of 8 bits, the registers
where the chip has them, and an EEPROM that holds them all: 106 of 256 bytes in the code),
`OptionsAssumption` (what `argparse` and `int()` let through; a value of more than 32 bits
included) and `ProbeAssumption`. Three hypotheses are stated in the
theorems that need them. `Exclusive`: no two callers of the DMA functions use
channels of one controller; run `dma_shared_flipflop` shows what happens otherwise.
`CascadeUnused`: no caller uses channel 4, through which the first controller is
served; the driver does not refuse it. `MaskReadable`: port 0Fh reads back the four mask
bits; the scripts take it for granted, and without it they have nothing to put the masks back
from. Where one caller is all there is, as in
the demo, `Exclusive` holds of itself.

### The arguments

**Registers and record.** `RegistersMatchRecord` is not inductive. In the middle
of a programming the registers are partly new, the record is old, and whether the
next byte lands in the right half depends on the flip-flop. `SafetyInv` therefore
says of every caller how far it is (`Progress`): which registers already hold the
new values, byte by byte, and where the flip-flop of its controller stands; and
of every channel (`Good`) that it is masked while a caller rewrites it, loaded as
recorded otherwise, and unmasked only when programmed. There is a lemma per
action of the driver; each needs only the facts about its own caller and channel
(`Local`), so that the same lemmas serve where other channels are in disorder. One
lemma (`OthersKept`) carries the other callers and channels over, which is
where `Exclusive` is used. Bus cycles change only the current address, count, mask and
terminal-count fields, which none of these facts constrain except through the
mask, which they only set.

**Action properties.** For `OthersUntouched` it is enough that the Mode byte a
caller is about to write names its own channel (`RouteInv`): the Mode and mask
registers of the 8237 are shared by four channels and routed by their two low bits,
so a byte with wrong low bits would reach a neighbour. `OnlyStart` adds `Progress` of
`SafetyInv` at the mask write, which comes after the check of the record by
several steps of other callers. For `OpenServed`, `ServeInv` says that every Mode byte
written or recorded is a single-transfer one, and that channel 4 stays
open and cascading from the reset on; the record of the open channel then tells its
mode through `RegistersMatchRecord`.

**The refinement.** `CountInv` adds to `SafetyInv` that the current address and
count of a channel end where its region does, modulo 64K, and the same of the bytes
a caller has written so far (`Counting`). It rests on lemmas about two-byte
arithmetic: an increment with carry and a decrement with borrow keep the sum modulo
the word, at every byte width. The refinement is then shown for one channel
at a time: what the mapping makes of a channel changes with none of the steps but
the one of its own owner's store, start, first mask write or bus cycle, and these
are `Commit`, `Enable`, `Disable` and the cycle of `DmaTasks`.

**Raw accesses.** `RawInv` claims the facts above only of channels outside `hit`,
and of a channel in it only what the driver keeps in memory: its record
(`Recorded`) and what its owner is about to write (`Plans`, `RouteInv`); that is
where the channel-local lemmas are needed. A byte cycle outside a channel's ports
changes nothing `Local` speaks of, and the start of a programming re-establishes
`Local` from nothing: it masks the channel, resets the flip-flop and writes every
register.

**The demo.** Each step of the demo and each bus cycle is a step of `Spec`
(`DemoCalls`), so `CountInv` holds under it. `DemoInv` adds what the demo relies on
at each of its own steps (`Phase`): which call is under way for it, whether it holds the
buffer, what is recorded of its channel (`Noted`), and whether the channel is still
waiting (`Fresh`), being served (`Served`) or has an end of count to signal (`Signals`).
What a terminal-count bit tells is true (`Honest`) from the first poll on, which clears an
old one; before it, `stale` remembers whether the bit was set at the start, so that a
channel that runs while the demo leaves its loop means `Fooled`.

**Forwarding.** `ForwardingInv` has a part per owner of state: `ImageInv` of each
entry point (what it set forwards, its status says whether it set any, it holds the
handle buffer only in the loop), one each of the loader and the client.
`ForwardingStays` is inductive once the types are: what is written
back is what was read with `ISA_MOTHERBOARD_IO` added, other firmware only adds
attributes, and none of the three programs takes the bit away. `Turns` says that
nothing else runs while the client or the first half of the loader does; without it an
entry point could set the bridge between the client's read and its write, and
`AccessesReachBus` would claim a read that did not go out (`ReadReached`).

**The programmer.** `EepromInv` relates three copies of the data: the dictionary,
the page under way and the EEPROM with its write cycle. `RunToWrite` says that
the page under way is a run of consecutive addresses inside one page, with the
bytes of the dictionary; hence `write_page` sends it whole (`WholeRun`), the address
counter does not wrap and the cells touched are those of the run. That the bytes of a
run come in the order of their addresses is proved by counting the addresses
below each (`Nths`); that a group has a least and a greatest address, from the
well-foundedness of the natural numbers. Of an address passed, `Holds` says that its byte
is stored, in the write cycle, or in `short`. `VerifiedMeansStored` needs `Verifying`: an
address once read back equal, and not in `blind`, stays equal, as no write cycle is under
way any more.

**From options to registers.** `ConfigInv` adds one conjunct to `EepromInv`: the file under
delivery is `create_binary_data(generate_config(o))` of one accepted command line *o*, or
there is none yet. That is easily kept. What takes work is that the lines made of any such
file are lines `EepromInv` can start from (`HexFileIsFile`), and two lemmas about
operators. `BootsFromFile`: what the chip reads of the file of *any* register map is that
map. The group of a register stands where the number of smaller registers says (`NthIs`, from
the injection of a finite set into its own ranks); no register index is the end marker, so
the chip stops at the end marker and not before, whatever the values are; hence every group
start it finds is a group the tool wrote, and each register has one.
`GeneratedIs`: the map made of an accepted command line has, for each option, the value
the option asks for, after all later options were applied: the registers of claims, flags
and values are apart (`Apart`), or the later one leaves the bits of the earlier
(`BiosValueIs`: the register is made afresh from a default in which both flag bits are on).
`OptionsTakeEffect` says what a base is worth where the register can hold it, 16 bits of an
I/O base and 24 of a memory page; elsewhere the code cuts it, which is listed in section 3.
Of `ISA_SPACES_TIMING` it says, bit by bit, that the bits of flags and segments are on and
every other is that of `TimingBefore`: byte by byte, an option turns bits on and no other off.
The sum of a line's bytes is a recursive function; that it is a number, which is
all that is needed of it, follows from the least counterexample.

**The probes.** A script is a list of about ninety accesses, and each property is about a
point between them, so the invariants say where the script is (`at`) and what it holds
there. `ShapeInv`: the script is at an access of a task of its own, the variables this task
reads were read by one before, and the mode of a narrow channel is one of three.
`RegsInv`: `Undo` is the register changed just now, to be put back from the variable `UndoVar`;
with that register counted as already put back, those that differ from the start are
no more than the accesses that raised, and the variables about to be written back
still hold what was read (`Saved`). An exception leaves at most the one register of `Undo`.
`HeldInv`: where a script programs channel 1 or 3, or has written all masks, they are masked.
`MaskInv` and `CountInv` are the same for masks: a channel open that was masked at the
start is in flight or the price of an exception; and one that was open and is masked has
completed, which its current count, all ones, tells, since nothing but its bus cycles
ever moves it. `EndInv` is the converse for open channels: one past its end was opened
again by h81 from what it had read of the mask register. `ClosedInv` says that z390 without an
exception masks channels 1 and 3 last. `CommandInv` follows the one value that goes astray: h81
saves the *status* register as the command register, so a bit of channel 2's completion becomes
the disable bit. A bit of an earlier transfer does so too, and is followed from the first
reading on (`Stale`) until a second saving, after a hidden register was found, replaces it.
The run `probe` checked these invariants as well, with channels {2, 3} and {1, 2, 3} in
use, before they were proved.

### Model-checked only

- Liveness under fairness: `DemoEnds`, `ProgramsEnd`, `ProgramEnds`. The prover has
  no rules for `ENABLED`.
- `AcpiDsm`, and the other runs that find a violation: there is no property to prove.

## 6. Not modelled

- The value a raw read returns (the driver hands it to the client), and channel 4
  programmed by a client.
- `write_byte` of the programmer and `configure_io_space`, `configure_memory_space` of the
  tool, which nothing calls; printing and the parsing of numbers.
- `IsaIoLoader`'s `LoadDriverFile` is called and not in the repository; its
  result is arbitrary.
- Of the CHIPSEC scripts, `lpc_dma_check.py`, which only reads and prints, and the
  inspections of ACPI tables, SMI handlers and Super I/O chips: these write ports
  of devices (the SMI port B2h, index and data ports) that the repository says nothing of.
- The compiled table `DONOTUSE__SSDT-IT8893E.aml`, apart from its source.
- Board files, GRUB notes, the Windows driver's installation file, data sheets
  and dumps have no behaviour.

## 7. Where it stands

Modelled: the DMA protocol, its abstract specification, raw accesses beside it, the
demo, forwarding, the EEPROM programmer, the configuration tool, the register
probes, the SSDT. Every safety property that a passing run checks is a theorem, the two
refinements among them; the three liveness properties are checked on the instances of
section 3 only. What would extend the project is more of the CHIPSEC scripts, once there is
a description of the ports they write, and a model of the operating system's own
use of ports 00h to FFh beside the driver.
