--------------------------- MODULE RawPortAccess ---------------------------
(***************************************************************************)
(* The other half of the protocol: LegacyIoRead and LegacyIoWrite, with    *)
(* which any client reaches any port of 0x00 - 0xFF, those of the DMA      *)
(* controllers included, past everything LegacyDma records.  Here such a   *)
(* client runs beside the callers of LegacyDma.                            *)
(*                                                                         *)
(* An access of two or four bytes goes out on the ISA bus as one byte      *)
(* cycle per port, upwards from the port named; bus cycles of a DMA channel*)
(* may fall between them, calls of the driver may not.  hit is a history   *)
(* variable: the channels an access may have disturbed since they were last*)
(* programmed.  What a read returns is the client's affair.                *)
(* (Wrong... operators: see LegacyDma.)                                    *)
(***************************************************************************)
EXTENDS LegacyDmaRefinement

CONSTANTS
  ClientTpl,   \* the task priority the client runs at
  Ports,       \* the ports it names
  Widths,      \* the widths it asks for
  Devices,     \* the channels a device of the machine is wired to
  Commands,    \* the bytes it writes to the command ports of a controller
  MaxAccesses  \* bound: how many accesses it makes

ASSUME RawAssumption ==
  /\ ClientTpl \in Nat /\ Ports \subseteq Nat /\ Widths \subseteq Nat
  /\ Devices \subseteq Chan /\ Commands \subseteq 0 .. 255 /\ MaxAccesses \in Nat

VARIABLES
  access,    \* the client's call: what is left of it, or what it returned
  accesses,  \* how many it made
  hit

rawVars == <<vars, access, accesses, hit>>

IoRangeStart == \h00
IoRangeEnd   == \hFF

(* A call in progress has its next port and the byte cycles left.          *)
InCall(op, Port, Width) == [op |-> op, Port |-> Port, Left |-> Width, ret |-> "SUCCESS"]
Ended(s) == [op |-> "none", Port |-> 0, Left |-> 0, ret |-> s]
Idle == access.op = "none"

RawInit == Init /\ access = Ended("SUCCESS") /\ accesses = 0 /\ hit = {}

-----------------------------------------------------------------------------
(* LegacyIoRead and LegacyIoWrite up to the port access.  The first port   *)
(* alone is held to the range: two or four bytes at its end leave it.      *)

WrongWidthAccess(Port, Width, Ptr) ==
  \/ Port < IoRangeStart \/ Port > IoRangeEnd
  \/ Ptr = NULL
  \/ Width \notin {1, 2, 4, 8}
BadAccess(Port, Width, Ptr) ==
  \/ Port < IoRangeStart \/ Port > IoRangeEnd
  \/ Ptr = NULL
  \/ Width \notin {1, 2, 4}

RawCall(op, Port, Width, Ptr) ==
  /\ Idle /\ accesses < MaxAccesses
  /\ \A t \in Tpl : t >= ClientTpl => frame[t].pc = "idle"
  /\ access' = IF BadAccess(Port, Width, Ptr) THEN Ended("INVALID_PARAMETER")
                                               ELSE InCall(op, Port, Width)
  /\ accesses' = accesses + 1
  /\ UNCHANGED <<vars, hit>>

LegacyIoRead(Port, Width, Ptr)  == RawCall("read", Port, Width, Ptr)
LegacyIoWrite(Port, Width, Ptr) == RawCall("write", Port, Width, Ptr)

-----------------------------------------------------------------------------
(* One byte cycle.  The registers of the controllers the driver never      *)
(* writes: all masks at once, all masks clear, master clear.  The command  *)
(* and request registers change nothing modelled here: a controller that is*)
(* disabled is one whose devices do not ask.                               *)

MasterClear == 13
ClearMasks  == 14
AllMasks    == 15

SetMasks(k, M) == ch' = [c \in Chan |-> IF Of(c) = k THEN [ch[c] EXCEPT !.mask = (c \in M)]
                                                     ELSE ch[c]]

OtherWrite(p, v) ==
  \E k \in Ctrl :
    \/ /\ p = IoReg(k, AllMasks) /\ ff' = ff
       /\ SetMasks(k, {c \in Chan : (v \div (2 ^ (c % 4))) % 2 = 1})
    \/ p = IoReg(k, ClearMasks) /\ SetMasks(k, {}) /\ ff' = ff
    \/ /\ p = IoReg(k, MasterClear) /\ ff' = [ff EXCEPT ![k] = 0]
       /\ ch' = [c \in Chan |-> IF Of(c) = k THEN [ch[c] EXCEPT !.mask = TRUE, !.tc = FALSE]
                                             ELSE ch[c]]

DataPorts(c) == {AddrPort(c), CountPort(c)}
ControlPorts(k) == {IoReg(k, r) : r \in 8 .. 15}
Swallowed(p) ==
  /\ \A c \in Chan : p \notin DataPorts(c) \cup {PagePort(c)}
  /\ \A k \in Ctrl : p \notin ControlPorts(k) \ {IoReg(k, r) : r \in {8, 9}}

WriteCycle(p) ==
  \/ /\ \E k \in Ctrl : p \in ControlPorts(k)
     /\ \E v \in Commands : PortWrite(p, v) \/ OtherWrite(p, v)
  \/ /\ \A k \in Ctrl : p \notin ControlPorts(k)
     /\ \E v \in Data : PortWrite(p, v)
  \/ Swallowed(p) /\ UNCHANGED dmaVars

ReadCycle(p) ==
  \/ \E bits \in SUBSET (0 .. 3) : StatusRead(p, bits)
  \/ \E c \in Chan : p \in DataPorts(c) /\ Toggle(Of(c)) /\ ch' = ch
  \/ /\ \A c \in Chan : p \notin DataPorts(c)
     /\ \A k \in Ctrl : p # IoReg(k, StatReg)
     /\ UNCHANGED dmaVars

(* What a byte cycle on port p may disturb, by the driver's own port table:*)
(* written, the channel whose register it is, or every channel of the      *)
(* controller whose command port it is; and if it moves the byte pointer,  *)
(* the channel of that controller that is being programmed.                *)
MovesPointer(k, p) == p \in ControlPorts(k) \/ \E c \in Chan : Of(c) = k /\ p \in DataPorts(c)
Disturbed(op, p) ==
  {c \in Chan : \/ op = "write" /\ p \in DataPorts(c) \cup {PagePort(c)} \cup ControlPorts(Of(c))
                \/ Reprogramming(c) /\ MovesPointer(Of(c), p)}

RawCycle ==
  /\ ~Idle
  /\ IF access.op = "write" THEN WriteCycle(access.Port) ELSE ReadCycle(access.Port)
  /\ hit' = hit \cup Disturbed(access.op, access.Port)
  /\ access' = IF access.Left = 1 THEN Ended("SUCCESS")
               ELSE InCall(access.op, access.Port + 1, access.Left - 1)
  /\ UNCHANGED <<DmaChannels, buf, frame, accesses>>

-----------------------------------------------------------------------------
(* The callers of LegacyDma go on between the client's calls.  A channel   *)
(* whose programming begins is no longer disturbed.                        *)
CallerStep ==
  /\ Idle
  /\ \E t \in Tpl : Call(t) \/ Proceed(t)
  /\ hit' = hit \ {c \in Chan : ~Reprogramming(c) /\ Reprogramming(c)'}
  /\ UNCHANGED <<access, accesses>>

DeviceCycle == (\E c \in Devices : BusCycle(c)) /\ UNCHANGED <<access, accesses, hit>>

RawNext ==
  \/ \E Port \in Ports, Width \in Widths, Ptr \in {NULL, 1} :
       LegacyIoRead(Port, Width, Ptr) \/ LegacyIoWrite(Port, Width, Ptr)
  \/ RawCycle
  \/ CallerStep
  \/ DeviceCycle

RawSpec == RawInit /\ [][RawNext]_rawVars

-----------------------------------------------------------------------------
(* The shape of the state.                                                 *)
RawTypeOK ==
  /\ TypeOK
  /\ access \in [op : {"none", "read", "write"}, Port : Nat, Left : 0 .. 4, ret : Status]
  /\ accesses \in 0 .. MaxAccesses
  /\ hit \subseteq Chan

(* What LegacyDma guarantees of channel c.                                 *)
Intact(c) ==
  /\ Reprogramming(c) => ch[c].mask
  /\ Programmed(c) /\ ~Reprogramming(c) => Loaded(c)
  /\ c # 4 /\ ~ch[c].mask => Programmed(c) /\ DmaChannels[c].Count # 0

(* Raw accesses do harm only where their ports point, and none for good: a *)
(* channel that no access disturbed since LegacyDmaProgramChannel last     *)
(* masked it has every guarantee of the driver, whatever the client did to *)
(* other ports, to the byte pointer between calls, or to it before.        *)
HarmIsLocal == \A c \in Chan \ hit : Intact(c)

(* While no narrow channel is disturbed, the driver beside a raw client    *)
(* still implements DmaTasks; after a disturbance it does again from the   *)
(* next programming of the channel on.                                     *)
TasksUnlessDisturbed ==
  /\ Tasks!Init
  /\ [][(hit \cup hit') \cap Narrow # {} \/ Tasks!Next]_(Tasks!vars)
=============================================================================
