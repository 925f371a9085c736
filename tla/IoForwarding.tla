---------------------------- MODULE IoForwarding ----------------------------
(***************************************************************************)
(* How legacy I/O gets from the processor to an ISA bus: the entry points  *)
(* of the three DXE drivers ask every PCI root bridge to forward ISA       *)
(* motherboard I/O, two of them install a protocol, a loader application   *)
(* starts the third from a file, and a client uses the first protocol it   *)
(* finds.                                                                  *)
(*                                                                         *)
(* Entry points and applications run one at a time on the boot processor;  *)
(* a callback of other firmware may interrupt any of them and turn on      *)
(* another attribute of a bridge.  Any boot service may fail.              *)
(* (A Wrong... operator is a plausible slip, no part of the model.)        *)
(***************************************************************************)
EXTENDS Integers

CONSTANTS
  HandleCount, \* how many root bridges LocateHandleBuffer finds
  IsaBridge,   \* the one that has the ISA bus behind it
  OtherAttr    \* bridge attributes other than the one the drivers set

IsaIo == "ISA_MOTHERBOARD_IO"

ASSUME ForwardingAssumption ==
  /\ HandleCount \in Nat \ {0}
  /\ IsaBridge \in 0 .. HandleCount - 1
  /\ IsaIo \notin OtherAttr

Bridges == 0 .. HandleCount - 1
Attr == OtherAttr \cup {IsaIo}

(* LegacyIoDxe and LegacyIoDxeEx share EnableIoForwarding (each has a copy)*)
LegacyDrivers == {"LegacyIoDxe", "LegacyIoDxeEx"}
Forwarder == "IsaIoForwardingDxe"
Drivers == LegacyDrivers \cup {Forwarder}

VARIABLES
  Supports,   \* the attributes each bridge supports
  Attributes, \* the attributes each bridge has on
  image,      \* the driver images: where their entry points are
  installed,  \* the drivers whose protocol is in the handle database
  loader,     \* IsaIoLoader
  app         \* UseIsaIoProtocol

vars == <<Supports, Attributes, image, installed, loader, app>>

(* "ERROR" is whatever a boot service failed with.                         *)
Returns == {"SUCCESS", "UNSUPPORTED", "ERROR"}

(* HandleBuffer and DriverBuffer are pool memory: whether it is held.      *)
Image == [pc : {"file", "locate", "bridge", "set", "free", "install", "end"},
          Index : 0 .. HandleCount, Attributes : SUBSET Attr,
          set : SUBSET Bridges, HandleBuffer : BOOLEAN, Status : Returns]
Loader == [pc : {"none", "load", "start", "wait", "end"},
           DriverBuffer : BOOLEAN, Status : Returns]
App == [pc : {"none", "open", "read", "write", "end"}, HandleBuffer : BOOLEAN,
        Status : Returns, reached : SUBSET {"read", "write"}]

TypeOK ==
  /\ Supports \in [Bridges -> SUBSET Attr]
  /\ Attributes \in [Bridges -> SUBSET Attr]
  /\ image \in [Drivers -> Image]
  /\ installed \subseteq LegacyDrivers
  /\ loader \in Loader
  /\ app \in App

(* Whether a bridge supports the other attributes makes no difference to   *)
(* the drivers: all do.  Firmware may have turned on any of them.          *)
Init ==
  /\ Supports \in [Bridges -> {OtherAttr, Attr}]
  /\ Attributes \in {a \in [Bridges -> SUBSET Attr] :
                       \A b \in Bridges : a[b] \subseteq Supports[b]}
  /\ image = [d \in Drivers |->
       [pc |-> "file", Index |-> 0, Attributes |-> {},
        set |-> {}, HandleBuffer |-> FALSE, Status |-> "SUCCESS"]]
  /\ installed = {}
  /\ loader = [pc |-> "none", DriverBuffer |-> FALSE, Status |-> "SUCCESS"]
  /\ app = [pc |-> "none", HandleBuffer |-> FALSE, Status |-> "SUCCESS", reached |-> {}]

-----------------------------------------------------------------------------
(* One program runs at a time; the loader waits in StartImage.             *)

Running(d) == image[d].pc \notin {"file", "end"}
Quiet ==
  /\ \A d \in Drivers : ~Running(d)
  /\ loader.pc \in {"none", "end"}
  /\ app.pc \in {"none", "end"}

At(d, pc) == image[d].pc = pc
Becomes(d, r) == image' = [image EXCEPT ![d] = r]
Only(d) == UNCHANGED <<Supports, installed, loader, app>> /\ Running(d)

(* A copy of driver d starts; "set" goes on telling what d has set so far. *)
Starts(d) == image' = [image EXCEPT ![d].pc = "locate", ![d].Index = 0]

(* The dispatcher, or the shell's load command, starts a driver.           *)
StartDriver(d) ==
  /\ Quiet /\ At(d, "file")
  /\ Starts(d)
  /\ UNCHANGED <<Supports, Attributes, installed, loader, app>>

-----------------------------------------------------------------------------
(* The entry points.  Where a legacy driver ends EnableIoForwarding it goes*)
(* on to install its protocol whatever the result; the forwarder returns.  *)

WrongAfterForwarding(d) == "install"
AfterForwarding(d) == IF d \in LegacyDrivers THEN "install" ELSE "end"

LocateBridges(d) ==
  /\ At(d, "locate") /\ Only(d)
  /\ \/ Becomes(d, [image[d] EXCEPT !.pc = AfterForwarding(d), !.Status = "ERROR"])
     \/ Becomes(d, [image[d] EXCEPT !.pc = "bridge", !.HandleBuffer = TRUE])
  /\ UNCHANGED Attributes

(* The loop over the handles: r is what its body makes of image[d].        *)
InLoop(d) == At(d, "bridge") /\ Only(d) /\ image[d].Index < HandleCount
NextBridge(r) == [r EXCEPT !.pc = "bridge", !.Index = @ + 1, !.Attributes = {}]
BridgeSet(d) == [image[d] EXCEPT !.set = @ \cup {image[d].Index}]

(* A bridge that cannot be opened, or is not able to forward, is passed    *)
(* over.                                                                   *)
WrongSkipBridge(d) == InLoop(d) /\ Becomes(d, image[d]) /\ UNCHANGED Attributes
SkipBridge(d) == InLoop(d) /\ Becomes(d, NextBridge(image[d])) /\ UNCHANGED Attributes

(* The legacy drivers read the attributes first ...                        *)
GetAttributes(d) ==
  LET b == image[d].Index IN
  /\ d \in LegacyDrivers
  /\ InLoop(d) /\ IsaIo \in Supports[b]
  /\ Becomes(d, [image[d] EXCEPT !.pc = "set", !.Attributes = Attributes[b]])
  /\ UNCHANGED Attributes

(* ... and then write them back with the one they want, or fail to.        *)
WrongSetAttributes(d) ==
  /\ At(d, "set") /\ Only(d)
  /\ \/ /\ Attributes' = [Attributes EXCEPT ![image[d].Index] = image[d].Attributes]
        /\ Becomes(d, NextBridge(BridgeSet(d)))
     \/ Attributes' = Attributes /\ Becomes(d, NextBridge(image[d]))
WrongSetAttributesInverted(d) ==
  /\ At(d, "set") /\ Only(d)
  /\ \/ /\ Attributes' = [Attributes EXCEPT ![image[d].Index] = image[d].Attributes \cup {IsaIo}]
        /\ Becomes(d, NextBridge(image[d]))
     \/ Attributes' = Attributes /\ Becomes(d, NextBridge(BridgeSet(d)))
SetAttributes(d) ==
  /\ At(d, "set") /\ Only(d)
  /\ \/ /\ Attributes' = [Attributes EXCEPT ![image[d].Index] = image[d].Attributes \cup {IsaIo}]
        /\ Becomes(d, NextBridge(BridgeSet(d)))
     \/ Attributes' = Attributes /\ Becomes(d, NextBridge(image[d]))

(* The forwarder asks for its attribute alone, in one call.                *)
EnableAttribute(d) ==
  LET b == image[d].Index IN
  /\ d = Forwarder
  /\ InLoop(d) /\ IsaIo \in Supports[b]
  /\ Attributes' = [Attributes EXCEPT ![b] = @ \cup {IsaIo}]
  /\ Becomes(d, NextBridge(BridgeSet(d)))

(* FreePool(HandleBuffer) and the result: a legacy driver wants at least   *)
(* one bridge, the forwarder is content with none.                         *)
WrongForwardingDone(d) ==
  /\ At(d, "bridge") /\ Only(d) /\ image[d].Index = HandleCount
  /\ Becomes(d, [image[d] EXCEPT !.pc = AfterForwarding(d),
       !.Status = IF d \in LegacyDrivers /\ image[d].set = {} THEN "UNSUPPORTED"
                  ELSE "SUCCESS"])
  /\ UNCHANGED Attributes
ForwardingDone(d) ==
  /\ At(d, "bridge") /\ Only(d) /\ image[d].Index = HandleCount
  /\ Becomes(d, [image[d] EXCEPT !.pc = AfterForwarding(d), !.HandleBuffer = FALSE,
       !.Status = IF d \in LegacyDrivers /\ image[d].set = {} THEN "UNSUPPORTED"
                  ELSE "SUCCESS"])
  /\ UNCHANGED Attributes

(* The protocol is installed whether or not any bridge forwards.  An entry *)
(* point that fails has its image unloaded.                                *)
InstallProtocol(d) ==
  /\ At(d, "install") /\ Running(d)
  /\ \/ /\ installed' = installed \cup {d}
        /\ Becomes(d, [image[d] EXCEPT !.pc = "end", !.Status = "SUCCESS"])
     \/ /\ installed' = installed
        /\ Becomes(d, [image[d] EXCEPT !.pc = "end", !.Status = "ERROR"])
  /\ UNCHANGED <<Supports, Attributes, loader, app>>

Entry(d) ==
  \/ LocateBridges(d) \/ SkipBridge(d) \/ GetAttributes(d) \/ SetAttributes(d)
  \/ EnableAttribute(d) \/ ForwardingDone(d) \/ InstallProtocol(d)

-----------------------------------------------------------------------------
(* IsaIoLoader: read the driver file, load the image, start it.  LoadImage *)
(* copies the image, so the loader frees its buffer either way; it loads a *)
(* second copy of a forwarder that ran before.                             *)

LoaderStep(r) == loader' = r /\ UNCHANGED <<Supports, Attributes, installed, app>>

LoadDriverFile ==
  /\ Quiet /\ loader.pc = "none"
  /\ UNCHANGED image
  /\ \/ LoaderStep([loader EXCEPT !.pc = "end", !.Status = "ERROR"])
     \/ LoaderStep([loader EXCEPT !.pc = "load", !.DriverBuffer = TRUE])

LoadImage ==
  /\ loader.pc = "load"
  /\ UNCHANGED image
  /\ \/ LoaderStep([loader EXCEPT !.pc = "end", !.DriverBuffer = FALSE, !.Status = "ERROR"])
     \/ LoaderStep([loader EXCEPT !.pc = "start"])

StartImage ==
  /\ loader.pc = "start"
  /\ Starts(Forwarder)
  /\ LoaderStep([loader EXCEPT !.pc = "wait"])

StartImageReturns ==
  /\ loader.pc = "wait" /\ At(Forwarder, "end")
  /\ UNCHANGED image
  /\ LoaderStep([loader EXCEPT !.pc = "end", !.DriverBuffer = FALSE,
                               !.Status = image[Forwarder].Status])

-----------------------------------------------------------------------------
(* UseIsaIoProtocol: one byte read from port 60h, one written to port 80h, *)
(* through LegacyIoRead and LegacyIoWrite.                                 *)

IoRangeStart == 0
IoRangeEnd == 255
WrongRefuses(Port, Width) == Port < IoRangeStart \/ Port > IoRangeEnd \/ Width \notin {8, 16, 32}
Refuses(Port, Width) ==
  \/ Port < IoRangeStart \/ Port > IoRangeEnd
  \/ Width \notin {1, 2, 4}

(* An access goes out on the ISA bus if the bridge above it forwards it;   *)
(* what other bridges forward ends elsewhere.                              *)
Forwarded == IsaIo \in Attributes[IsaBridge]
Reaches(Port, Width, op) == IF ~Refuses(Port, Width) /\ Forwarded THEN {op} ELSE {}

AppStep(r) == app' = r /\ UNCHANGED <<Supports, Attributes, image, installed, loader>>

AppLocate ==
  /\ Quiet /\ app.pc = "none"
  /\ \/ AppStep([app EXCEPT !.pc = "end", !.Status = "ERROR"])
     \/ installed # {} /\ AppStep([app EXCEPT !.pc = "open", !.HandleBuffer = TRUE])

AppOpen ==
  /\ app.pc = "open"
  /\ \/ AppStep([app EXCEPT !.pc = "end", !.HandleBuffer = FALSE, !.Status = "ERROR"])
     \/ AppStep([app EXCEPT !.pc = "read"])

AppRead ==
  /\ app.pc = "read"
  /\ AppStep([app EXCEPT !.pc = "write", !.reached = @ \cup Reaches(\h60, 1, "read")])

AppWrite ==
  /\ app.pc = "write"
  /\ AppStep([app EXCEPT !.pc = "end", !.HandleBuffer = FALSE,
                         !.reached = @ \cup Reaches(\h80, 1, "write")])

-----------------------------------------------------------------------------
(* Other firmware, in a callback, turns on an attribute of a bridge.       *)
Callback ==
  \E b \in Bridges : \E x \in OtherAttr \cap Supports[b] :
    /\ Attributes' = [Attributes EXCEPT ![b] = @ \cup {x}]
    /\ UNCHANGED <<Supports, image, installed, loader, app>>

(* A program that was started goes on: nothing in it waits for a device.   *)
Progress ==
  \/ \E d \in Drivers : Entry(d)
  \/ LoadImage \/ StartImage \/ StartImageReturns
  \/ AppOpen \/ AppRead \/ AppWrite

Next ==
  \/ Progress
  \/ \E d \in Drivers : StartDriver(d)
  \/ LoadDriverFile \/ AppLocate \/ Callback

Spec == Init /\ [][Next]_vars /\ WF_vars(Progress)

-----------------------------------------------------------------------------
(* A bridge on which an entry point turned forwarding on stays on, although*)
(* every legacy driver writes back attributes it read before: what other   *)
(* firmware turned on in between may be lost, the ISA attribute may not.   *)
ForwardingStays ==
  \A d \in Drivers : \A b \in image[d].set : IsaIo \in Attributes[b]

(* "EFI_SUCCESS Forwarding was enabled successfully, EFI_UNSUPPORTED       *)
(* Forwarding could not be enabled": EnableIoForwarding reports success    *)
(* exactly when a bridge it set forwards ISA I/O.                          *)
ReportIsTrue ==
  \A d \in LegacyDrivers : At(d, "install") =>
    (image[d].Status = "SUCCESS" <=> \E b \in image[d].set : IsaIo \in Attributes[b])

(* Whoever has ended, on any path, holds no pool memory.                   *)
PoolReturned ==
  /\ \A d \in Drivers : At(d, "end") => ~image[d].HandleBuffer
  /\ loader.pc = "end" => ~loader.DriverBuffer
  /\ app.pc = "end" => ~app.HandleBuffer

(* Both accesses of the client, the read of port 60h and the write of port *)
(* 80h, reach the ISA bus once any driver has turned forwarding on at the  *)
(* bridge above it, whichever driver's protocol the client opened and      *)
(* whatever was written to the attributes of that bridge since.            *)
IsaBridgeSet == \E d \in Drivers : IsaBridge \in image[d].set
AccessesReachBus ==
  [][app.pc = "write" /\ app'.pc = "end" /\ IsaBridgeSet
       => app'.reached = {"read", "write"}]_vars

(* Every program that was started comes to its end.                        *)
ProgramsEnd ==
  /\ \A d \in Drivers : Running(d) ~> At(d, "end")
  /\ loader.pc = "load" ~> loader.pc = "end"
  /\ app.pc = "open" ~> app.pc = "end"
=============================================================================
