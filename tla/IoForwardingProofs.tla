------------------------- MODULE IoForwardingProofs -------------------------
(***************************************************************************)
(* IoForwarding, for any number of root bridges and any other attributes:  *)
(* what the entry points leave switched on, what they report, and what the *)
(* programs give back.  Proofs.                                            *)
(*                                                                         *)
(* The invariant has a part per owner of state (a driver image, the loader,*)
(* the client) and one, Turns, about which of them can be running.         *)
(***************************************************************************)
EXTENDS IoForwarding, TLAPS

(* What the image of driver d owes its pc: a legacy driver, which runs     *)
(* once, has set nothing before its loop, its result is that of the loop,  *)
(* and the handle buffer is held in the loop only.                         *)
ImageInv(d) ==
  /\ d \in LegacyDrivers /\ image[d].pc \in {"file", "locate"} => image[d].set = {}
  /\ d \in LegacyDrivers /\ At(d, "install") =>
       (image[d].Status = "SUCCESS" <=> image[d].set # {})
  /\ image[d].pc \in {"file", "locate", "install", "end"} => ~image[d].HandleBuffer
  /\ \A b \in image[d].set : IsaIo \in Attributes[b]

(* While the client runs nothing else does, and the loader starts its      *)
(* driver while no entry point runs.                                       *)
Turns ==
  /\ app.pc \notin {"none", "end"} =>
       loader.pc \in {"none", "end"} /\ \A d \in Drivers : ~Running(d)
  /\ loader.pc \in {"load", "start"} => \A d \in Drivers : ~Running(d)

(* An entry point writes attributes back only inside the loop, and only a  *)
(* legacy driver has a protocol to install.                                *)
TypeInv ==
  /\ TypeOK
  /\ \A d \in Drivers : /\ At(d, "set") => image[d].Index < HandleCount
                        /\ At(d, "install") => d \in LegacyDrivers

(* The client is past its read: it reached the bus if the bridge was set.  *)
ReadReached == app.pc = "write" /\ IsaBridgeSet => "read" \in app.reached

ForwardingInv ==
  /\ TypeInv
  /\ \A d \in Drivers : ImageInv(d)
  /\ Turns
  /\ loader.pc \in {"none", "end"} => ~loader.DriverBuffer
  /\ app.pc \in {"none", "end"} => ~app.HandleBuffer
  /\ ReadReached

-----------------------------------------------------------------------------
(* Types.                                                                  *)

LEMMA ImageFields ==
  ASSUME TypeInv, NEW d \in Drivers
  PROVE  /\ image[d] \in Image /\ image \in [Drivers -> Image]
         /\ AfterForwarding(d) = IF d \in LegacyDrivers THEN "install" ELSE "end"
         /\ HandleCount \in Nat /\ IsaIo \in Attr
         /\ image[d].Index < HandleCount => image[d].Index \in Bridges
         /\ At(d, "set") => image[d].Index < HandleCount
BY ForwardingAssumption DEF TypeInv, TypeOK, Image, AfterForwarding, Bridges, Attr

(* The image the loop makes of image i when it leaves handle i.Index.      *)
LEMMA LoopTypes ==
  ASSUME NEW i \in Image, i.Index < HandleCount
  PROVE  /\ NextBridge(i) \in Image
         /\ NextBridge([i EXCEPT !.set = @ \cup {i.Index}]) \in Image
<1>1. HandleCount \in Nat /\ i.Index \in Bridges /\ i.Index + 1 \in 0 .. HandleCount
  BY ForwardingAssumption DEF Image, Bridges
<1>2. QED
  BY <1>1 DEF NextBridge, Image

LEMMA EntryTypes ==
  ASSUME TypeInv, NEW d \in Drivers, Entry(d)
  PROVE  TypeInv'
<1> DEFINE i == image[d]
<1>1. /\ i \in Image /\ image \in [Drivers -> Image]
      /\ AfterForwarding(d) = IF d \in LegacyDrivers THEN "install" ELSE "end"
      /\ HandleCount \in Nat /\ IsaIo \in Attr
      /\ i.Index < HandleCount => i.Index \in Bridges
      /\ At(d, "set") => i.Index < HandleCount
  BY ImageFields
<1>2. ASSUME NEW r \in Image, Becomes(d, r), r.pc = "set" => r.Index < HandleCount,
             r.pc = "install" => d \in LegacyDrivers,
             Attributes' \in [Bridges -> SUBSET Attr], installed' \subseteq LegacyDrivers,
             UNCHANGED <<Supports, loader, app>>
      PROVE  TypeInv'
  <2>1. /\ image' \in [Drivers -> Image] /\ image'[d] = r
        /\ \A e \in Drivers \ {d} : image'[e] = image[e]
    BY <1>1, <1>2 DEF Becomes
  <2>2. QED
    BY <1>2, <2>1 DEF TypeInv, TypeOK, At
<1>3. Attributes \in [Bridges -> SUBSET Attr] /\ installed \subseteq LegacyDrivers
  BY DEF TypeInv, TypeOK
<1>4. ASSUME i.Index < HandleCount
      PROVE  /\ NextBridge(i) \in Image /\ NextBridge(i).pc = "bridge"
             /\ NextBridge(BridgeSet(d)) \in Image /\ NextBridge(BridgeSet(d)).pc = "bridge"
  <2>1. NextBridge(i) \in Image /\ NextBridge(BridgeSet(d)) \in Image
    BY <1>1, <1>4, LoopTypes DEF BridgeSet
  <2>2. NextBridge(i).pc = "bridge" /\ NextBridge(BridgeSet(d)).pc = "bridge"
    BY <1>1 DEF NextBridge, BridgeSet, Image
  <2>3. QED
    BY <2>1, <2>2
<1>5. CASE LocateBridges(d)
  <2> DEFINE failed == [i EXCEPT !.pc = AfterForwarding(d), !.Status = "ERROR"]
             found == [i EXCEPT !.pc = "bridge", !.HandleBuffer = TRUE]
  <2>1. /\ failed \in Image /\ failed.pc = AfterForwarding(d)
        /\ found \in Image /\ found.pc = "bridge"
    BY <1>1 DEF Image, Returns
  <2>2. Becomes(d, failed) \/ Becomes(d, found)
    BY <1>5 DEF LocateBridges
  <2> HIDE DEF failed, found
  <2>3. QED
    BY <1>1, <1>2, <1>3, <1>5, <2>1, <2>2 DEF LocateBridges, Only
<1>6. CASE SkipBridge(d)
  BY <1>2, <1>3, <1>4, <1>6 DEF SkipBridge, InLoop, Only
<1>7. CASE GetAttributes(d)
  <2> DEFINE r == [i EXCEPT !.pc = "set", !.Attributes = Attributes[i.Index]]
  <2>1. i.Index < HandleCount /\ Becomes(d, r)
    BY <1>7 DEF GetAttributes, InLoop
  <2>2. r \in Image /\ r.Index = i.Index /\ r.pc = "set"
    BY <1>1, <1>3, <2>1 DEF Image
  <2> HIDE DEF r
  <2>3. QED
    BY <1>2, <1>3, <1>7, <2>1, <2>2 DEF GetAttributes, InLoop, Only
<1>8. CASE SetAttributes(d)
  <2>1. i.Index < HandleCount /\ i.Attributes \cup {IsaIo} \in SUBSET Attr
    BY <1>1, <1>8 DEF SetAttributes, Image
  <2>2. Attributes' \in [Bridges -> SUBSET Attr]
    BY <1>1, <1>3, <1>8, <2>1 DEF SetAttributes
  <2>3. QED
    BY <1>2, <1>3, <1>4, <1>8, <2>1, <2>2 DEF SetAttributes, Only
<1>9. CASE EnableAttribute(d)
  <2>1. i.Index < HandleCount
    BY <1>9 DEF EnableAttribute, InLoop
  <2>2. Attributes' \in [Bridges -> SUBSET Attr]
    BY <1>1, <1>3, <1>9, <2>1 DEF EnableAttribute
  <2>3. QED
    BY <1>2, <1>3, <1>4, <1>9, <2>1, <2>2 DEF EnableAttribute, InLoop, Only
<1>10. CASE ForwardingDone(d)
  <2>1. PICK s \in Returns :
          Becomes(d, [i EXCEPT !.pc = AfterForwarding(d), !.HandleBuffer = FALSE, !.Status = s])
    BY <1>10 DEF ForwardingDone, Returns
  <2> DEFINE r == [i EXCEPT !.pc = AfterForwarding(d), !.HandleBuffer = FALSE, !.Status = s]
  <2>2. r \in Image /\ r.pc = AfterForwarding(d)
    BY <1>1 DEF Image
  <2> HIDE DEF r
  <2>3. Becomes(d, r)
    BY <2>1 DEF r
  <2>4. QED
    BY <1>1, <1>2, <1>3, <1>10, <2>2, <2>3 DEF ForwardingDone, Only
<1>11. CASE InstallProtocol(d)
  <2> DEFINE r(s) == [i EXCEPT !.pc = "end", !.Status = s]
  <2>1. \A s \in Returns : r(s) \in Image /\ r(s).pc = "end"
    BY <1>1 DEF Image
  <2>2. \E s \in Returns : Becomes(d, r(s))
    BY <1>11 DEF InstallProtocol, Returns
  <2>3. installed' \subseteq LegacyDrivers
    BY <1>3, <1>11 DEF InstallProtocol, TypeInv
  <2>4. QED
    BY <1>2, <1>3, <1>11, <2>1, <2>2, <2>3 DEF InstallProtocol
<1>12. QED
  BY <1>5, <1>6, <1>7, <1>8, <1>9, <1>10, <1>11 DEF Entry

LEMMA TypeInit == Init => TypeInv
<1> SUFFICES ASSUME Init PROVE TypeInv
  OBVIOUS
<1> DEFINE none == [pc |-> "file", Index |-> 0, Attributes |-> {},
                    set |-> {}, HandleBuffer |-> FALSE, Status |-> "SUCCESS"]
<1>1. none \in Image /\ none.pc = "file"
  BY ForwardingAssumption DEF Image, Returns
<1>2. image = [d \in Drivers |-> none]
  BY DEF Init
<1> HIDE DEF none
<1>3. \A d \in Drivers : image[d] = none
  BY <1>2
<1>4. Supports \in [Bridges -> SUBSET Attr] /\ Attributes \in [Bridges -> SUBSET Attr]
  BY DEF Init, Attr
<1>5. loader \in Loader /\ app \in App /\ installed \subseteq LegacyDrivers
  BY DEF Init, Loader, App, Returns
<1>6. QED
  BY <1>1, <1>2, <1>3, <1>4, <1>5 DEF TypeInv, TypeOK, At

(* A driver is started by the dispatcher, by the shell or by the loader.   *)
LEMMA StartTypes ==
  ASSUME TypeInv, NEW d \in Drivers, Starts(d),
         loader' \in Loader, UNCHANGED <<Supports, Attributes, installed, app>>
  PROVE  TypeInv'
<1>1. image \in [Drivers -> Image] /\ image[d] \in Image /\ 0 \in 0 .. HandleCount
  BY ForwardingAssumption DEF TypeInv, TypeOK
<1>2. /\ image' \in [Drivers -> Image] /\ image'[d].pc = "locate"
      /\ \A e \in Drivers \ {d} : image'[e] = image[e]
  BY <1>1 DEF Starts, Image
<1>3. QED
  BY <1>2 DEF TypeInv, TypeOK, At

LEMMA TypeStep == TypeInv /\ [Next]_vars => TypeInv'
<1> SUFFICES ASSUME TypeInv, [Next]_vars PROVE TypeInv'
  OBVIOUS
<1>1. loader \in Loader /\ app \in App /\ image \in [Drivers -> Image] /\ Forwarder \in Drivers
  BY DEF TypeInv, TypeOK, Drivers
<1>2. ASSUME image' = image, Supports' = Supports, installed' = installed,
             Attributes' \in [Bridges -> SUBSET Attr], loader' \in Loader, app' \in App
      PROVE  TypeInv'
  BY <1>2 DEF TypeInv, TypeOK, At
<1>3. Attributes \in [Bridges -> SUBSET Attr]
  BY DEF TypeInv, TypeOK
<1>4. CASE UNCHANGED vars
  BY <1>1, <1>2, <1>3, <1>4 DEF vars
<1>5. ASSUME NEW d \in Drivers, StartDriver(d) PROVE TypeInv'
  BY <1>1, <1>5, StartTypes DEF StartDriver
<1>6. CASE StartImage
  <2>1. loader' \in Loader
    BY <1>1, <1>6 DEF StartImage, LoaderStep, Loader
  <2>2. QED
    BY <1>1, <1>6, <2>1, StartTypes DEF StartImage, LoaderStep
<1>7. CASE LoadDriverFile \/ LoadImage \/ StartImageReturns
  <2>1. image[Forwarder].Status \in Returns
    BY <1>1 DEF Image
  <2>2. loader' \in Loader
    BY <1>1, <1>7, <2>1 DEF LoadDriverFile, LoadImage, StartImageReturns, LoaderStep, Loader, Returns
  <2>3. QED
    BY <1>1, <1>2, <1>3, <1>7, <2>2 DEF LoadDriverFile, LoadImage, StartImageReturns, LoaderStep
<1>8. CASE AppLocate \/ AppOpen \/ AppRead \/ AppWrite
  <2>1. \A Port, Width : /\ Reaches(Port, Width, "read") \subseteq {"read", "write"}
                         /\ Reaches(Port, Width, "write") \subseteq {"read", "write"}
    BY DEF Reaches
  <2>2. CASE AppLocate \/ AppOpen
    <3>1. app' \in App
      BY <1>1, <2>2 DEF AppLocate, AppOpen, AppStep, App, Returns
    <3>2. QED
      BY <1>1, <1>2, <1>3, <2>2, <3>1 DEF AppLocate, AppOpen, AppStep
  <2>3. CASE AppRead
    <3> DEFINE R == Reaches(\h60, 1, "read")
    <3>1. R \in SUBSET {"read", "write"} /\ AppStep([app EXCEPT !.pc = "write", !.reached = @ \cup R])
      <4>1. R \subseteq {"read", "write"}
        BY <2>1
      <4>2. AppStep([app EXCEPT !.pc = "write", !.reached = @ \cup R])
        BY <2>3, Zenon DEF AppRead
      <4>3. QED
        BY <4>1, <4>2
    <3> HIDE DEF R
    <3>2. app' \in App
      BY <1>1, <3>1 DEF AppStep, App
    <3>3. QED
      BY <1>1, <1>2, <1>3, <3>1, <3>2 DEF AppStep
  <2>4. CASE AppWrite
    <3> DEFINE R == Reaches(\h80, 1, "write")
    <3>1. R \in SUBSET {"read", "write"} /\ AppStep([app EXCEPT !.pc = "end", !.HandleBuffer = FALSE, !.reached = @ \cup R])
      <4>1. R \subseteq {"read", "write"}
        BY <2>1
      <4>2. AppStep([app EXCEPT !.pc = "end", !.HandleBuffer = FALSE, !.reached = @ \cup R])
        BY <2>4, Zenon DEF AppWrite
      <4>3. QED
        BY <4>1, <4>2
    <3> HIDE DEF R
    <3>2. app' \in App
      BY <1>1, <3>1 DEF AppStep, App
    <3>3. QED
      BY <1>1, <1>2, <1>3, <3>1, <3>2 DEF AppStep
  <2>5. QED
    BY <1>8, <2>2, <2>3, <2>4
<1>9. CASE Callback
  <2>1. PICK b \in Bridges, x \in OtherAttr :
          /\ Attributes' = [Attributes EXCEPT ![b] = @ \cup {x}]
          /\ UNCHANGED <<Supports, image, installed, loader, app>>
    BY <1>9 DEF Callback
  <2>2. Attributes' \in [Bridges -> SUBSET Attr]
    BY <1>3, <2>1 DEF Attr
  <2>3. QED
    BY <1>1, <1>2, <2>1, <2>2
<1>10. QED
  BY <1>4, <1>5, <1>6, <1>7, <1>8, <1>9, EntryTypes DEF Next, Progress

(* The type invariant, for any number of bridges.                          *)
THEOREM TypeCorrect == Spec => []TypeOK
<1>1. TypeInv => TypeOK
  BY DEF TypeInv
<1>2. QED
  BY <1>1, TypeInit, TypeStep, PTL DEF Spec

-----------------------------------------------------------------------------
(* Safety.                                                                 *)

(* A bridge that forwards goes on forwarding: every write of attributes,   *)
(* the one that writes back what was read before included, has the bit.    *)
LEMMA NoBridgeLosesForwarding ==
  ASSUME TypeInv, [Next]_vars, NEW b \in Bridges, IsaIo \in Attributes[b]
  PROVE  IsaIo \in Attributes'[b]
<1>1. Attributes \in [Bridges -> SUBSET Attr]
  BY DEF TypeInv, TypeOK
<1>2. ASSUME NEW d \in Drivers, SetAttributes(d) \/ EnableAttribute(d)
      PROVE IsaIo \in Attributes'[b]
  BY <1>1, <1>2 DEF SetAttributes, EnableAttribute
<1>3. CASE Callback
  BY <1>1, <1>3 DEF Callback
<1>4. CASE Attributes' = Attributes
  BY <1>4
<1>5. ASSUME NEW d \in Drivers, Entry(d), ~SetAttributes(d), ~EnableAttribute(d)
      PROVE Attributes' = Attributes
  BY <1>5 DEF Entry, LocateBridges, SkipBridge, GetAttributes, ForwardingDone, InstallProtocol
<1>6. QED
  BY <1>2, <1>3, <1>4, <1>5 DEF Next, Progress, StartDriver, LoadDriverFile, LoadImage, StartImage,
     StartImageReturns, LoaderStep, AppLocate, AppOpen, AppRead, AppWrite, AppStep, vars

(* A step of an entry point, seen from the other programs.                 *)
LEMMA EntryElsewhere ==
  ASSUME TypeInv, NEW d \in Drivers, Entry(d)
  PROVE  /\ Running(d) /\ loader' = loader /\ app' = app
         /\ \A e \in Drivers \ {d} : image'[e] = image[e]
<1>1. image \in [Drivers -> Image] /\ image[d] \in Image
  BY ImageFields
<1>2. Running(d) /\ loader' = loader /\ app' = app
  BY DEF Entry, LocateBridges, SkipBridge, GetAttributes, SetAttributes, EnableAttribute,
         ForwardingDone, InstallProtocol, InLoop, Only
<1>3. \E r : Becomes(d, r)
  BY Zenon DEF Entry, LocateBridges, SkipBridge, GetAttributes, SetAttributes, EnableAttribute,
         ForwardingDone, InstallProtocol
<1>4. \A e \in Drivers \ {d} : image'[e] = image[e]
  BY <1>1, <1>3 DEF Becomes
<1>5. QED
  BY <1>2, <1>4

(* ... and what it makes of its own image.                                 *)
LEMMA EntryImage ==
  ASSUME TypeInv, NEW d \in Drivers, ImageInv(d), Entry(d)
  PROVE  ImageInv(d)'
<1> DEFINE i == image[d]
<1>1. /\ i \in Image /\ image \in [Drivers -> Image]
      /\ AfterForwarding(d) = IF d \in LegacyDrivers THEN "install" ELSE "end"
      /\ i.Index < HandleCount => i.Index \in Bridges
      /\ At(d, "set") => i.Index < HandleCount
      /\ Attributes \in [Bridges -> SUBSET Attr]
      /\ i.set \subseteq Bridges
  BY ImageFields DEF Image, TypeInv, TypeOK
<1>2. \A b \in i.set : IsaIo \in Attributes'[b]
  <2>1. [Next]_vars
    BY DEF Next, Progress
  <2>2. QED
    BY <1>1, <2>1, NoBridgeLosesForwarding DEF ImageInv
<1>3. ASSUME NEW r \in Image, Becomes(d, r) PROVE image'[d] = r
  BY <1>1, <1>3 DEF Becomes
<1>4. ASSUME NEW r, image'[d] = r, r.pc \in {"bridge", "set"}, \A b \in r.set : IsaIo \in Attributes'[b]
      PROVE  ImageInv(d)'
  BY <1>4 DEF ImageInv, At
<1>5. CASE LocateBridges(d)
  <2>1. CASE Becomes(d, [i EXCEPT !.pc = AfterForwarding(d), !.Status = "ERROR"])
    <3>1. /\ image'[d].pc \in {"install", "end"} /\ image'[d].Status = "ERROR"
          /\ image'[d].set = i.set /\ image'[d].HandleBuffer = i.HandleBuffer
      BY <1>1, <2>1 DEF Becomes, Image
    <3>2. ~i.HandleBuffer /\ (d \in LegacyDrivers => i.set = {})
      BY <1>5 DEF LocateBridges, At, ImageInv
    <3>3. QED
      BY <1>2, <3>1, <3>2 DEF ImageInv, At
  <2>2. CASE Becomes(d, [i EXCEPT !.pc = "bridge", !.HandleBuffer = TRUE])
    <3>1. image'[d].pc = "bridge" /\ image'[d].set = i.set
      BY <1>1, <2>2 DEF Becomes, Image
    <3>2. QED
      BY <1>2, <1>4, <3>1
  <2>3. QED
    BY <1>5, <2>1, <2>2 DEF LocateBridges
<1>6. CASE SkipBridge(d) \/ GetAttributes(d)
  <2>1. CASE Becomes(d, NextBridge(i))
    <3>1. image'[d].pc = "bridge" /\ image'[d].set = i.set
      BY <1>1, <2>1 DEF Becomes, NextBridge, Image
    <3>2. QED
      BY <1>2, <1>4, <3>1
  <2>2. CASE \E A : Becomes(d, [i EXCEPT !.pc = "set", !.Attributes = A])
    <3>1. image'[d].pc = "set" /\ image'[d].set = i.set
      BY <1>1, <2>2 DEF Becomes, Image
    <3>2. QED
      BY <1>2, <1>4, <3>1
  <2>3. QED
    BY <1>6, <2>1, <2>2, Zenon DEF SkipBridge, GetAttributes
<1>7. CASE SetAttributes(d) \/ EnableAttribute(d)
  <2>1. CASE Becomes(d, NextBridge(i))
    <3>1. image'[d].pc = "bridge" /\ image'[d].set = i.set
      BY <1>1, <2>1 DEF Becomes, NextBridge, Image
    <3>2. QED
      BY <1>2, <1>4, <3>1
  <2>2. CASE ~Becomes(d, NextBridge(i))
    <3>1. Becomes(d, NextBridge(BridgeSet(d))) /\ i.Index < HandleCount
      BY <1>1, <1>7, <2>2 DEF SetAttributes, EnableAttribute, InLoop
    <3>2. image'[d].pc = "bridge" /\ image'[d].set = i.set \cup {i.Index}
      BY <1>1, <3>1 DEF Becomes, NextBridge, BridgeSet, Image
    <3>3. IsaIo \in Attributes'[i.Index]
      BY <1>1, <1>7, <2>2, <3>1 DEF SetAttributes, EnableAttribute
    <3>4. QED
      BY <1>2, <1>4, <3>2, <3>3
  <2>3. QED
    BY <2>1, <2>2
<1>8. CASE ForwardingDone(d)
  <2> DEFINE s == IF d \in LegacyDrivers /\ i.set = {} THEN "UNSUPPORTED" ELSE "SUCCESS"
  <2>1. /\ image'[d].pc = AfterForwarding(d) /\ ~image'[d].HandleBuffer
        /\ image'[d].Status = s /\ image'[d].set = i.set
    BY <1>1, <1>8 DEF ForwardingDone, Becomes, Image
  <2>2. QED
    BY <1>1, <1>2, <2>1 DEF ImageInv, At
<1>9. CASE InstallProtocol(d)
  <2>1. /\ image'[d].pc = "end" /\ image'[d].HandleBuffer = i.HandleBuffer
        /\ image'[d].set = i.set
    <3>1. PICK s : Becomes(d, [i EXCEPT !.pc = "end", !.Status = s])
      BY <1>9, Zenon DEF InstallProtocol
    <3>2. QED
      BY <1>1, <3>1 DEF Becomes, Image
  <2>2. ~i.HandleBuffer
    BY <1>9 DEF InstallProtocol, At, ImageInv
  <2>3. QED
    BY <1>2, <2>1, <2>2 DEF ImageInv, At
<1>10. QED
  BY <1>5, <1>6, <1>7, <1>8, <1>9 DEF Entry

LEMMA ForwardingInit == Init => ForwardingInv
<1> SUFFICES ASSUME Init PROVE ForwardingInv
  OBVIOUS
<1>1. \A d \in Drivers : image[d].pc = "file" /\ image[d].set = {} /\ ~image[d].HandleBuffer
  BY DEF Init
<1>2. /\ loader.pc = "none" /\ ~loader.DriverBuffer
      /\ app.pc = "none" /\ ~app.HandleBuffer
  BY DEF Init
<1>3. QED
  BY <1>1, <1>2, TypeInit DEF ForwardingInv, ImageInv, Turns, ReadReached, At

(* Images that a step leaves alone keep their part of the invariant.       *)
LEMMA ImageKept ==
  ASSUME TypeInv, [Next]_vars, NEW d \in Drivers, ImageInv(d), image'[d] = image[d]
  PROVE  ImageInv(d)'
<1>1. image[d].set \subseteq Bridges
  BY ImageFields DEF Image
<1>2. \A b \in image[d].set : IsaIo \in Attributes'[b]
  BY <1>1, NoBridgeLosesForwarding DEF ImageInv
<1>3. QED
  BY <1>2 DEF ImageInv, At

LEMMA StepEntry ==
  ASSUME ForwardingInv, TypeInv', NEW d \in Drivers, Entry(d)
  PROVE  ForwardingInv'
<1>1. /\ TypeInv /\ [Next]_vars /\ \A e \in Drivers : ImageInv(e)
  BY DEF ForwardingInv, Next, Progress
<1>2. /\ Running(d) /\ loader' = loader /\ app' = app
      /\ \A e \in Drivers \ {d} : image'[e] = image[e]
  BY <1>1, EntryElsewhere
<1>3. \A e \in Drivers : ImageInv(e)'
  BY <1>1, <1>2, EntryImage, ImageKept
<1>4. Turns' /\ ReadReached'
  <2>1. app.pc \in {"none", "end"} /\ loader.pc \notin {"load", "start"}
    BY <1>2 DEF ForwardingInv, Turns
  <2>2. QED
    BY <1>2, <2>1 DEF Turns, ReadReached
<1>5. QED
  BY <1>2, <1>3, <1>4 DEF ForwardingInv

(* A driver that was not running starts, by itself or by the loader.       *)
LEMMA StepStart ==
  ASSUME ForwardingInv, TypeInv', [Next]_vars, NEW d \in Drivers, ~Running(d),
         d \in LegacyDrivers => At(d, "file"), Starts(d), Turns',
         loader'.pc \in {"none", "end"} => ~loader'.DriverBuffer,
         app' = app, app.pc # "write"
  PROVE  ForwardingInv'
<1>1. image \in [Drivers -> Image] /\ image[d] \in Image
  BY ImageFields DEF ForwardingInv
<1>2. /\ image'[d].pc = "locate" /\ image'[d].set = image[d].set
      /\ image'[d].HandleBuffer = image[d].HandleBuffer
      /\ \A e \in Drivers \ {d} : image'[e] = image[e]
  BY <1>1 DEF Starts, Image
<1>3. ImageInv(d)'
  <2>1. ~image[d].HandleBuffer /\ (d \in LegacyDrivers => image[d].set = {})
    BY DEF ForwardingInv, ImageInv, Running, At
  <2>2. \A b \in image[d].set : IsaIo \in Attributes'[b]
    BY <1>1, NoBridgeLosesForwarding DEF ForwardingInv, ImageInv, Image
  <2>3. QED
    BY <1>2, <2>1, <2>2 DEF ImageInv, At
<1>4. \A e \in Drivers : ImageInv(e)'
  BY <1>2, <1>3, ImageKept DEF ForwardingInv
<1>5. QED
  BY <1>4 DEF ForwardingInv, ReadReached

(* No image changes: what is left is the loader's part, or the client's.   *)
LEMMA StepOutside ==
  ASSUME ForwardingInv, TypeInv', [Next]_vars, image' = image, Turns',
         loader'.pc \in {"none", "end"} => ~loader'.DriverBuffer,
         app'.pc \in {"none", "end"} => ~app'.HandleBuffer,
         ReadReached'
  PROVE  ForwardingInv'
<1>1. \A e \in Drivers : ImageInv(e)'
  BY ImageKept DEF ForwardingInv
<1>2. QED
  BY <1>1 DEF ForwardingInv

LEMMA StepLoader ==
  ASSUME ForwardingInv, TypeInv', [Next]_vars, LoadDriverFile \/ LoadImage \/ StartImageReturns
  PROVE  ForwardingInv'
<1>1. /\ image' = image /\ app' = app
      /\ loader \in Loader
  BY DEF LoadDriverFile, LoadImage, StartImageReturns, LoaderStep, ForwardingInv, TypeInv, TypeOK
<1>2. app.pc \in {"none", "end"}
  BY DEF LoadDriverFile, LoadImage, StartImageReturns, Quiet, ForwardingInv, Turns
<1>3. /\ loader'.pc \in {"load", "start", "end"}
      /\ loader'.pc = "end" => ~loader'.DriverBuffer
      /\ loader'.pc \in {"load", "start"} => \A d \in Drivers : ~Running(d)
  <2>1. CASE LoadDriverFile
    BY <1>1, <2>1 DEF LoadDriverFile, LoaderStep, Loader, Quiet, ForwardingInv
  <2>2. CASE LoadImage
    BY <1>1, <2>2 DEF LoadImage, LoaderStep, Loader, ForwardingInv, Turns
  <2>3. CASE StartImageReturns
    BY <1>1, <2>3 DEF StartImageReturns, LoaderStep, Loader
  <2>4. QED
    BY <2>1, <2>2, <2>3
<1>4. Turns'
  BY <1>1, <1>2, <1>3 DEF Turns, Running, At
<1>5. ReadReached' /\ (app'.pc \in {"none", "end"} => ~app'.HandleBuffer)
  BY <1>1, <1>2 DEF ReadReached, ForwardingInv
<1>6. QED
  BY <1>1, <1>3, <1>4, <1>5, StepOutside

(* A bridge that was set forwards, and neither access is refused.          *)
LEMMA AccessesServed ==
  ASSUME ForwardingInv, IsaBridgeSet
  PROVE  Reaches(\h60, 1, "read") = {"read"} /\ Reaches(\h80, 1, "write") = {"write"}
<1>1. Forwarded
  BY DEF ForwardingInv, ImageInv, IsaBridgeSet, Forwarded
<1>2. ~Refuses(\h60, 1) /\ ~Refuses(\h80, 1)
  BY DEF Refuses, IoRangeStart, IoRangeEnd
<1>3. QED
  BY <1>1, <1>2 DEF Reaches

LEMMA StepApp ==
  ASSUME ForwardingInv, TypeInv', [Next]_vars, AppLocate \/ AppOpen \/ AppRead \/ AppWrite
  PROVE  ForwardingInv'
<1>1. /\ image' = image /\ loader' = loader
      /\ app \in App
  BY DEF AppLocate, AppOpen, AppRead, AppWrite, AppStep, ForwardingInv, TypeInv, TypeOK
<1>2. loader.pc \in {"none", "end"} /\ \A d \in Drivers : ~Running(d)
  BY DEF AppLocate, AppOpen, AppRead, AppWrite, Quiet, ForwardingInv, Turns
<1>3. Turns'
  BY <1>1, <1>2 DEF Turns, Running
<1>4. CASE AppLocate \/ AppOpen
  <2>1. /\ app'.pc \in {"open", "read", "end"}
        /\ app'.pc = "end" => ~app'.HandleBuffer
    <3>1. CASE AppLocate
      <4>1. app.HandleBuffer = FALSE /\ app.pc = "none"
        BY <1>1, <3>1 DEF AppLocate, App, ForwardingInv
      <4>2. \/ app' = [app EXCEPT !.pc = "end", !.Status = "ERROR"]
            \/ app' = [app EXCEPT !.pc = "open", !.HandleBuffer = TRUE]
        BY <3>1, Zenon DEF AppLocate, AppStep
      <4>3. QED
        BY <1>1, <4>1, <4>2 DEF App
    <3>2. CASE AppOpen
      BY <1>1, <3>2 DEF AppOpen, AppStep, App
    <3>3. QED
      BY <1>4, <3>1, <3>2
  <2>2. QED
    BY <1>1, <1>3, <2>1, StepOutside DEF ForwardingInv, ReadReached
<1>5. CASE AppRead
  <2>1. /\ app'.pc = "write" /\ app'.reached = app.reached \cup Reaches(\h60, 1, "read")
    BY <1>1, <1>5 DEF AppRead, AppStep, App
  <2>2. ReadReached'
    BY <1>1, <2>1, AccessesServed DEF ReadReached, IsaBridgeSet
  <2>3. QED
    BY <1>1, <1>3, <2>1, <2>2, StepOutside DEF ForwardingInv
<1>6. CASE AppWrite
  <2>1. app'.pc = "end" /\ ~app'.HandleBuffer
    BY <1>1, <1>6 DEF AppWrite, AppStep, App
  <2>2. QED
    BY <1>1, <1>3, <2>1, StepOutside DEF ForwardingInv, ReadReached
<1>7. QED
  BY <1>4, <1>5, <1>6

LEMMA ForwardingStep == ForwardingInv /\ [Next]_vars => ForwardingInv'
<1> SUFFICES ASSUME ForwardingInv, [Next]_vars PROVE ForwardingInv'
  OBVIOUS
<1>1. TypeInv'
  BY TypeStep DEF ForwardingInv
<1>2. ASSUME UNCHANGED <<image, loader, app>> PROVE ForwardingInv'
  BY <1>1, <1>2, StepOutside DEF ForwardingInv, Turns, Running, At, ReadReached, IsaBridgeSet
<1>3. CASE UNCHANGED vars \/ Callback
  BY <1>2, <1>3 DEF vars, Callback
<1>4. ASSUME NEW d \in Drivers, StartDriver(d) PROVE ForwardingInv'
  <2>1. Turns' /\ app.pc # "write" /\ ~Running(d)
    BY <1>4 DEF StartDriver, Quiet, Turns
  <2>2. QED
    BY <1>1, <1>4, <2>1, StepStart DEF StartDriver, ForwardingInv
<1>5. CASE StartImage
  <2>1. /\ loader'.pc = "wait" /\ ~Running(Forwarder) /\ app' = app
        /\ Forwarder \in Drivers /\ Forwarder \notin LegacyDrivers
    BY <1>5 DEF StartImage, LoaderStep, ForwardingInv, TypeInv, TypeOK, Loader, Turns, Drivers,
                Forwarder, LegacyDrivers
  <2>2. Turns' /\ app.pc # "write"
    BY <1>5, <2>1 DEF StartImage, ForwardingInv, Turns
  <2>3. QED
    BY <1>1, <1>5, <2>1, <2>2, StepStart DEF StartImage, LoaderStep
<1>6. CASE LoadDriverFile \/ LoadImage \/ StartImageReturns
  BY <1>1, <1>6, StepLoader
<1>7. CASE AppLocate \/ AppOpen \/ AppRead \/ AppWrite
  BY <1>1, <1>7, StepApp
<1>8. QED
  BY <1>1, <1>3, <1>4, <1>5, <1>6, <1>7, StepEntry DEF Next, Progress

-----------------------------------------------------------------------------
(* For any number of bridges.                                              *)

(* Everything below holds in every execution.                              *)
THEOREM ForwardingInvariant == Spec => []ForwardingInv
BY ForwardingInit, ForwardingStep, PTL DEF Spec

(* A bridge on which an entry point turned forwarding on stays on, although*)
(* the legacy drivers write back attributes they read some steps before    *)
(* and other firmware writes attributes in between.                        *)
THEOREM BridgesStayOn == Spec => []ForwardingStays
<1>1. ForwardingInv => ForwardingStays
  BY DEF ForwardingInv, ImageInv, ForwardingStays
<1>2. QED
  BY <1>1, ForwardingInvariant, PTL

(* EnableIoForwarding returns EFI_SUCCESS exactly when a bridge it set     *)
(* forwards ISA I/O, whichever bridges failed on the way.                  *)
THEOREM ReportTrue == Spec => []ReportIsTrue
<1>1. ForwardingInv => ReportIsTrue
  <2> SUFFICES ASSUME ForwardingInv, NEW d \in LegacyDrivers, At(d, "install")
               PROVE  image[d].Status = "SUCCESS" <=> \E b \in image[d].set : IsaIo \in Attributes[b]
    BY DEF ReportIsTrue
  <2>1. d \in Drivers
    BY DEF Drivers
  <2>2. QED
    BY <2>1 DEF ForwardingInv, ImageInv
<1>2. QED
  BY <1>1, ForwardingInvariant, PTL

(* Entry points, loader and client give back their pool memory on every    *)
(* path to their end.                                                      *)
THEOREM MemoryReturned == Spec => []PoolReturned
<1>1. ForwardingInv => PoolReturned
  BY DEF ForwardingInv, ImageInv, At, PoolReturned
<1>2. QED
  BY <1>1, ForwardingInvariant, PTL

(* Once any driver has set the bridge above the ISA bus, the read and the  *)
(* write of the client reach the bus, through whichever driver's protocol  *)
(* it opened and whatever was written to the attributes since.             *)
THEOREM ClientReachesBus == Spec => AccessesReachBus
<1> DEFINE Reach == app.pc = "write" /\ app'.pc = "end" /\ IsaBridgeSet
                      => app'.reached = {"read", "write"}
<1>1. ForwardingInv /\ [Next]_vars => Reach
  <2> SUFFICES ASSUME ForwardingInv, [Next]_vars, app.pc = "write", app'.pc = "end", IsaBridgeSet
               PROVE  app'.reached = {"read", "write"}
    OBVIOUS
  <2>1. app \in App /\ "read" \in app.reached
    BY DEF ForwardingInv, TypeInv, TypeOK, ReadReached
  <2>2. CASE AppWrite
    <3>1. app'.reached = app.reached \cup {"write"}
      BY <2>1, <2>2, AccessesServed DEF AppWrite, AppStep, App
    <3>2. QED
      BY <2>1, <3>1 DEF App
  <2>3. CASE app' = app
    BY <2>3
  <2>4. ASSUME NEW d \in Drivers, Entry(d) PROVE app' = app
    BY <2>4, EntryElsewhere DEF ForwardingInv
  <2>5. QED
    BY <2>2, <2>3, <2>4 DEF Next, Progress, StartDriver, LoadDriverFile, LoadImage, StartImage,
       StartImageReturns, LoaderStep, AppLocate, AppOpen, AppRead, Callback, Quiet, vars
<1> HIDE DEF Reach
<1>2. Spec => [][Reach]_vars
  BY <1>1, ForwardingInvariant, PTL DEF Spec
<1>3. QED
  BY <1>2, PTL DEF AccessesReachBus, Reach
=============================================================================
