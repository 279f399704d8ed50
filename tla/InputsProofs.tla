-------------------------------- MODULE InputsProofs ------------------------------
(***************************************************************************)
(* What is proved of the inputs (MCInputs): the invariant of the hardware  *)
(* layer (Hal), of the button manager, of the clock manager and of the     *)
(* JSON codec (Json), none of which another part of the composition        *)
(* touches, and from them what the IO expander promises of its tables and  *)
(* pins, the button manager of its parts, the clock manager of its         *)
(* parameters and its synchronization, and the codec of its trees, ids and *)
(* slots, and of the size of its text.                                     *)
(***************************************************************************)
EXTENDS MCInputs, FiniteSetTheorems, SequenceTheorems, WellFoundedInduction, TLAPS

----------------------------------------------------------------------------
(* The hardware layer.                                                     *)

PinRecords ==
  [opened : BOOLEAN, handler : BOOLEAN, irq : BOOLEAN, dir : {"in", "out"},
   level : Hal!Levels]

HalTyped ==
  /\ pins \in [Hal!Pins -> PinRecords]
  /\ written \in [Hal!Pins -> Hal!Levels \cup {"none"}]
  /\ entries \in [Hal!HalHandles -> Nat]

\* What the expander has open is all it has to close.
NothingLeaks ==
  "ioexp" \in up => Hal!Used \subseteq stuck \cup {devInfo[d] : d \in Hal!Devices}

\* A pin that is known to be as it was given is an output, and has the level of
\* its value.
AsWritten ==
  \A p \in Hal!Pins : written[p] # "none" =>
     pins[p].dir = "out" /\ pins[p].level = Hal!Level(p, written[p])

HalIInv ==
  /\ HalTyped /\ NothingLeaks
  /\ Hal!EntriesAreTheDevices /\ Hal!ClosedPinsAreQuiet /\ AsWritten

\* What a step may do to a pin: nothing to its level and direction but make it
\* an output, or give it a value, or leave nothing known of it.
StaysAsWritten(p) ==
  \/ /\ pins'[p].level = pins[p].level /\ pins'[p].dir \in {pins[p].dir, "out"}
     /\ written'[p] = written[p]
  \/ written'[p] = "none"
  \/ pins'[p].dir = "out" /\ pins'[p].level = Hal!Level(p, written'[p])

LEMMA HalInitOK == Hal!HalInit => HalIInv
<1>. SUFFICES ASSUME Hal!HalInit PROVE HalIInv
  OBVIOUS
<1>. DEFINE r == [opened |-> FALSE, handler |-> FALSE, irq |-> FALSE, dir |-> "in", level |-> "low"]
<1>1. /\ up = {} /\ entries = [h \in Hal!HalHandles |-> 0]
      /\ pins = [p \in Hal!Pins |-> r]
      /\ written = [p \in Hal!Pins |-> "none"]
  BY DEF Hal!HalInit
<1>2. r \in PinRecords
  BY DEF PinRecords, Hal!Levels
<1>3. HalTyped
  BY <1>1, <1>2 DEF HalTyped
<1>4. NothingLeaks /\ Hal!EntriesAreTheDevices
  BY <1>1 DEF NothingLeaks, Hal!EntriesAreTheDevices, Hal!Used
<1>5. Hal!ClosedPinsAreQuiet /\ AsWritten
  BY <1>1 DEF Hal!ClosedPinsAreQuiet, AsWritten
<1>6. QED
  BY <1>3, <1>4, <1>5 DEF HalIInv

\* The two levels, and what a pin reads of the level it was given.
LEMMA LevelIs ==
  ASSUME NEW v \in Hal!Levels, NEW q
  PROVE  /\ Hal!Level(q, v) \in Hal!Levels
         /\ Hal!Level(q, v) = IF q \in Reversed THEN (IF v = "low" THEN "high" ELSE "low") ELSE v
<1>1. (CHOOSE l \in Hal!Levels : l # v) \in Hal!Levels /\ (CHOOSE l \in Hal!Levels : l # v) # v
  BY DEF Hal!Levels
<1>2. QED
  BY <1>1 DEF Hal!Level, Hal!Levels

\* Read and Level undo each other.
LEMMA ReadIs ==
  ASSUME NEW p \in Hal!Pins, NEW v \in Hal!Levels, pins[p].dir = "out",
         pins[p].level = Hal!Level(p, v)
  PROVE  Hal!HalIoexpRead(p) = {v}
<1>. DEFINE Other(u) == CHOOSE l \in Hal!Levels : l # u
<1>1. \A u \in Hal!Levels : Other(u) = IF u = "low" THEN "high" ELSE "low"
  BY DEF Hal!Levels
<1>2. Hal!Level(p, v) = IF p \in Reversed THEN Other(v) ELSE v
  BY DEF Hal!Level
<1>3. pins[p].level \in Hal!Levels
  BY LevelIs
<1>4. Hal!HalIoexpRead(p) =
        {u \in Hal!Levels : u = IF p \in Reversed THEN Other(pins[p].level) ELSE pins[p].level}
  BY DEF Hal!HalIoexpRead
<1>. HIDE DEF Other
<1>5. (IF p \in Reversed THEN Other(pins[p].level) ELSE pins[p].level) = v
  BY <1>1, <1>2, <1>3 DEF Hal!Levels
<1>6. QED
  BY <1>4, <1>5

LEMMA ReadsBack ==
  ASSUME HalIInv
  PROVE  Hal!ReadsBackWhatWasWritten
<1>1. SUFFICES ASSUME NEW p \in Hal!Pins, written[p] # "none"
               PROVE  Hal!HalIoexpRead(p) = {written[p]}
  BY DEF Hal!ReadsBackWhatWasWritten
<1>2. written[p] \in Hal!Levels
  BY <1>1 DEF HalIInv, HalTyped
<1>3. pins[p].dir = "out" /\ pins[p].level = Hal!Level(p, written[p])
  BY <1>1 DEF HalIInv, AsWritten
<1>4. QED
  BY <1>2, <1>3, ReadIs

LEMMA WrittenStays ==
  ASSUME AsWritten, \A p \in Hal!Pins : StaysAsWritten(p)
  PROVE  AsWritten'
  BY DEF AsWritten, StaysAsWritten, Hal!Level, Hal!Levels, Hal!Pins

\* A step that leaves the tables alone.
LEMMA SameTables ==
  ASSUME HalIInv, UNCHANGED <<entries, stuck, devInfo>>, 
         {"driver", "ioexp"} \cap up' = {"driver", "ioexp"} \cap up
  PROVE  NothingLeaks' /\ Hal!EntriesAreTheDevices'
<1>1. ("ioexp" \in up' <=> "ioexp" \in up) /\ ("driver" \in up' <=> "driver" \in up)
  OBVIOUS
<1>2. QED
  BY <1>1 DEF HalIInv, NothingLeaks, Hal!EntriesAreTheDevices, Hal!Used

\* A step of the pins alone: a pin that is closed is quiet.
LEMMA PinsKeep ==
  ASSUME HalIInv, UNCHANGED <<entries, stuck, devInfo>>,
         {"driver", "ioexp"} \cap up' = {"driver", "ioexp"} \cap up,
         HalTyped',
         \A p \in Hal!Pins :
            pins'[p].irq => pins'[p].opened /\ pins'[p].handler /\ "ioexp" \in up,
         \A p \in Hal!Pins : StaysAsWritten(p)
  PROVE  HalIInv'
<1>1. NothingLeaks' /\ Hal!EntriesAreTheDevices'
  BY SameTables
<1>2. AsWritten'
  BY WrittenStays DEF HalIInv
<1>3. Hal!ClosedPinsAreQuiet'
  BY DEF Hal!ClosedPinsAreQuiet
<1>4. QED
  BY <1>1, <1>2, <1>3 DEF HalIInv

\* A step of the tables alone.
LEMMA TablesKeep ==
  ASSUME HalIInv, UNCHANGED <<pins, written>>, "ioexp" \in up => "ioexp" \in up',
         entries' \in [Hal!HalHandles -> Nat], NothingLeaks', Hal!EntriesAreTheDevices'
  PROVE  HalIInv'
<1>1. HalTyped'
  BY DEF HalIInv, HalTyped
<1>2. Hal!ClosedPinsAreQuiet'
  BY DEF HalIInv, Hal!ClosedPinsAreQuiet
<1>3. AsWritten'
  BY DEF HalIInv, AsWritten
<1>4. QED
  BY <1>1, <1>2, <1>3 DEF HalIInv

LEMMA HalDriverKeeps ==
  HalIInv /\ (Hal!HalDriverInitialize \/ Hal!HalDriverFinalize
              \/ \E d \in Hal!Devices : Hal!HalDriverAddDriver(d)) => HalIInv'
<1>1. CASE HalIInv /\ Hal!HalDriverInitialize
  <2>1. /\ entries' = [h \in Hal!HalHandles |-> 0] /\ "ioexp" \notin up
        /\ up' = up \cup {"driver"} /\ UNCHANGED <<pins, written>>
    BY <1>1 DEF Hal!HalDriverInitialize
  <2>2. NothingLeaks' /\ Hal!EntriesAreTheDevices' /\ entries' \in [Hal!HalHandles -> Nat]
    BY <2>1 DEF NothingLeaks, Hal!EntriesAreTheDevices, Hal!Used
  <2>3. QED
    BY <1>1, <2>1, <2>2, TablesKeep
<1>2. CASE HalIInv /\ Hal!HalDriverFinalize
  <2>1. /\ entries' = [h \in Hal!HalHandles |-> 0]
        /\ up' = up \ {"driver"} /\ UNCHANGED <<pins, written>>
    BY <1>2 DEF Hal!HalDriverFinalize
  <2>2. NothingLeaks' /\ Hal!EntriesAreTheDevices' /\ entries' \in [Hal!HalHandles -> Nat]
    BY <2>1 DEF NothingLeaks, Hal!EntriesAreTheDevices, Hal!Used
  <2>3. QED
    BY <1>2, <2>1, <2>2, TablesKeep
<1>3. CASE HalIInv /\ \E d \in Hal!Devices : Hal!HalDriverAddDriver(d)
  <2>1. UNCHANGED <<up, entries, stuck, devInfo, pins, written>>
    BY <1>3 DEF Hal!HalDriverAddDriver
  <2>2. entries' \in [Hal!HalHandles -> Nat]
    BY <1>3, <2>1 DEF HalIInv, HalTyped
  <2>3. QED
    BY <1>3, <2>1, <2>2, SameTables, TablesKeep
<1>4. QED
  BY <1>1, <1>2, <1>3

\* A pin with one field after another changed.
LEMMA PinIs ==
  ASSUME NEW r \in PinRecords
  PROVE  /\ Hal!Closed(r) \in PinRecords /\ ~Hal!Closed(r).irq
         /\ Hal!Closed(r).level = r.level /\ Hal!Closed(r).dir = r.dir
         /\ [r EXCEPT !.opened = FALSE, !.handler = FALSE] \in PinRecords
         /\ [r EXCEPT !.opened = TRUE] \in PinRecords
         /\ [r EXCEPT !.opened = TRUE, !.dir = "out"] \in PinRecords
         /\ [r EXCEPT !.irq = TRUE, !.handler = TRUE] \in PinRecords
         /\ [r EXCEPT !.irq = FALSE, !.handler = FALSE] \in PinRecords
         /\ \A dir \in {"in", "out"} : [r EXCEPT !.dir = dir] \in PinRecords
         /\ \A l \in Hal!Levels : [r EXCEPT !.level = l] \in PinRecords
  BY DEF PinRecords, Hal!Closed

\* A call that changes one pin.
LEMMA OnPinKeeps ==
  ASSUME HalIInv, NEW p \in Hal!Pins, NEW new \in PinRecords, Hal!OnPin(p, new),
         new.irq => new.opened /\ new.handler /\ "ioexp" \in up,
         written' \in [Hal!Pins -> Hal!Levels \cup {"none"}],
         \A q \in Hal!Pins : q # p => written'[q] = written[q],
         \/ /\ new.level = pins[p].level /\ new.dir \in {pins[p].dir, "out"}
            /\ written'[p] = written[p]
         \/ written'[p] = "none"
         \/ new.dir = "out" /\ new.level = Hal!Level(p, written'[p])
  PROVE  HalIInv'
<1>1. /\ pins' = [pins EXCEPT ![p] = new] /\ UNCHANGED <<up, entries, stuck, devInfo>>
      /\ pins \in [Hal!Pins -> PinRecords]
  BY DEF Hal!OnPin, HalIInv, HalTyped
<1>2. pins' \in [Hal!Pins -> PinRecords] /\ pins'[p] = new
      /\ \A q \in Hal!Pins : q # p => pins'[q] = pins[q]
  BY <1>1
<1>3. HalTyped'
  BY <1>1, <1>2 DEF HalIInv, HalTyped
<1>4. \A q \in Hal!Pins : pins'[q].irq => pins'[q].opened /\ pins'[q].handler /\ "ioexp" \in up
  BY <1>2 DEF HalIInv, Hal!ClosedPinsAreQuiet
<1>5. ASSUME NEW q \in Hal!Pins
      PROVE  StaysAsWritten(q)
  <2>1. CASE q # p
    BY <1>2, <2>1 DEF StaysAsWritten
  <2>2. CASE q = p
    BY <1>2, <2>2 DEF StaysAsWritten
  <2>3. QED
    BY <2>1, <2>2
<1>6. QED
  BY <1>1, <1>3, <1>4, <1>5, PinsKeep

\* The calls on one pin.
LEMMA PinCallKeeps ==
  ASSUME HalIInv, NEW p \in Hal!Pins,
         \/ Hal!HalIoexpOpen(p) \/ Hal!HalIoexpClose(p)
         \/ Hal!HalIoexpRegisterIrqHandler(p) \/ Hal!HalIoexpUnregisterIrqHandler(p)
         \/ \E dir \in {"in", "out"} : Hal!HalIoexpSetConfigure(p, dir)
  PROVE  HalIInv'
<1>. DEFINE r == pins[p]
<1>1. /\ r \in PinRecords
      /\ r.irq => r.opened /\ r.handler /\ "ioexp" \in up
      /\ written \in [Hal!Pins -> Hal!Levels \cup {"none"}]
  BY DEF HalIInv, HalTyped, Hal!ClosedPinsAreQuiet
<1>. HIDE DEF r
<1>2. CASE Hal!HalIoexpOpen(p)
  <2>. DEFINE new == [r EXCEPT !.opened = TRUE]
  <2>1. /\ new \in PinRecords /\ new.level = r.level /\ new.dir = r.dir
        /\ new.irq => new.opened /\ new.handler /\ "ioexp" \in up
    BY <1>1, PinIs DEF PinRecords
  <2>2. Hal!OnPin(p, new) /\ UNCHANGED written
    BY <1>2 DEF Hal!HalIoexpOpen, r
  <2>. HIDE DEF new
  <2>3. QED
    BY <1>1, <2>1, <2>2, OnPinKeeps DEF r
<1>3. CASE Hal!HalIoexpClose(p)
  <2>. DEFINE new == Hal!Closed(r)
  <2>1. new \in PinRecords /\ new.level = r.level /\ new.dir = r.dir /\ ~new.irq
    BY <1>1, PinIs
  <2>2. Hal!OnPin(p, new) /\ UNCHANGED written
    BY <1>3 DEF Hal!HalIoexpClose, r
  <2>. HIDE DEF new
  <2>3. QED
    BY <1>1, <2>1, <2>2, OnPinKeeps DEF r
<1>4. CASE Hal!HalIoexpRegisterIrqHandler(p)
  <2>. DEFINE new == [r EXCEPT !.irq = TRUE, !.handler = TRUE]
  <2>0. r.opened /\ "ioexp" \in up
    BY <1>4 DEF Hal!HalIoexpRegisterIrqHandler, Hal!Changes, Hal!IsValidHandle, r
  <2>1. /\ new \in PinRecords /\ new.level = r.level /\ new.dir = r.dir
        /\ new.opened /\ new.handler /\ "ioexp" \in up
    BY <1>1, <2>0 DEF PinRecords
  <2>2. Hal!OnPin(p, new) /\ UNCHANGED written
    BY <1>4 DEF Hal!HalIoexpRegisterIrqHandler, r
  <2>. HIDE DEF new
  <2>3. QED
    BY <1>1, <2>1, <2>2, OnPinKeeps DEF r
<1>5. CASE Hal!HalIoexpUnregisterIrqHandler(p)
  <2>. DEFINE new == [r EXCEPT !.irq = FALSE, !.handler = FALSE]
  <2>1. new \in PinRecords /\ new.level = r.level /\ new.dir = r.dir /\ ~new.irq
    BY <1>1 DEF PinRecords
  <2>2. Hal!OnPin(p, new) /\ UNCHANGED written
    BY <1>5 DEF Hal!HalIoexpUnregisterIrqHandler, r
  <2>. HIDE DEF new
  <2>3. QED
    BY <1>1, <2>1, <2>2, OnPinKeeps DEF r
<1>6. CASE \E dir \in {"in", "out"} : Hal!HalIoexpSetConfigure(p, dir)
  <2>0. PICK d \in {"in", "out"} : Hal!HalIoexpSetConfigure(p, d)
    BY <1>6
  <2>1. PICK e \in {"in", "out"} :
           /\ Hal!OnPin(p, [r EXCEPT !.dir = e])
           /\ written' = [written EXCEPT ![p] = IF e = "in" THEN "none" ELSE @]
    BY <2>0 DEF Hal!HalIoexpSetConfigure, r
  <2>. DEFINE new == [r EXCEPT !.dir = e]
  <2>2. /\ new \in PinRecords /\ new.level = r.level /\ new.dir = e
        /\ new.irq => new.opened /\ new.handler /\ "ioexp" \in up
    BY <1>1 DEF PinRecords
  <2>3. /\ Hal!OnPin(p, new)
        /\ written' \in [Hal!Pins -> Hal!Levels \cup {"none"}]
        /\ \A q \in Hal!Pins : q # p => written'[q] = written[q]
        /\ written'[p] = IF e = "in" THEN "none" ELSE written[p]
    BY <1>1, <2>1
  <2>. HIDE DEF new
  <2>4. CASE e = "in"
    BY <2>2, <2>3, <2>4, OnPinKeeps
  <2>5. CASE e = "out"
    <3>1. written'[p] = written[p] /\ new.dir = "out"
      BY <2>2, <2>3, <2>5
    <3>2. QED
      BY <2>2, <2>3, <3>1, OnPinKeeps DEF r
  <2>6. QED
    BY <2>4, <2>5
<1>7. QED
  BY <1>2, <1>3, <1>4, <1>5, <1>6

\* The tables after the handles hs were closed, those in bad excepted: an
\* entry is left only if it is stuck, provided that hs are all that were not.
LEMMA CloseKeeps ==
  ASSUME NEW tab \in [Hal!HalHandles -> Nat], NEW hs, Hal!DeleteAllDevInfo(tab, hs),
         \A h \in Hal!HalHandles : tab[h] # 0 => h \in stuck \/ h \in hs
  PROVE  Hal!Used' \subseteq stuck' /\ entries' \in [Hal!HalHandles -> Nat]
<1>1. PICK bad \in SUBSET {h \in hs : tab[h] # 0} :
         /\ entries' = Hal!HalDriverClose(tab, hs, bad)
         /\ stuck' = {h \in stuck \cup bad : entries'[h] # 0}
  BY DEF Hal!DeleteAllDevInfo
<1>2. entries' = [h \in Hal!HalHandles |-> IF h \in hs \ bad THEN 0 ELSE tab[h]]
  BY <1>1 DEF Hal!HalDriverClose
<1>3. entries' \in [Hal!HalHandles -> Nat]
  BY <1>2
<1>4. ASSUME NEW h \in Hal!HalHandles, entries'[h] # 0
      PROVE  h \in stuck'
  <2>1. h \notin hs \ bad /\ tab[h] # 0
    BY <1>2, <1>4
  <2>2. QED
    BY <1>1, <1>4, <2>1
<1>5. Hal!Used' \subseteq stuck'
  BY <1>4 DEF Hal!Used
<1>6. QED
  BY <1>3, <1>5

\* The list of pins is made anew, of pins that were quiet.
LEMMA IoexpListKeeps ==
  ASSUME HalIInv, "ioexp" \notin up, pins' = Hal!IoexpList, UNCHANGED written,
         entries' \in [Hal!HalHandles -> Nat]
  PROVE  /\ HalTyped' /\ Hal!ClosedPinsAreQuiet' /\ AsWritten'
<1>1. /\ pins \in [Hal!Pins -> PinRecords]
      /\ \A p \in Hal!Pins : ~pins[p].irq
  BY DEF HalIInv, HalTyped, Hal!ClosedPinsAreQuiet
<1>. DEFINE new(r) == [r EXCEPT !.opened = FALSE, !.handler = FALSE]
<1>2. \A r \in PinRecords : /\ new(r) \in PinRecords /\ new(r).level = r.level
                             /\ new(r).irq = r.irq /\ new(r).dir = r.dir
  BY DEF PinRecords
<1>3. pins' = [p \in Hal!Pins |-> new(pins[p])]
  BY DEF Hal!IoexpList
<1>. HIDE DEF new
<1>4. pins' \in [Hal!Pins -> PinRecords]
      /\ \A p \in Hal!Pins : /\ ~pins'[p].irq /\ pins'[p].level = pins[p].level
                             /\ pins'[p].dir = pins[p].dir
  BY <1>1, <1>2, <1>3
<1>5. HalTyped'
  BY <1>4 DEF HalIInv, HalTyped
<1>6. AsWritten'
  <2>1. \A p \in Hal!Pins : StaysAsWritten(p)
    BY <1>4 DEF StaysAsWritten
  <2>2. QED
    BY <2>1, WrittenStays DEF HalIInv
<1>7. QED
  BY <1>4, <1>5, <1>6 DEF Hal!ClosedPinsAreQuiet

LEMMA IoexpInitializeKeeps ==
  ASSUME HalIInv, Hal!HalIoexpInitialize
  PROVE  HalIInv'
<1>1. /\ "ioexp" \notin up /\ pins' = Hal!IoexpList /\ UNCHANGED written
      /\ \E n \in 0..NDevices : Hal!InitDeviceInfoAndList(n)
  BY DEF Hal!HalIoexpInitialize
<1>2. PICK n \in 0..NDevices : Hal!InitDeviceInfoAndList(n)
  BY <1>1
<1>. DEFINE Mine(opened) == {opened[d] : d \in 0..n - 1}
            Table(opened) == [h \in Hal!HalHandles |->
                                IF h \in Mine(opened)
                                THEN (CHOOSE d \in 0..n - 1 : opened[d] = h) + 1
                                ELSE entries[h]]
<1>3. PICK opened \in Hal!HalDriverOpen(n) :
         \/ /\ n = NDevices
            /\ entries' = Table(opened) /\ devInfo' = opened
            /\ up' = up \cup {"ioexp"}
            /\ UNCHANGED stuck
         \/ /\ \E garbage \in SUBSET Hal!Used :
                  Hal!DeleteAllDevInfo(Table(opened), Mine(opened) \cup garbage)
            /\ UNCHANGED up
  BY <1>2 DEF Hal!InitDeviceInfoAndList
<1>. DEFINE mine == Mine(opened)
            tab == Table(opened)
<1>4. /\ opened \in [0..n - 1 -> Hal!HalHandles \ Hal!Used]
      /\ \A c, d \in 0..n - 1 : opened[c] = opened[d] => c = d
  BY DEF Hal!HalDriverOpen
<1>5. \A d \in 0..n - 1 : (CHOOSE c \in 0..n - 1 : opened[c] = opened[d]) = d
  BY <1>4
<1>6. ASSUME NEW h \in mine
      PROVE  /\ (CHOOSE d \in 0..n - 1 : opened[d] = h) \in 0..n - 1
             /\ h \in Hal!HalHandles
  BY <1>4
<1>7. entries \in [Hal!HalHandles -> Nat] /\ Hal!Used \subseteq stuck
  BY <1>1 DEF HalIInv, HalTyped, Hal!EntriesAreTheDevices
<1>8. tab \in [Hal!HalHandles -> Nat]
  BY <1>6, <1>7
<1>9. \A h \in Hal!HalHandles : tab[h] # 0 => h \in stuck \/ h \in mine
  BY <1>7 DEF Hal!Used
<1>10. \A d \in 0..n - 1 : opened[d] \in Hal!HalHandles /\ tab[opened[d]] = d + 1
  BY <1>4, <1>5
<1>. HIDE DEF tab, mine, Table, Mine
<1>11. CASE /\ n = NDevices
            /\ entries' = Table(opened) /\ devInfo' = opened
            /\ up' = up \cup {"ioexp"}
            /\ UNCHANGED stuck
  <2>1. entries' = tab
    BY <1>11 DEF tab
  <2>2. \A d \in Hal!Devices : devInfo'[d] \in Hal!HalHandles /\ entries'[devInfo'[d]] = d + 1
    BY <1>10, <1>11, <2>1 DEF Hal!Devices
  <2>3. Hal!EntriesAreTheDevices'
    BY <1>11, <2>2 DEF Hal!EntriesAreTheDevices
  <2>4. mine = {devInfo'[d] : d \in Hal!Devices}
    BY <1>11 DEF mine, Mine, Hal!Devices
  <2>5. NothingLeaks'
    BY <1>9, <1>11, <2>1, <2>4 DEF NothingLeaks, Hal!Used
  <2>6. QED
    BY <1>1, <1>8, <2>1, <2>3, <2>5, IoexpListKeeps DEF HalIInv
<1>12. CASE /\ \E garbage \in SUBSET Hal!Used :
                  Hal!DeleteAllDevInfo(Table(opened), Mine(opened) \cup garbage)
            /\ UNCHANGED up
  <2>1. PICK garbage : Hal!DeleteAllDevInfo(tab, mine \cup garbage)
    BY <1>12 DEF tab, mine
  <2>2. Hal!Used' \subseteq stuck' /\ entries' \in [Hal!HalHandles -> Nat]
    BY <1>8, <1>9, <2>1, CloseKeeps
  <2>3. NothingLeaks' /\ Hal!EntriesAreTheDevices'
    BY <1>1, <1>12, <2>2 DEF NothingLeaks, Hal!EntriesAreTheDevices
  <2>4. QED
    BY <1>1, <2>2, <2>3, IoexpListKeeps DEF HalIInv
<1>13. QED
  BY <1>3, <1>11, <1>12

\* Pins that are closed or stay as they are.
LEMMA ClosingKeeps ==
  ASSUME HalIInv, UNCHANGED written, entries' \in [Hal!HalHandles -> Nat],
         NEW S, pins' = [p \in Hal!Pins |-> IF p \in S THEN Hal!Closed(pins[p]) ELSE pins[p]]
  PROVE  /\ HalTyped' /\ AsWritten'
         /\ \A p \in Hal!Pins : pins'[p].irq =>
              p \notin S /\ pins'[p].opened /\ pins'[p].handler /\ "ioexp" \in up
<1>1. pins \in [Hal!Pins -> PinRecords]
  BY DEF HalIInv, HalTyped
<1>2. ASSUME NEW p \in Hal!Pins
      PROVE  /\ pins'[p] \in PinRecords /\ pins'[p].level = pins[p].level
             /\ pins'[p].dir = pins[p].dir
             /\ p \in S => ~pins'[p].irq
             /\ p \notin S => pins'[p] = pins[p]
  BY <1>1, PinIs
<1>3. HalTyped'
  <2>1. pins' \in [Hal!Pins -> PinRecords]
    BY <1>2
  <2>2. QED
    BY <2>1 DEF HalIInv, HalTyped
<1>4. AsWritten'
  <2>1. \A p \in Hal!Pins : StaysAsWritten(p)
    BY <1>2 DEF StaysAsWritten
  <2>2. QED
    BY <2>1, WrittenStays DEF HalIInv
<1>5. QED
  BY <1>2, <1>3, <1>4 DEF HalIInv, Hal!ClosedPinsAreQuiet

LEMMA IoexpFinalizeKeeps ==
  ASSUME HalIInv, Hal!HalIoexpFinalize
  PROVE  HalIInv'
<1>1. "ioexp" \in up /\ UNCHANGED written
  BY DEF Hal!HalIoexpFinalize
<1>2. CASE /\ up' = up \ {"ioexp"}
           /\ pins' = [p \in Hal!Pins |-> Hal!Closed(pins[p])]
           /\ Hal!DeleteAllDevInfo(entries, {devInfo[d] : d \in Hal!Devices})
  <2>1. /\ entries \in [Hal!HalHandles -> Nat]
        /\ \A h \in Hal!HalHandles :
             entries[h] # 0 => h \in stuck \/ h \in {devInfo[d] : d \in Hal!Devices}
    BY <1>1 DEF HalIInv, HalTyped, NothingLeaks, Hal!Used
  <2>2. Hal!Used' \subseteq stuck' /\ entries' \in [Hal!HalHandles -> Nat]
    BY <1>2, <2>1, CloseKeeps
  <2>3. NothingLeaks' /\ Hal!EntriesAreTheDevices'
    BY <1>2, <2>2 DEF NothingLeaks, Hal!EntriesAreTheDevices
  <2>4. pins' = [p \in Hal!Pins |-> IF p \in Hal!Pins THEN Hal!Closed(pins[p]) ELSE pins[p]]
    BY <1>2
  <2>5. /\ HalTyped' /\ AsWritten'
        /\ \A p \in Hal!Pins : pins'[p].irq => p \notin Hal!Pins
    BY <1>1, <2>2, <2>4, ClosingKeeps
  <2>6. Hal!ClosedPinsAreQuiet'
    BY <2>5 DEF Hal!ClosedPinsAreQuiet
  <2>7. QED
    BY <2>3, <2>5, <2>6 DEF HalIInv
<1>3. CASE /\ UNCHANGED <<up, entries, stuck, devInfo>>
           /\ \E stop \in Hal!Pins :
                pins' = [p \in Hal!Pins |-> IF p < stop THEN Hal!Closed(pins[p]) ELSE pins[p]]
  <2>1. PICK stop \in Hal!Pins :
           pins' = [p \in Hal!Pins |-> IF p < stop THEN Hal!Closed(pins[p]) ELSE pins[p]]
    BY <1>3
  <2>. DEFINE S == {p \in Hal!Pins : p < stop}
  <2>2. pins' = [p \in Hal!Pins |-> IF p \in S THEN Hal!Closed(pins[p]) ELSE pins[p]]
    BY <2>1
  <2>. HIDE DEF S
  <2>3. entries' \in [Hal!HalHandles -> Nat]
    BY <1>3 DEF HalIInv, HalTyped
  <2>4. /\ HalTyped' /\ AsWritten'
        /\ \A p \in Hal!Pins : pins'[p].irq => pins'[p].opened /\ pins'[p].handler
    BY <1>1, <2>2, <2>3, ClosingKeeps
  <2>5. Hal!ClosedPinsAreQuiet'
    BY <1>1, <1>3, <2>4 DEF Hal!ClosedPinsAreQuiet
  <2>6. NothingLeaks' /\ Hal!EntriesAreTheDevices'
    BY <1>3, SameTables
  <2>7. QED
    BY <2>4, <2>5, <2>6 DEF HalIInv
<1>4. QED
  BY <1>2, <1>3 DEF Hal!HalIoexpFinalize

\* The pins of the LED.
LEMMA LedInitializeKeeps ==
  ASSUME HalIInv, Hal!PlLedHwInitialize
  PROVE  HalIInv'
<1>1. PICK ready \in SUBSET LedPins, last \in SUBSET LedPins, outs \in SUBSET LedPins :
         /\ outs \subseteq last
         /\ \A p \in ready \cup last : "ioexp" \in up /\ ~pins[p].opened
         /\ up' = up \cup {"led"} \/ UNCHANGED up
         /\ pins' = [p \in Hal!Pins |->
                       IF p \in ready \cup outs
                       THEN [pins[p] EXCEPT !.opened = TRUE, !.dir = "out"]
                       ELSE IF p \in last THEN [pins[p] EXCEPT !.opened = TRUE]
                       ELSE pins[p]]
         /\ UNCHANGED <<entries, stuck, devInfo, written>>
  BY DEF Hal!PlLedHwInitialize
<1>2. pins \in [Hal!Pins -> PinRecords]
  BY DEF HalIInv, HalTyped
<1>3. ASSUME NEW r \in PinRecords
      PROVE  /\ [r EXCEPT !.opened = TRUE, !.dir = "out"] \in PinRecords
             /\ [r EXCEPT !.opened = TRUE] \in PinRecords
             /\ [r EXCEPT !.opened = TRUE, !.dir = "out"].level = r.level
             /\ [r EXCEPT !.opened = TRUE].level = r.level
             /\ [r EXCEPT !.opened = TRUE, !.dir = "out"].irq = r.irq
             /\ [r EXCEPT !.opened = TRUE].irq = r.irq
             /\ [r EXCEPT !.opened = TRUE, !.dir = "out"].dir = "out"
             /\ [r EXCEPT !.opened = TRUE].dir = r.dir
  BY DEF PinRecords
<1>. DEFINE mine == ready \cup last
<1>4. ASSUME NEW p \in Hal!Pins
      PROVE  /\ pins'[p] \in PinRecords /\ pins'[p].level = pins[p].level
             /\ pins'[p].dir \in {pins[p].dir, "out"}
             /\ p \in mine => ~pins'[p].irq
             /\ p \notin mine => pins'[p] = pins[p]
  <2>1. pins[p] \in PinRecords
    BY <1>2
  <2>2. p \in mine => ~pins[p].irq
    BY <1>1 DEF HalIInv, Hal!ClosedPinsAreQuiet
  <2>3. CASE p \in ready \cup outs
    <3>1. pins'[p] = [pins[p] EXCEPT !.opened = TRUE, !.dir = "out"] /\ p \in mine
      BY <1>1, <2>3
    <3>. HIDE DEF mine
    <3>2. QED
      BY <1>3, <2>1, <2>2, <3>1
  <2>4. CASE p \notin ready \cup outs /\ p \in last
    <3>1. pins'[p] = [pins[p] EXCEPT !.opened = TRUE] /\ p \in mine
      BY <1>1, <2>4
    <3>. HIDE DEF mine
    <3>2. QED
      BY <1>3, <2>1, <2>2, <3>1
  <2>5. CASE p \notin mine
    BY <1>1, <2>1, <2>5
  <2>6. QED
    BY <2>3, <2>4, <2>5
<1>5. pins' \in [Hal!Pins -> PinRecords]
  BY <1>1, <1>4
<1>. HIDE DEF mine
<1>6. HalTyped'
  BY <1>1, <1>5 DEF HalIInv, HalTyped
<1>7. \A p \in Hal!Pins : pins'[p].irq => pins'[p].opened /\ pins'[p].handler /\ "ioexp" \in up
  BY <1>4 DEF HalIInv, Hal!ClosedPinsAreQuiet
<1>8. {"driver", "ioexp"} \cap up' = {"driver", "ioexp"} \cap up
  BY <1>1
<1>9. \A p \in Hal!Pins : StaysAsWritten(p)
  BY <1>1, <1>4 DEF StaysAsWritten
<1>10. QED
  BY <1>1, <1>6, <1>7, <1>8, <1>9, PinsKeep

LEMMA LedFinalizeKeeps ==
  ASSUME HalIInv, Hal!PlLedHwFinalize
  PROVE  HalIInv'
<1>. DEFINE S == {p \in Hal!Pins : p \in held /\ Hal!HalIoexpClose_(p)}
<1>1. /\ up' = up \ {"led"} /\ UNCHANGED <<entries, stuck, devInfo, written>>
      /\ pins' = [p \in Hal!Pins |-> IF p \in S THEN Hal!Closed(pins[p]) ELSE pins[p]]
  BY DEF Hal!PlLedHwFinalize
<1>. HIDE DEF S
<1>2. entries' \in [Hal!HalHandles -> Nat]
  BY <1>1 DEF HalIInv, HalTyped
<1>3. /\ HalTyped' /\ AsWritten'
      /\ \A p \in Hal!Pins :
           pins'[p].irq => pins'[p].opened /\ pins'[p].handler /\ "ioexp" \in up
  BY <1>1, <1>2, ClosingKeeps
<1>4. {"driver", "ioexp"} \cap up' = {"driver", "ioexp"} \cap up
  BY <1>1
<1>5. Hal!ClosedPinsAreQuiet'
  BY <1>1, <1>3 DEF Hal!ClosedPinsAreQuiet
<1>6. NothingLeaks' /\ Hal!EntriesAreTheDevices'
  BY <1>1, <1>4, SameTables
<1>7. QED
  BY <1>3, <1>5, <1>6 DEF HalIInv

\* What both writes do, of the pins S.
LEMMA GivesKeeps ==
  ASSUME HalIInv, NEW S, NEW values \in [S -> Hal!Levels],
         NEW reached \in SUBSET S, Hal!Gives(values, reached)
  PROVE  HalIInv'
<1>1. /\ UNCHANGED <<up, entries, stuck, devInfo>>
      /\ \A p \in S : pins[p].dir = "out"
  BY DEF Hal!Gives, Hal!HalIoexpGetConfigure
<1>0. DOMAIN values = S
  OBVIOUS
<1>2. PICK done \in {reached, {}}, level \in [S -> Hal!Levels] :
         /\ \A p \in done : level[p] = Hal!Level(p, values[p])
         /\ pins' = [p \in Hal!Pins |-> IF p \in S THEN [pins[p] EXCEPT !.level = level[p]]
                                        ELSE pins[p]]
         /\ written' = [p \in Hal!Pins |-> IF p \in done THEN values[p]
                                           ELSE IF p \in S THEN "none" ELSE written[p]]
  <2>1. PICK done \in {reached, {}}, level \in [DOMAIN values -> Hal!Levels] :
           /\ \A p \in done : level[p] = Hal!Level(p, values[p])
           /\ pins' = [p \in Hal!Pins |-> IF p \in DOMAIN values
                                          THEN [pins[p] EXCEPT !.level = level[p]]
                                          ELSE pins[p]]
           /\ written' = [p \in Hal!Pins |-> IF p \in done THEN values[p]
                                             ELSE IF p \in DOMAIN values THEN "none"
                                             ELSE written[p]]
    BY DEF Hal!Gives
  <2>2. level \in [S -> Hal!Levels]
    BY <1>0
  <2>3. /\ pins' = [p \in Hal!Pins |-> IF p \in S THEN [pins[p] EXCEPT !.level = level[p]]
                                       ELSE pins[p]]
        /\ written' = [p \in Hal!Pins |-> IF p \in done THEN values[p]
                                          ELSE IF p \in S THEN "none" ELSE written[p]]
    BY <1>0, <2>1
  <2>4. QED
    BY <2>1, <2>2, <2>3
<1>3. /\ pins \in [Hal!Pins -> PinRecords]
      /\ written \in [Hal!Pins -> Hal!Levels \cup {"none"}]
      /\ done \subseteq S
  BY DEF HalIInv, HalTyped
<1>4. ASSUME NEW r \in PinRecords, NEW l \in Hal!Levels
      PROVE  /\ [r EXCEPT !.level = l] \in PinRecords /\ [r EXCEPT !.level = l].level = l
             /\ [r EXCEPT !.level = l].irq = r.irq /\ [r EXCEPT !.level = l].opened = r.opened
             /\ [r EXCEPT !.level = l].handler = r.handler
             /\ [r EXCEPT !.level = l].dir = r.dir
  BY DEF PinRecords
<1>5. ASSUME NEW p \in Hal!Pins
      PROVE  /\ pins'[p] \in PinRecords /\ written'[p] \in Hal!Levels \cup {"none"}
             /\ pins'[p].irq = pins[p].irq /\ pins'[p].opened = pins[p].opened
             /\ pins'[p].handler = pins[p].handler
             /\ StaysAsWritten(p)
  <2>1. CASE p \notin S
    <3>1. pins'[p] = pins[p] /\ written'[p] = written[p]
      BY <1>2, <1>3, <2>1
    <3>2. QED
      BY <1>3, <3>1 DEF StaysAsWritten
  <2>2. CASE p \in S
    <3>1. /\ pins'[p] = [pins[p] EXCEPT !.level = level[p]]
          /\ pins[p] \in PinRecords /\ level[p] \in Hal!Levels
          /\ written'[p] = IF p \in done THEN values[p] ELSE "none"
      BY <1>2, <1>3, <2>2
    <3>2. /\ pins'[p] \in PinRecords /\ pins'[p].level = level[p]
          /\ pins'[p].irq = pins[p].irq /\ pins'[p].opened = pins[p].opened
          /\ pins'[p].handler = pins[p].handler /\ pins'[p].dir = "out"
      BY <1>1, <1>4, <2>2, <3>1
    <3>3. CASE p \in done
      <4>1. written'[p] = values[p] /\ values[p] \in Hal!Levels
        BY <2>2, <3>1, <3>3
      <4>2. pins'[p].level = Hal!Level(p, written'[p])
        BY <1>2, <3>2, <3>3, <4>1
      <4>3. QED
        BY <3>2, <4>1, <4>2 DEF StaysAsWritten
    <3>4. CASE p \notin done
      BY <3>1, <3>2, <3>4 DEF StaysAsWritten
    <3>5. QED
      BY <3>3, <3>4
  <2>3. QED
    BY <2>1, <2>2
<1>6. pins' \in [Hal!Pins -> PinRecords]
  BY <1>2, <1>5
<1>7. written' \in [Hal!Pins -> Hal!Levels \cup {"none"}]
  BY <1>2, <1>5
<1>8. HalTyped'
  BY <1>1, <1>6, <1>7 DEF HalIInv, HalTyped
<1>9. \A p \in Hal!Pins : pins'[p].irq => pins'[p].opened /\ pins'[p].handler /\ "ioexp" \in up
  BY <1>5 DEF HalIInv, Hal!ClosedPinsAreQuiet
<1>10. QED
  BY <1>1, <1>5, <1>8, <1>9, PinsKeep

\* One pin, and every colour, Off among them.
LEMMA WriteKeeps ==
  ASSUME HalIInv, NEW p \in Hal!Pins, NEW value \in Hal!Levels, Hal!HalIoexpWrite(p, value)
  PROVE  HalIInv'
<1>. DEFINE values == [q \in {p} |-> value]
<1>1. values \in [{p} -> Hal!Levels] /\ {p} \in SUBSET {p}
  OBVIOUS
<1>2. Hal!Gives(values, {p})
  BY DEF Hal!HalIoexpWrite
<1>. HIDE DEF values
<1>3. QED
  BY <1>1, <1>2, GivesKeeps

LEMMA WriteMultiKeeps ==
  ASSUME HalIInv, NEW values \in [LedPins -> Hal!Levels], Hal!HalIoexpWriteMulti(values)
  PROVE  HalIInv'
<1>1. PICK reached \in SUBSET LedPins : Hal!Gives(values, reached)
  BY DEF Hal!HalIoexpWriteMulti
<1>2. QED
  BY <1>1, GivesKeeps

LEMMA HalNextKeeps == HalIInv /\ Hal!HalNext => HalIInv'
<1>. SUFFICES ASSUME HalIInv, Hal!HalNext PROVE HalIInv'
  OBVIOUS
<1>1. CASE Hal!HalDriverInitialize \/ Hal!HalDriverFinalize
           \/ \E d \in Hal!Devices : Hal!HalDriverAddDriver(d)
  BY <1>1, HalDriverKeeps
<1>2. CASE Hal!HalIoexpInitialize \/ Hal!HalIoexpFinalize
  BY <1>2, IoexpInitializeKeeps, IoexpFinalizeKeeps
<1>3. ASSUME NEW p \in Hal!Pins,
             \/ Hal!HalIoexpOpen(p) \/ Hal!HalIoexpClose(p)
             \/ Hal!HalIoexpRegisterIrqHandler(p) \/ Hal!HalIoexpUnregisterIrqHandler(p)
             \/ \E dir \in {"in", "out"} : Hal!HalIoexpSetConfigure(p, dir)
      PROVE  HalIInv'
  BY <1>3, PinCallKeeps
<1>3a. ASSUME NEW p \in Hal!Pins, NEW value \in Hal!Levels, Hal!HalIoexpWrite(p, value)
       PROVE  HalIInv'
  BY <1>3a, WriteKeeps
<1>4. CASE Hal!PlLedHwInitialize \/ Hal!PlLedHwFinalize
  BY <1>4, LedInitializeKeeps, LedFinalizeKeeps
<1>5. ASSUME NEW color \in [LedPins -> Hal!Levels], Hal!PlLedHwOn(color)
      PROVE  HalIInv'
  BY <1>5, WriteMultiKeeps DEF Hal!PlLedHwOn
<1>6. CASE Hal!PlLedHwOff
  <2>. DEFINE off == [p \in LedPins |-> "low"]
  <2>1. off \in [LedPins -> Hal!Levels]
    BY DEF Hal!Levels
  <2>2. Hal!PlLedHwOn(off)
    BY <1>6 DEF Hal!PlLedHwOff
  <2>. HIDE DEF off
  <2>3. QED
    BY <2>1, <2>2, <1>5
<1>7. QED
  BY <1>1, <1>2, <1>3, <1>3a, <1>4, <1>5, <1>6 DEF Hal!HalNext

\* The other parts leave the hardware layer alone.
LEMMA HalStays == HalIInv /\ UNCHANGED halVars => HalIInv'
<1>. SUFFICES ASSUME HalIInv, UNCHANGED halVars PROVE HalIInv'
  OBVIOUS
<1>1. UNCHANGED <<up, entries, stuck, devInfo, pins, written>>
  BY DEF halVars
<1>2. HalTyped' /\ NothingLeaks'
  BY <1>1 DEF HalIInv, HalTyped, NothingLeaks, Hal!Used
<1>3. Hal!EntriesAreTheDevices' /\ Hal!ClosedPinsAreQuiet'
  BY <1>1 DEF HalIInv, Hal!EntriesAreTheDevices, Hal!ClosedPinsAreQuiet, Hal!Used
<1>4. AsWritten'
  BY <1>1 DEF HalIInv, AsWritten
<1>5. QED
  BY <1>2, <1>3, <1>4 DEF HalIInv

LEMMA HalHolds == Spec => []HalIInv
<1>1. Init => HalIInv
  BY HalInitOK DEF Init
<1>2. HalIInv /\ [Next]_vars => HalIInv'
  <2>1. ASSUME HalIInv, Next PROVE HalIInv'
    BY <2>1, HalNextKeeps, HalStays DEF Next, InButton, InClock, InHal, InJson
  <2>2. ASSUME HalIInv, UNCHANGED vars PROVE HalIInv'
    BY <2>2, HalStays DEF vars
  <2>3. QED
    BY <2>1, <2>2
<1>3. QED
  BY <1>1, <1>2, PTL DEF Spec

\* While the IO expander is up every device it was configured with has an
\* entry of its own in the driver's table, and no pin that is closed is
\* watched for an edge (hal_ioexp.c, hal_driver.c), whatever handle could not
\* be closed and however often the layers went up and down before.
THEOREM SpecTablesAgree == Spec => []TablesAgree
<1>1. HalIInv => TablesAgree
  BY DEF HalIInv, TablesAgree, Hal!TablesAgree
<1>2. QED
  BY <1>1, HalHolds, PTL

\* Of a pin that was given a value and stayed an output since, HalIoexpRead
\* answers that value and no other, on the pins that are wired the other way
\* round too, whether one write gave it or an array of which the pin is on the
\* device of the first (hal_ioexp.c), for any pins and devices.
THEOREM SpecReadsBackWhatWasWritten == Spec => []ReadsBackWhatWasWritten
<1>1. HalIInv => ReadsBackWhatWasWritten
  BY ReadsBack DEF ReadsBackWhatWasWritten
<1>2. QED
  BY <1>1, HalHolds, PTL

----------------------------------------------------------------------------
(* The button manager.                                                     *)

Statuses == {"Pressed", "Released"}
Messages == Statuses \cup {"LongPressed", "CloseThread"}
HandleData == [enabled : BOOLEAN, kinds : SUBSET Button!Kinds, time : Nat]

\* What a queue says of the pin: nothing, or that it is s.
NoStatus(q) == \A k \in DOMAIN q : q[k] \notin Statuses
LastIs(q, s) ==
  \E k \in DOMAIN q : q[k] = s /\ \A j \in DOMAIN q : j > k => q[j] \notin Statuses
NoCloseThread(q) == \A k \in DOMAIN q : q[k] # "CloseThread"

\* The calls of the manager by how far they are.
Starting == {"initialize", "register", "timers"} \cup Statuses
Stopping == {"unset detection", "close thread", "join"}
Stopped == {"pl finalize", "pl join", "close queue"}
Running == bcall = Button!NoCall /\ bopen
Listening == Running \/ bcall \in Statuses \cup {"timers"}
Quiet == bthread = "none" /\ btimer = "none" /\ ~bfired
QuietOrStray ==
  bthread \in {"none", "stray"} /\ (btimer = "stray" \/ (btimer = "none" /\ ~bfired))

ButtonTyped ==
  /\ bopen \in BOOLEAN
  /\ bstate \in Statuses \cup {"Unknown", "LongPressed"}
  /\ btimer \in {"none", "off", "on", "stray"} /\ bfired \in BOOLEAN
  /\ bthread \in {"none", "wait", "event", "calls", "ended", "stray"}
  /\ pin \in Statuses
  /\ pl \in {"closed", "open", "halfway"} /\ plcallback \in BOOLEAN
  /\ plthread \in {"none", "wait", "ended"} \cup Statuses

QueuesTyped ==
  /\ bqueue = Button!NoQueue \/ bqueue \in Seq(Messages)
  /\ edges \in Seq(Statuses)

HandlesTyped == \A i \in DOMAIN handles : handles[i] \in HandleData

\* What each call relies on when it goes on, and what it leaves behind.
StagesAreKept ==
  /\ bcall \in {Button!NoCall, "delete timer"} \cup Starting \cup Stopping \cup Stopped
  /\ bcall = Button!NoCall /\ ~bopen => bqueue = Button!NoQueue /\ QuietOrStray /\ pl # "open"
  /\ Running => bthread \in {"wait", "event", "calls"} /\ btimer # "none"
  /\ ~Running => DOMAIN handles = {}
  /\ bcall # Button!NoCall \/ bopen => bqueue # Button!NoQueue
  /\ bcall \in Starting => Quiet /\ ~bopen
  /\ bcall \in Stopped => QuietOrStray
  /\ bcall \in {"initialize", "close queue"} => pl # "open"
  /\ bcall = "register" => ~plcallback /\ edges = <<>> /\ plthread = "wait"
  /\ Listening => plcallback
  /\ Listening \/ bcall \in Stopping \cup {"register", "delete timer", "pl finalize"}
       => pl = "open"
  /\ bcall = "pl join" => pl = "halfway" /\ ~plcallback /\ edges = <<>>
  /\ bfired => btimer # "none"
  /\ bcall \in Starting \cup {Button!NoCall} => NoCloseThread(bqueue)

DriverIsKept ==
  /\ pl = "closed" => plthread = "none" /\ ~plcallback /\ edges = <<>>
  /\ pl = "open" => plthread \in {"wait"} \cup Statuses

\* The time of a handle that calls nobody is not counted, and a hold that is
\* over leaves no time.
TimesAreKept ==
  /\ \A i \in DOMAIN handles :
       ~handles[i].enabled \/ handles[i].kinds = {} => handles[i].time = 0
  /\ bstate = "Released" /\ bthread \notin {"event", "calls"} =>
       \A i \in DOMAIN handles : handles[i].time = 0
  /\ bstate = "Unknown" =>
       /\ \A i \in DOMAIN handles : handles[i].time = 0
       /\ btimer # "on" /\ bthread \notin {"event", "calls"}

\* What the manager's thread made of the messages it took.
Handled ==
  IF bthread = "event" /\ bstate \in Statuses THEN bstate
  ELSE IF btimer = "on" THEN "Pressed" ELSE "Released"

TimerRefused == "timer" \in astray /\ ~(bthread = "event" /\ bstate \in Statuses)

\* The last news of the pin, wherever it is on its way from the hardware to
\* the timer, is what the pin is, unless it was lost or the timer refused it.
LastNewsIsThePin ==
  Listening =>
    /\ edges # <<>> => edges[Len(edges)] = pin
    /\ edges = <<>> /\ plthread \in Statuses => plthread = pin
    /\ edges = <<>> /\ plthread = "wait" /\ "edge" \notin astray =>
         /\ bcall \in Statuses => bcall = pin
         /\ bcall \notin Statuses =>
              \/ LastIs(bqueue, pin)
              \/ /\ Running /\ NoStatus(bqueue)
                 /\ Handled = pin \/ TimerRefused

ButtonIInv ==
  /\ ButtonTyped /\ QueuesTyped /\ HandlesTyped
  /\ StagesAreKept /\ DriverIsKept /\ TimesAreKept /\ LastNewsIsThePin

LEMMA NoQueueIsNone == Button!NoQueue \notin Seq(Messages) /\ Button!NoQueue # <<>>
<1>1. Button!NoQueue[1] = "closed" /\ Len(Button!NoQueue) = 1
  BY DEF Button!NoQueue
<1>2. QED
  BY <1>1 DEF Messages, Statuses

LEMMA NoCloseThreadInNoQueue == NoCloseThread(Button!NoQueue)
<1>1. Button!NoQueue \in Seq({"closed"})
  BY DEF Button!NoQueue
<1>2. \A k \in DOMAIN Button!NoQueue : Button!NoQueue[k] = "closed"
  BY <1>1
<1>3. QED
  BY <1>2 DEF NoCloseThread

\* A message at the end of a queue.
LEMMA QueueAppend ==
  ASSUME NEW q \in Seq(Messages), NEW m \in Messages
  PROVE  /\ Append(q, m) \in Seq(Messages) /\ Append(q, m) # Button!NoQueue
         /\ m \in Statuses => LastIs(Append(q, m), m)
         /\ m \notin Statuses /\ NoStatus(q) => NoStatus(Append(q, m))
         /\ m \notin Statuses => \A s : LastIs(q, s) => LastIs(Append(q, m), s)
         /\ m # "CloseThread" /\ NoCloseThread(q) => NoCloseThread(Append(q, m))
<1>. DEFINE r == Append(q, m)
<1>1. /\ r \in Seq(Messages) /\ Len(r) = Len(q) + 1 /\ r[Len(q) + 1] = m
      /\ \A k \in 1..Len(q) : r[k] = q[k]
      /\ DOMAIN r = 1..Len(q) + 1 /\ DOMAIN q = 1..Len(q) /\ Len(q) \in Nat
  OBVIOUS
<1>. HIDE DEF r
<1>2. r # Button!NoQueue
  BY <1>1, NoQueueIsNone
<1>3. ASSUME m \in Statuses PROVE LastIs(r, m)
  BY <1>1 DEF LastIs
<1>4. ASSUME m \notin Statuses, NoStatus(q) PROVE NoStatus(r)
  BY <1>1, <1>4 DEF NoStatus
<1>5. ASSUME m \notin Statuses, NEW s, LastIs(q, s) PROVE LastIs(r, s)
  <2>1. PICK k \in 1..Len(q) :
           q[k] = s /\ \A j \in 1..Len(q) : j > k => q[j] \notin Statuses
    BY <1>1, <1>5 DEF LastIs
  <2>2. \A j \in DOMAIN r : j > k => r[j] \notin Statuses
    BY <1>1, <1>5, <2>1
  <2>3. QED
    BY <1>1, <2>1, <2>2 DEF LastIs
<1>6. ASSUME m # "CloseThread", NoCloseThread(q) PROVE NoCloseThread(r)
  BY <1>1, <1>6 DEF NoCloseThread
<1>7. QED
  BY <1>1, <1>2, <1>3, <1>4, <1>5, <1>6 DEF r

\* A message that was sent.
SentMessage(m) == bqueue # Button!NoQueue /\ bqueue' = Append(bqueue, m)

LEMMA QueueSent ==
  ASSUME QueuesTyped, NEW m \in Messages, SentMessage(m)
  PROVE  /\ bqueue' \in Seq(Messages) /\ bqueue' # Button!NoQueue
         /\ m \in Statuses => LastIs(bqueue', m)
         /\ m \notin Statuses /\ NoStatus(bqueue) => NoStatus(bqueue')
         /\ m \notin Statuses => \A s : LastIs(bqueue, s) => LastIs(bqueue', s)
         /\ m # "CloseThread" /\ NoCloseThread(bqueue) => NoCloseThread(bqueue')
<1>1. bqueue \in Seq(Messages) /\ bqueue' = Append(bqueue, m)
  BY DEF SentMessage, QueuesTyped
<1>2. QED
  BY <1>1, QueueAppend

\* The first message of a queue is taken.
LEMMA QueueTail ==
  ASSUME NEW q \in Seq(Messages), q # <<>>
  PROVE  /\ Tail(q) \in Seq(Messages) /\ Tail(q) # Button!NoQueue /\ Head(q) \in Messages
         /\ NoStatus(q) => Head(q) \notin Statuses /\ NoStatus(Tail(q))
         /\ \A s : LastIs(q, s) => \/ LastIs(Tail(q), s)
                                   \/ Head(q) = s /\ NoStatus(Tail(q))
         /\ NoCloseThread(q) => Head(q) # "CloseThread" /\ NoCloseThread(Tail(q))
<1>. DEFINE r == Tail(q)
<1>1. /\ r \in Seq(Messages) /\ Len(r) = Len(q) - 1 /\ Head(q) = q[1] /\ q[1] \in Messages
      /\ \A k \in 1..Len(q) - 1 : r[k] = q[k + 1]
      /\ DOMAIN r = 1..Len(q) - 1 /\ DOMAIN q = 1..Len(q) /\ Len(q) \in Nat /\ Len(q) > 0
  OBVIOUS
<1>. HIDE DEF r
<1>2. r # Button!NoQueue
  BY <1>1, NoQueueIsNone
<1>3. ASSUME NoStatus(q) PROVE Head(q) \notin Statuses /\ NoStatus(r)
  BY <1>1, <1>3 DEF NoStatus
<1>4. ASSUME NEW s, LastIs(q, s) PROVE LastIs(r, s) \/ (Head(q) = s /\ NoStatus(r))
  <2>1. PICK k \in 1..Len(q) :
           q[k] = s /\ \A j \in 1..Len(q) : j > k => q[j] \notin Statuses
    BY <1>1, <1>4 DEF LastIs
  <2>2. CASE k = 1
    <3>1. \A j \in 1..Len(q) - 1 : r[j] \notin Statuses
      BY <1>1, <2>1, <2>2
    <3>2. QED
      BY <1>1, <2>1, <2>2, <3>1 DEF NoStatus
  <2>3. CASE k # 1
    <3>1. k - 1 \in 1..Len(q) - 1 /\ r[k - 1] = s
      BY <1>1, <2>1, <2>3
    <3>2. \A j \in 1..Len(q) - 1 : j > k - 1 => r[j] \notin Statuses
      BY <1>1, <2>1
    <3>3. QED
      BY <1>1, <3>1, <3>2 DEF LastIs
  <2>4. QED
    BY <2>2, <2>3
<1>5. ASSUME NoCloseThread(q) PROVE Head(q) # "CloseThread" /\ NoCloseThread(r)
  BY <1>1, <1>5 DEF NoCloseThread
<1>6. QED
  BY <1>1, <1>2, <1>3, <1>4, <1>5 DEF r

LEMMA ButtonInitOK == Button!Init => ButtonIInv
<1>. SUFFICES ASSUME Button!Init PROVE ButtonIInv
  OBVIOUS
<1>. USE DEF Button!Init, Button!NoCall
<1>1. DOMAIN handles = {}
  OBVIOUS
<1>2. ButtonTyped
  BY DEF ButtonTyped, Statuses
<1>3. QueuesTyped /\ HandlesTyped
  BY <1>1 DEF QueuesTyped, HandlesTyped
<1>4. NoCloseThread(bqueue)
  BY DEF NoCloseThread, Button!NoQueue
<1>5. StagesAreKept
  BY <1>1, <1>4 DEF StagesAreKept, QuietOrStray, Quiet, Running, Listening, Starting, Stopping, Stopped,
    Statuses
<1>6. DriverIsKept /\ TimesAreKept /\ LastNewsIsThePin
  BY <1>1 DEF DriverIsKept, TimesAreKept, LastNewsIsThePin, Listening, Running, Statuses
<1>7. QED
  BY <1>2, <1>3, <1>5, <1>6 DEF ButtonIInv

LEMMA EdgeKeeps ==
  ASSUME ButtonIInv, Button!Edge
  PROVE  ButtonIInv'
<1>. USE DEF Button!Edge, Button!managerVars, Button!plVars, Button!NoCall,
  Button!Works, Button!Fails, Button!CanSend, Button!Sent, Button!NotSent
<1>0. /\ ButtonTyped /\ QueuesTyped /\ HandlesTyped
      /\ StagesAreKept /\ DriverIsKept /\ TimesAreKept /\ LastNewsIsThePin
  BY DEF ButtonIInv
<1>a. pin' \in Statuses /\ edges \in Seq(Statuses)
  BY <1>0 DEF ButtonTyped, QueuesTyped, Statuses
<1>b. /\ Append(edges, pin') \in Seq(Statuses) /\ Append(edges, pin') # <<>>
      /\ Append(edges, pin')[Len(Append(edges, pin'))] = pin'
  <2>. HIDE DEF Button!Edge
  <2>1. Len(Append(edges, pin')) = Len(edges) + 1 /\ Len(edges) \in Nat
        /\ Append(edges, pin')[Len(edges) + 1] = pin'
    BY <1>a
  <2>2. QED
    BY <1>a, <2>1
<1>1. ButtonTyped'
  BY <1>0 DEF ButtonTyped, Messages, Statuses
<1>2. QueuesTyped'
  BY <1>0, <1>b DEF QueuesTyped
<1>3. HandlesTyped'
  BY <1>0 DEF HandlesTyped
<1>4. StagesAreKept'
  BY <1>0 DEF StagesAreKept, QuietOrStray, Quiet, Running, Listening, Starting, Stopping, Stopped, Statuses
<1>5. DriverIsKept'
  BY <1>0 DEF ButtonTyped, StagesAreKept, DriverIsKept, QuietOrStray, Quiet, Running, Listening, Starting,
     Stopping, Stopped, Statuses
<1>6. TimesAreKept'
  BY <1>0 DEF ButtonTyped, StagesAreKept, TimesAreKept, QuietOrStray, Quiet, Running, Starting, Statuses
<1>7. LastNewsIsThePin'
  <2>1. Listening => edges' = Append(edges, pin')
    BY <1>0 DEF StagesAreKept
  <2>2. QED
    BY <1>b, <2>1 DEF LastNewsIsThePin, Listening, Running
<1>8. QED
  BY <1>1, <1>2, <1>3, <1>4, <1>5, <1>6, <1>7 DEF ButtonIInv

LEMMA ButtonCallbackThreadKeeps ==
  ASSUME ButtonIInv, Button!ButtonCallbackThread
  PROVE  ButtonIInv'
<1>. USE DEF Button!ButtonCallbackThread, Button!managerVars, Button!plVars, Button!NoCall,
  Button!Works, Button!Fails, Button!CanSend, Button!Sent, Button!NotSent
<1>0. /\ ButtonTyped /\ QueuesTyped /\ HandlesTyped
      /\ StagesAreKept /\ DriverIsKept /\ TimesAreKept /\ LastNewsIsThePin
  BY DEF ButtonIInv
<1>a. ASSUME edges # <<>>
      PROVE  /\ Tail(edges) \in Seq(Statuses) /\ Head(edges) \in Statuses
             /\ Tail(edges) = <<>> => Head(edges) = edges[Len(edges)]
             /\ Tail(edges) # <<>> => Tail(edges)[Len(Tail(edges))] = edges[Len(edges)]
  <2>. HIDE DEF Button!ButtonCallbackThread
  <2>1. edges \in Seq(Statuses)
    BY <1>0 DEF QueuesTyped
  <2>2. Len(edges) \in Nat /\ Len(edges) > 0 /\ Len(Tail(edges)) = Len(edges) - 1
        /\ Head(edges) = edges[1]
    BY <1>a, <2>1
  <2>3. Tail(edges) \in Seq(Statuses) /\ Head(edges) \in Statuses
    BY <1>a, <2>1
  <2>4. ASSUME Tail(edges) = <<>> PROVE Len(edges) = 1
    <3>1. Len(<<>>) = 0
      OBVIOUS
    <3>2. Len(Tail(edges)) = 0
      BY <2>4, <3>1, Zenon
    <3>3. QED
      BY <2>2, <3>2
  <2>5. Tail(edges) # <<>> => Len(edges) > 1
    BY <2>2, <2>3
  <2>6. Tail(edges) # <<>> => Tail(edges)[Len(Tail(edges))] = edges[Len(edges)]
    BY <1>a, <2>1, <2>2, <2>5
  <2>7. QED
    BY <2>2, <2>3, <2>4, <2>6
<1>1. ButtonTyped'
  BY <1>0, <1>a DEF ButtonTyped, Statuses
<1>2. QueuesTyped'
  BY <1>0, <1>a DEF QueuesTyped
<1>3. HandlesTyped'
  BY <1>0 DEF HandlesTyped
<1>4. StagesAreKept'
  BY <1>0 DEF ButtonTyped, StagesAreKept, DriverIsKept, QuietOrStray, Quiet, Running, Listening, Starting,
     Stopping, Stopped, Statuses
<1>5. DriverIsKept'
  BY <1>0, <1>a DEF ButtonTyped, DriverIsKept
<1>6. TimesAreKept'
  BY <1>0 DEF ButtonTyped, StagesAreKept, TimesAreKept, QuietOrStray, Quiet, Running, Starting, Statuses
<1>7. LastNewsIsThePin'
  <2>1. CASE Listening
    <3>1. pl = "open" /\ plcallback /\ plthread' = Head(edges) /\ edges # <<>>
          /\ edges' = Tail(edges)
      BY <1>0, <2>1 DEF StagesAreKept
    <3>2. edges[Len(edges)] = pin
      BY <1>0, <2>1, <3>1 DEF LastNewsIsThePin
    <3>3. plthread' # "wait" /\ (edges' = <<>> => plthread' = pin)
          /\ (edges' # <<>> => edges'[Len(edges')] = pin)
      BY <1>a, <3>1, <3>2 DEF Statuses
    <3>4. QED
      BY <3>3 DEF LastNewsIsThePin
  <2>2. CASE ~Listening
    BY <2>2 DEF LastNewsIsThePin, Listening, Running
  <2>3. QED
    BY <2>1, <2>2
<1>8. QED
  BY <1>1, <1>2, <1>3, <1>4, <1>5, <1>6, <1>7 DEF ButtonIInv

LEMMA DetectionCallbackKeeps ==
  ASSUME ButtonIInv, Button!DetectionCallback
  PROVE  ButtonIInv'
<1>. USE DEF Button!DetectionCallback, Button!managerVars, Button!plVars, Button!NoCall
<1>0. /\ ButtonTyped /\ QueuesTyped /\ HandlesTyped
      /\ StagesAreKept /\ DriverIsKept /\ TimesAreKept /\ LastNewsIsThePin
  BY DEF ButtonIInv
<1>a. \/ SentMessage(plthread) /\ ("edge" \notin astray' => bcall \notin Statuses)
      \/ UNCHANGED bqueue /\ "edge" \in astray'
  BY DEF Button!Sent, Button!NotSent, Button!CanSend, SentMessage, Statuses
<1>b. plthread \in Statuses /\ plthread \in Messages /\ plthread # "CloseThread"
  BY DEF Statuses, Messages
<1>c. /\ QueuesTyped' /\ (bqueue' = Button!NoQueue <=> bqueue = Button!NoQueue)
      /\ NoCloseThread(bqueue) => NoCloseThread(bqueue')
  <2>1. UNCHANGED edges
    OBVIOUS
  <2>. HIDE DEF Button!DetectionCallback
  <2>2. CASE SentMessage(plthread)
    <3>1. bqueue # Button!NoQueue
      BY <2>2 DEF SentMessage
    <3>2. QED
      BY <1>0, <1>b, <2>1, <2>2, <3>1, QueueSent DEF QueuesTyped
  <2>3. CASE UNCHANGED bqueue
    BY <1>0, <2>1, <2>3 DEF QueuesTyped
  <2>4. QED
    BY <1>a, <2>2, <2>3
<1>1. ButtonTyped'
  BY <1>0 DEF ButtonTyped, Messages, Statuses
<1>3. HandlesTyped'
  BY <1>0 DEF HandlesTyped
<1>4. StagesAreKept'
  <2>1. /\ UNCHANGED <<bopen, bcall, handles, btimer, bfired, bthread, edges, pl, plcallback>>
        /\ plthread \in Statuses
    BY <1>b
  <2>. HIDE DEF Button!DetectionCallback
  <2>2. QED
    BY <1>0, <1>c, <2>1 DEF StagesAreKept, QuietOrStray, Quiet, Running, Listening, Starting,
       Stopping, Stopped, Statuses
<1>5. DriverIsKept'
  BY <1>0 DEF ButtonTyped, StagesAreKept, DriverIsKept, QuietOrStray, Quiet, Running,
     Listening, Starting, Stopping, Stopped, Statuses
<1>6. TimesAreKept'
  BY <1>0 DEF ButtonTyped, StagesAreKept, TimesAreKept, QuietOrStray, Quiet, Running,
     Starting, Statuses
<1>7. LastNewsIsThePin'
  <2>0. UNCHANGED <<bopen, bcall, edges, pin>> /\ plthread' = "wait" /\ "wait" \notin Statuses
    BY DEF Statuses
  <2>. HIDE DEF Button!DetectionCallback
  <2>1. CASE Listening /\ edges = <<>> /\ "edge" \notin astray'
    <3>1. plthread = pin /\ bcall \notin Statuses
      BY <1>0, <1>a, <1>b, <2>1 DEF LastNewsIsThePin
    <3>2. SentMessage(plthread)
      BY <1>a, <2>1
    <3>3. LastIs(bqueue', pin')
      BY <1>0, <1>b, <2>0, <3>1, <3>2, QueueSent
    <3>4. QED
      BY <2>0, <2>1, <3>1, <3>3 DEF LastNewsIsThePin
  <2>2. CASE ~(Listening /\ edges = <<>> /\ "edge" \notin astray')
    <3>1. Listening' <=> Listening
      BY <2>0 DEF Listening, Running
    <3>2. Listening /\ edges # <<>> => edges[Len(edges)] = pin
      BY <1>0 DEF LastNewsIsThePin
    <3>3. QED
      BY <2>0, <2>2, <3>1, <3>2 DEF LastNewsIsThePin
  <2>3. QED
    BY <2>1, <2>2
<1>8. QED
  BY <1>1, <1>c, <1>3, <1>4, <1>5, <1>6, <1>7 DEF ButtonIInv

LEMMA TimerFiresKeeps ==
  ASSUME ButtonIInv, Button!TimerFires
  PROVE  ButtonIInv'
<1>. USE DEF Button!TimerFires, Button!managerVars, Button!plVars, Button!NoCall,
  Button!Works, Button!Fails, Button!CanSend, Button!Sent, Button!NotSent
<1>0. /\ ButtonTyped /\ QueuesTyped /\ HandlesTyped
      /\ StagesAreKept /\ DriverIsKept /\ TimesAreKept /\ LastNewsIsThePin
  BY DEF ButtonIInv
<1>1. ButtonTyped'
  BY <1>0 DEF ButtonTyped, Messages, Statuses
<1>2. QueuesTyped'
  BY <1>0 DEF QueuesTyped
<1>3. HandlesTyped'
  BY <1>0 DEF HandlesTyped
<1>4. StagesAreKept'
  BY <1>0 DEF StagesAreKept, QuietOrStray, Quiet, Running, Listening, Starting, Stopping, Stopped, Statuses
<1>5. DriverIsKept'
  BY <1>0 DEF ButtonTyped, StagesAreKept, DriverIsKept, QuietOrStray, Quiet, Running, Listening, Starting,
     Stopping, Stopped, Statuses
<1>6. TimesAreKept'
  BY <1>0 DEF ButtonTyped, StagesAreKept, TimesAreKept, QuietOrStray, Quiet, Running, Starting, Statuses
<1>7. LastNewsIsThePin'
  BY <1>0 DEF ButtonTyped, StagesAreKept, DriverIsKept, LastNewsIsThePin, Handled, TimerRefused, QuietOrStray, Quiet,
     Running, Listening, Starting, Stopping, Stopped, Statuses
<1>8. QED
  BY <1>1, <1>2, <1>3, <1>4, <1>5, <1>6, <1>7 DEF ButtonIInv

LEMMA TimerCallbackKeeps ==
  ASSUME ButtonIInv, Button!TimerCallback
  PROVE  ButtonIInv'
<1>. USE DEF Button!TimerCallback, Button!managerVars, Button!plVars, Button!NoCall
<1>0. /\ ButtonTyped /\ QueuesTyped /\ HandlesTyped
      /\ StagesAreKept /\ DriverIsKept /\ TimesAreKept /\ LastNewsIsThePin
  BY DEF ButtonIInv
<1>a. SentMessage("LongPressed") \/ UNCHANGED bqueue
  BY DEF Button!Sent, Button!NotSent, Button!CanSend, SentMessage
<1>b. "LongPressed" \in Messages \ Statuses /\ "LongPressed" # "CloseThread"
  BY DEF Messages, Statuses
<1>c. /\ QueuesTyped' /\ (bqueue' = Button!NoQueue <=> bqueue = Button!NoQueue)
      /\ NoStatus(bqueue) => NoStatus(bqueue')
      /\ LastIs(bqueue, pin) => LastIs(bqueue', pin)
      /\ NoCloseThread(bqueue) => NoCloseThread(bqueue')
  <2>1. UNCHANGED edges
    OBVIOUS
  <2>. HIDE DEF Button!TimerCallback
  <2>2. CASE SentMessage("LongPressed")
    <3>1. bqueue # Button!NoQueue
      BY <2>2 DEF SentMessage
    <3>2. QED
      BY <1>0, <1>b, <2>1, <2>2, <3>1, QueueSent DEF QueuesTyped
  <2>3. CASE UNCHANGED bqueue
    BY <1>0, <2>1, <2>3 DEF QueuesTyped
  <2>4. QED
    BY <1>a, <2>2, <2>3
<1>1. ButtonTyped'
  BY <1>0 DEF ButtonTyped, Messages, Statuses
<1>3. HandlesTyped'
  BY <1>0 DEF HandlesTyped
<1>. DEFINE same == /\ UNCHANGED <<bopen, bcall, handles, bstate, btimer, bthread, pin, edges>>
                    /\ UNCHANGED <<pl, plcallback, plthread, astray>> /\ ~bfired'
<1>d. same
  OBVIOUS
<1>4. StagesAreKept'
  <2>. HIDE DEF Button!TimerCallback
  <2>1. QED
    BY <1>0, <1>c, <1>d DEF StagesAreKept, QuietOrStray, Quiet, Running, Listening, Starting,
       Stopping, Stopped, Statuses
<1>5. DriverIsKept'
  BY <1>0 DEF ButtonTyped, StagesAreKept, DriverIsKept, QuietOrStray, Quiet, Running,
     Listening, Starting, Stopping, Stopped, Statuses
<1>6. TimesAreKept'
  BY <1>0 DEF ButtonTyped, StagesAreKept, TimesAreKept, QuietOrStray, Quiet, Running,
     Starting, Statuses
<1>7. LastNewsIsThePin'
  <2>. HIDE DEF Button!TimerCallback
  <2>1. QED
    BY <1>0, <1>c, <1>d DEF LastNewsIsThePin, Handled, TimerRefused, Listening, Running, Statuses
<1>8. QED
  BY <1>1, <1>c, <1>3, <1>4, <1>5, <1>6, <1>7 DEF ButtonIInv

LEMMA ReceiveKeeps ==
  ASSUME ButtonIInv, Button!Receive
  PROVE  ButtonIInv'
<1>. USE DEF Button!Receive, Button!managerVars, Button!plVars, Button!NoCall,
  Button!Works, Button!Fails, Button!CanSend, Button!Sent, Button!NotSent
<1>0. /\ ButtonTyped /\ QueuesTyped /\ HandlesTyped
      /\ StagesAreKept /\ DriverIsKept /\ TimesAreKept /\ LastNewsIsThePin
  BY DEF ButtonIInv
<1>. DEFINE m == Head(bqueue)
            q == Tail(bqueue)
<1>a. bqueue \in Seq(Messages)
  BY <1>0 DEF QueuesTyped
<1>b. /\ q \in Seq(Messages) /\ q # Button!NoQueue /\ m \in Messages
      /\ NoStatus(bqueue) => m \notin Statuses /\ NoStatus(q)
      /\ \A s : LastIs(bqueue, s) => LastIs(q, s) \/ (m = s /\ NoStatus(q))
      /\ NoCloseThread(bqueue) => m # "CloseThread" /\ NoCloseThread(q)
  BY <1>a, QueueTail
<1>c. bqueue' = q
  OBVIOUS
<1>d. /\ m = "CloseThread" =>
           bthread' = "ended" /\ bstate' = bstate
           /\ btimer' \in {btimer, "off"} /\ (btimer = "none" => btimer' = "none")
      /\ m # "CloseThread" =>
           bstate' = m /\ btimer' = btimer
           /\ bthread' = IF bstate = "Unknown" /\ m = "Released" THEN "wait" ELSE "event"
  BY DEF Button!Held
<1>e. bthread = "wait" /\ bqueue # Button!NoQueue /\ bcall' = bcall /\ bopen' = bopen
  OBVIOUS
<1>. HIDE DEF m, q
<1>1. ButtonTyped'
  BY <1>0, <1>b, <1>d DEF ButtonTyped, Messages, Statuses
<1>2. QueuesTyped'
  BY <1>0, <1>b, <1>c DEF QueuesTyped
<1>3. HandlesTyped'
  BY <1>0 DEF HandlesTyped
<1>4. StagesAreKept'
  <2>1. bcall \notin Starting \cup Stopped /\ ~(bcall = Button!NoCall /\ ~bopen)
    BY <1>0, <1>e DEF StagesAreKept, QuietOrStray, Quiet
  <2>2. Running => m # "CloseThread"
    BY <1>0, <1>b DEF StagesAreKept, Running
  <2>3. btimer # "none" => btimer' # "none"
    BY <1>d
  <2>4. Running => bthread' \in {"wait", "event", "calls"}
    BY <1>d, <2>2
  <2>5. bcall = Button!NoCall => NoCloseThread(bqueue')
    BY <1>0, <1>b, <1>c DEF StagesAreKept
  <2>6. UNCHANGED <<bopen, bcall, handles, bfired, edges, pl, plcallback, plthread>>
    OBVIOUS
  <2>. HIDE DEF Button!Receive
  <2>7. QED
    BY <1>0, <1>b, <1>c, <2>1, <2>3, <2>4, <2>5, <2>6
    DEF StagesAreKept, QuietOrStray, Quiet, Running, Listening, Starting, Stopping, Stopped, Statuses
<1>5. DriverIsKept'
  BY <1>0 DEF ButtonTyped, StagesAreKept, DriverIsKept, QuietOrStray, Quiet, Running, Listening, Starting,
     Stopping, Stopped, Statuses
<1>6. TimesAreKept'
  BY <1>0, <1>b, <1>d DEF TimesAreKept, Messages, Statuses
<1>7. LastNewsIsThePin'
  <2>1. ASSUME Listening, edges = <<>>, plthread = "wait", "edge" \notin astray
        PROVE  /\ Running /\ bcall \notin Statuses
               /\ LastIs(q, pin) \/ (NoStatus(q) /\ (Handled' = pin \/ TimerRefused'))
    <3>1. Running /\ bcall \notin Statuses
      BY <1>0, <1>e, <2>1 DEF StagesAreKept, QuietOrStray, Quiet, Listening, Running, Starting, Statuses
    <3>2. m # "CloseThread"
      BY <1>0, <1>b, <3>1 DEF StagesAreKept, Running
    <3>3. LastIs(bqueue, pin) \/ (NoStatus(bqueue) /\ (Handled = pin \/ TimerRefused))
      BY <1>0, <2>1, <3>1 DEF LastNewsIsThePin
    <3>4. CASE LastIs(q, pin)
      BY <3>1, <3>4
    <3>5. CASE m = pin /\ NoStatus(q)
      <4>1. m \in Statuses
        BY <1>0, <3>5 DEF ButtonTyped
      <4>2. bthread' = "event" => Handled' = pin
        BY <1>d, <3>2, <3>5, <4>1 DEF Handled
      <4>3. bthread' # "event" => m = "Released" /\ btimer' # "on" /\ bthread' = "wait"
        BY <1>0, <1>d, <3>2 DEF TimesAreKept
      <4>4. bthread' # "event" => Handled' = pin
        BY <3>5, <4>3 DEF Handled
      <4>5. QED
        BY <3>1, <3>5, <4>2, <4>4
    <3>6. CASE NoStatus(bqueue) /\ (Handled = pin \/ TimerRefused)
      <4>1. m \notin Statuses /\ NoStatus(q)
        BY <1>b, <3>6
      <4>2. bstate' \notin Statuses /\ btimer' = btimer
        BY <1>d, <3>2, <4>1
      <4>3. Handled' = Handled /\ (TimerRefused => TimerRefused')
        BY <1>e, <4>2 DEF Handled, TimerRefused
      <4>4. QED
        BY <3>1, <3>6, <4>1, <4>3
    <3>7. QED
      BY <1>b, <3>3, <3>4, <3>5, <3>6
  <2>2. UNCHANGED <<bopen, bcall, edges, plthread, astray, pin>>
    OBVIOUS
  <2>. HIDE DEF Button!Receive
  <2>3. QED
    BY <1>0, <1>c, <2>1, <2>2 DEF LastNewsIsThePin, Listening, Running
<1>8. QED
  BY <1>1, <1>2, <1>3, <1>4, <1>5, <1>6, <1>7 DEF ButtonIInv

LEMMA ExecuteButtonEventKeeps ==
  ASSUME ButtonIInv, Button!ExecuteButtonEvent
  PROVE  ButtonIInv'
<1>. USE DEF Button!ExecuteButtonEvent, Button!managerVars, Button!plVars, Button!NoCall,
  Button!Works, Button!Fails, Button!CanSend, Button!Sent, Button!NotSent
<1>0. /\ ButtonTyped /\ QueuesTyped /\ HandlesTyped
      /\ StagesAreKept /\ DriverIsKept /\ TimesAreKept /\ LastNewsIsThePin
  BY DEF ButtonIInv
<1>1. ButtonTyped'
  BY <1>0 DEF ButtonTyped, Messages, Statuses
<1>2. QueuesTyped'
  BY <1>0 DEF QueuesTyped
<1>3. HandlesTyped'
  BY <1>0 DEF HandlesTyped
<1>4. StagesAreKept'
  BY <1>0 DEF ButtonTyped, StagesAreKept, DriverIsKept, QuietOrStray, Quiet, Running, Listening, Starting,
     Stopping, Stopped, Statuses
<1>5. DriverIsKept'
  BY <1>0 DEF ButtonTyped, StagesAreKept, DriverIsKept, QuietOrStray, Quiet, Running, Listening, Starting,
     Stopping, Stopped, Statuses
<1>6. TimesAreKept'
  BY <1>0 DEF ButtonTyped, StagesAreKept, TimesAreKept, QuietOrStray, Quiet, Running, Starting, Statuses
<1>7. LastNewsIsThePin'
  BY <1>0 DEF ButtonTyped, StagesAreKept, DriverIsKept, LastNewsIsThePin, Handled, TimerRefused, QuietOrStray, Quiet,
     Running, Listening, Starting, Stopping, Stopped, Statuses
<1>8. QED
  BY <1>1, <1>2, <1>3, <1>4, <1>5, <1>6, <1>7 DEF ButtonIInv

LEMMA ExecuteButtonCallbackAllHandlesKeeps ==
  ASSUME ButtonIInv, Button!ExecuteButtonCallbackAllHandles
  PROVE  ButtonIInv'
<1>. USE DEF Button!ExecuteButtonCallbackAllHandles, Button!managerVars, Button!plVars,
  Button!NoCall,
  Button!Works, Button!Fails, Button!CanSend, Button!Sent, Button!NotSent
<1>0. /\ ButtonTyped /\ QueuesTyped /\ HandlesTyped
      /\ StagesAreKept /\ DriverIsKept /\ TimesAreKept /\ LastNewsIsThePin
  BY DEF ButtonIInv
<1>a. ASSUME NEW i \in DOMAIN handles'
      PROVE  /\ i \in DOMAIN handles /\ handles'[i] \in HandleData
             /\ handles'[i].enabled = handles[i].enabled
             /\ handles'[i].kinds = handles[i].kinds
             /\ ~handles[i].enabled \/ handles[i].kinds = {} => handles'[i] = handles[i]
             /\ bstate = "Released" /\ handles'[i] # handles[i] => handles'[i].time = 0
             /\ bstate = "Released" /\ handles[i].enabled /\ handles[i].kinds # {} =>
                  handles'[i].time = 0
  <2>1. i \in DOMAIN handles /\ handles[i] \in HandleData
    BY <1>0, <1>a DEF HandlesTyped
  <2>2. bstate # "Unknown" /\ bstate \in Statuses \cup {"Unknown", "LongPressed"}
    BY <1>0 DEF TimesAreKept, ButtonTyped
  <2>. DEFINE h == handles[i]
              new == Button!ExecuteButtonCallback(h)
  <2>3. /\ new \in HandleData /\ new.enabled = h.enabled /\ new.kinds = h.kinds
        /\ bstate = "Released" => new.time = 0
    BY <2>1, <2>2 DEF Button!ExecuteButtonCallback, HandleData, Statuses
  <2>4. handles'[i] = IF h.enabled /\ h.kinds # {} THEN new ELSE h
    BY <2>1
  <2>. HIDE DEF new
  <2>5. QED
    BY <2>1, <2>3, <2>4
<1>b. DOMAIN handles' = DOMAIN handles
  OBVIOUS
<1>1. ButtonTyped'
  BY <1>0 DEF ButtonTyped, Messages, Statuses
<1>2. QueuesTyped'
  BY <1>0 DEF QueuesTyped
<1>3. HandlesTyped'
  BY <1>a DEF HandlesTyped
<1>4. StagesAreKept'
  BY <1>0, <1>b
     DEF StagesAreKept, QuietOrStray, Quiet, Running, Listening, Starting, Stopping, Stopped, Statuses
<1>5. DriverIsKept'
  BY <1>0 DEF ButtonTyped, StagesAreKept, DriverIsKept, QuietOrStray, Quiet, Running, Listening, Starting,
     Stopping, Stopped, Statuses
<1>6. TimesAreKept'
  BY <1>0, <1>a, <1>b DEF TimesAreKept
<1>7. LastNewsIsThePin'
  BY <1>0 DEF ButtonTyped, StagesAreKept, DriverIsKept, LastNewsIsThePin, Handled, TimerRefused, QuietOrStray, Quiet,
     Running, Listening, Starting, Stopping, Stopped, Statuses
<1>8. QED
  BY <1>1, <1>2, <1>3, <1>4, <1>5, <1>6, <1>7 DEF ButtonIInv

LEMMA CreateHandleIs ==
  ASSUME NEW i, Button!CreateHandle(i)
  PROVE  \A j \in DOMAIN handles' :
           \/ handles'[j] \in HandleData /\ handles'[j].time = 0
           \/ j \in DOMAIN handles /\ handles'[j] = handles[j]
BY DEF Button!CreateHandle, HandleData

LEMMA OpenKeeps ==
  ASSUME ButtonIInv, NEW i \in Handles, Button!Open(i)
  PROVE  ButtonIInv'
<1>. USE DEF Button!Open, Button!managerVars, Button!plVars, Button!NoCall,
  Button!Works, Button!Fails, Button!CanSend, Button!Sent, Button!NotSent
<1>0. /\ ButtonTyped /\ QueuesTyped /\ HandlesTyped
      /\ StagesAreKept /\ DriverIsKept /\ TimesAreKept /\ LastNewsIsThePin
  BY DEF ButtonIInv
<1>a. ASSUME Button!CreateHandle(i)
      PROVE  \A j \in DOMAIN handles' :
               \/ handles'[j] \in HandleData /\ handles'[j].time = 0
               \/ j \in DOMAIN handles /\ handles'[j] = handles[j]
  BY <1>a, CreateHandleIs
<1>1. ButtonTyped'
  BY <1>0 DEF ButtonTyped, Messages, Statuses
<1>2. QueuesTyped'
  BY <1>0, EmptySeq DEF QueuesTyped
<1>3. HandlesTyped'
  BY <1>0, <1>a DEF HandlesTyped
<1>4. StagesAreKept'
  <2>1. NoCloseThread(<<>>) /\ Button!NoQueue # <<>>
    BY NoQueueIsNone DEF NoCloseThread
  <2>2. QED
    BY <1>0, <2>1
       DEF ButtonTyped, StagesAreKept, QuietOrStray, Quiet, Running, Listening, Starting, Stopping, Stopped,
          Statuses
<1>5. DriverIsKept'
  BY <1>0 DEF ButtonTyped, StagesAreKept, DriverIsKept, QuietOrStray, Quiet, Running, Listening, Starting,
     Stopping, Stopped, Statuses
<1>6. TimesAreKept'
  BY <1>0, <1>a DEF TimesAreKept
<1>7. LastNewsIsThePin'
  BY <1>0 DEF ButtonTyped, StagesAreKept, DriverIsKept, LastNewsIsThePin, Handled, TimerRefused, QuietOrStray, Quiet,
     Running, Listening, Starting, Stopping, Stopped, Statuses
<1>8. QED
  BY <1>1, <1>2, <1>3, <1>4, <1>5, <1>6, <1>7 DEF ButtonIInv

LEMMA PlButtonInitializeKeeps ==
  ASSUME ButtonIInv, Button!PlButtonInitialize
  PROVE  ButtonIInv'
<1>. USE DEF Button!PlButtonInitialize, Button!managerVars, Button!plVars, Button!NoCall,
  Button!Works, Button!Fails, Button!CanSend, Button!Sent, Button!NotSent
<1>0. /\ ButtonTyped /\ QueuesTyped /\ HandlesTyped
      /\ StagesAreKept /\ DriverIsKept /\ TimesAreKept /\ LastNewsIsThePin
  BY DEF ButtonIInv
<1>1. ButtonTyped'
  BY <1>0 DEF ButtonTyped, Messages, Statuses
<1>2. QueuesTyped'
  BY <1>0 DEF QueuesTyped
<1>3. HandlesTyped'
  BY <1>0 DEF HandlesTyped
<1>4. StagesAreKept'
  BY <1>0 DEF StagesAreKept, DriverIsKept, QuietOrStray, Quiet, Running, Listening, Starting, Stopping,
     Stopped, Statuses
<1>5. DriverIsKept'
  BY <1>0 DEF ButtonTyped, StagesAreKept, DriverIsKept, QuietOrStray, Quiet, Running, Listening, Starting,
     Stopping, Stopped, Statuses
<1>6. TimesAreKept'
  BY <1>0 DEF ButtonTyped, StagesAreKept, TimesAreKept, QuietOrStray, Quiet, Running, Starting, Statuses
<1>7. LastNewsIsThePin'
  BY <1>0 DEF ButtonTyped, StagesAreKept, DriverIsKept, LastNewsIsThePin, Handled, TimerRefused, QuietOrStray, Quiet,
     Running, Listening, Starting, Stopping, Stopped, Statuses
<1>8. QED
  BY <1>1, <1>2, <1>3, <1>4, <1>5, <1>6, <1>7 DEF ButtonIInv

LEMMA RegisterHandlerKeeps ==
  ASSUME ButtonIInv, Button!RegisterHandler
  PROVE  ButtonIInv'
<1>. USE DEF Button!RegisterHandler, Button!managerVars, Button!plVars, Button!NoCall,
  Button!Works, Button!Fails, Button!CanSend, Button!Sent, Button!NotSent
<1>0. /\ ButtonTyped /\ QueuesTyped /\ HandlesTyped
      /\ StagesAreKept /\ DriverIsKept /\ TimesAreKept /\ LastNewsIsThePin
  BY DEF ButtonIInv
<1>1. ButtonTyped'
  <2>1. plcallback' \in BOOLEAN
    BY <1>0 DEF ButtonTyped
  <2>2. UNCHANGED <<bopen, bstate, btimer, bfired, bthread, pin, pl, plthread>>
    OBVIOUS
  <2>. HIDE DEF Button!RegisterHandler
  <2>3. QED
    BY <1>0, <2>1, <2>2 DEF ButtonTyped
<1>2. QueuesTyped'
  BY <1>0 DEF QueuesTyped
<1>3. HandlesTyped'
  BY <1>0 DEF HandlesTyped
<1>4. StagesAreKept'
  BY <1>0 DEF ButtonTyped, StagesAreKept, DriverIsKept, QuietOrStray, Quiet, Running, Listening, Starting,
     Stopping, Stopped, Statuses
<1>5. DriverIsKept'
  BY <1>0 DEF ButtonTyped, StagesAreKept, DriverIsKept, QuietOrStray, Quiet, Running, Listening, Starting,
     Stopping, Stopped, Statuses
<1>6. TimesAreKept'
  BY <1>0 DEF ButtonTyped, StagesAreKept, TimesAreKept, QuietOrStray, Quiet, Running, Starting, Statuses
<1>7. LastNewsIsThePin'
  BY <1>0 DEF ButtonTyped, StagesAreKept, DriverIsKept, LastNewsIsThePin, Handled, TimerRefused, QuietOrStray, Quiet,
     Running, Listening, Starting, Stopping, Stopped, Statuses
<1>8. QED
  BY <1>1, <1>2, <1>3, <1>4, <1>5, <1>6, <1>7 DEF ButtonIInv

LEMMA InitialStatusKeeps ==
  ASSUME ButtonIInv, Button!InitialStatus
  PROVE  ButtonIInv'
<1>. USE DEF Button!InitialStatus, Button!managerVars, Button!plVars, Button!NoCall
<1>0. /\ ButtonTyped /\ QueuesTyped /\ HandlesTyped
      /\ StagesAreKept /\ DriverIsKept /\ TimesAreKept /\ LastNewsIsThePin
  BY DEF ButtonIInv
<1>a. \/ SentMessage(bcall) /\ UNCHANGED astray
      \/ UNCHANGED bqueue /\ "edge" \in astray'
  BY DEF Button!Sent, Button!NotSent, Button!CanSend, SentMessage
<1>b. bcall \in Statuses /\ bcall \in Messages /\ bcall # "CloseThread"
  BY DEF Statuses, Messages
<1>c. /\ QueuesTyped' /\ (bqueue' = Button!NoQueue <=> bqueue = Button!NoQueue)
      /\ SentMessage(bcall) => LastIs(bqueue', bcall)
      /\ NoCloseThread(bqueue) => NoCloseThread(bqueue')
  <2>1. UNCHANGED edges
    OBVIOUS
  <2>. HIDE DEF Button!InitialStatus
  <2>2. CASE SentMessage(bcall)
    <3>1. bqueue # Button!NoQueue
      BY <2>2 DEF SentMessage
    <3>2. QED
      BY <1>0, <1>b, <2>1, <2>2, <3>1, QueueSent DEF QueuesTyped
  <2>3. CASE UNCHANGED bqueue /\ ~SentMessage(bcall)
    BY <1>0, <2>1, <2>3 DEF QueuesTyped
  <2>4. QED
    BY <1>a, <2>2, <2>3
<1>1. ButtonTyped'
  BY <1>0 DEF ButtonTyped, Messages, Statuses
<1>3. HandlesTyped'
  BY <1>0 DEF HandlesTyped
<1>. DEFINE same == /\ UNCHANGED <<bopen, handles, bstate, btimer, bfired, bthread, pin, edges>>
                    /\ UNCHANGED <<pl, plcallback, plthread>> /\ bcall' = "timers"
<1>d. same
  OBVIOUS
<1>4. StagesAreKept'
  <2>. HIDE DEF Button!InitialStatus
  <2>1. QED
    BY <1>0, <1>b, <1>c, <1>d DEF StagesAreKept, QuietOrStray, Quiet, Running, Listening,
       Starting, Stopping, Stopped, Statuses
<1>5. DriverIsKept'
  BY <1>0 DEF ButtonTyped, StagesAreKept, DriverIsKept, QuietOrStray, Quiet, Running,
     Listening, Starting, Stopping, Stopped, Statuses
<1>6. TimesAreKept'
  BY <1>0 DEF ButtonTyped, StagesAreKept, TimesAreKept, QuietOrStray, Quiet, Running,
     Starting, Statuses
<1>7. LastNewsIsThePin'
  <2>1. Listening /\ bcall' \notin Statuses
    BY <1>b, <1>d DEF Listening, Statuses
  <2>. HIDE DEF Button!InitialStatus
  <2>2. edges = <<>> /\ plthread = "wait" /\ "edge" \notin astray' => LastIs(bqueue', pin)
    BY <1>0, <1>a, <1>b, <1>c, <2>1 DEF LastNewsIsThePin
  <2>3. QED
    BY <1>0, <1>d, <2>1, <2>2 DEF LastNewsIsThePin
<1>8. QED
  BY <1>1, <1>c, <1>3, <1>4, <1>5, <1>6, <1>7 DEF ButtonIInv

LEMMA CreateThreadKeeps ==
  ASSUME ButtonIInv, NEW i \in Handles, Button!CreateThread(i)
  PROVE  ButtonIInv'
<1>. USE DEF Button!CreateThread, Button!managerVars, Button!plVars, Button!NoCall,
  Button!Works, Button!Fails, Button!CanSend, Button!Sent, Button!NotSent
<1>0. /\ ButtonTyped /\ QueuesTyped /\ HandlesTyped
      /\ StagesAreKept /\ DriverIsKept /\ TimesAreKept /\ LastNewsIsThePin
  BY DEF ButtonIInv
<1>a. ASSUME Button!CreateHandle(i)
      PROVE  \A j \in DOMAIN handles' :
               \/ handles'[j] \in HandleData /\ handles'[j].time = 0
               \/ j \in DOMAIN handles /\ handles'[j] = handles[j]
  BY <1>a, CreateHandleIs
<1>1. ButtonTyped'
  BY <1>0 DEF ButtonTyped, Messages, Statuses
<1>2. QueuesTyped'
  BY <1>0 DEF QueuesTyped
<1>3. HandlesTyped'
  BY <1>0, <1>a DEF HandlesTyped
<1>4. StagesAreKept'
  BY <1>0 DEF ButtonTyped, StagesAreKept, DriverIsKept, QuietOrStray, Quiet, Running, Listening, Starting,
     Stopping, Stopped, Statuses
<1>5. DriverIsKept'
  BY <1>0 DEF ButtonTyped, StagesAreKept, DriverIsKept, QuietOrStray, Quiet, Running, Listening, Starting,
     Stopping, Stopped, Statuses
<1>6. TimesAreKept'
  BY <1>0, <1>a DEF StagesAreKept, QuietOrStray, Quiet, Running, Starting, TimesAreKept
<1>7. LastNewsIsThePin'
  BY <1>0 DEF ButtonTyped, StagesAreKept, DriverIsKept, LastNewsIsThePin, Handled, TimerRefused, QuietOrStray, Quiet,
     Running, Listening, Starting, Stopping, Stopped, Statuses
<1>8. QED
  BY <1>1, <1>2, <1>3, <1>4, <1>5, <1>6, <1>7 DEF ButtonIInv

LEMMA RegisterKeeps ==
  ASSUME ButtonIInv, NEW i \in Handles, NEW k \in Button!Kinds, Button!Register(i, k)
  PROVE  ButtonIInv'
<1>. USE DEF Button!Register, Button!managerVars, Button!plVars, Button!NoCall,
  Button!Works, Button!Fails, Button!CanSend, Button!Sent, Button!NotSent
<1>0. /\ ButtonTyped /\ QueuesTyped /\ HandlesTyped
      /\ StagesAreKept /\ DriverIsKept /\ TimesAreKept /\ LastNewsIsThePin
  BY DEF ButtonIInv
<1>. DEFINE ks == IF k \in handles[i].kinds THEN handles[i].kinds \ {k}
                  ELSE handles[i].kinds \cup {k}
<1>a. /\ DOMAIN handles' = DOMAIN handles
      /\ \A j \in DOMAIN handles : j # i => handles'[j] = handles[j]
      /\ handles'[i] = [handles[i] EXCEPT !.kinds = ks,
                                          !.time = IF ks = {} THEN 0 ELSE @]
  OBVIOUS
<1>b. /\ handles[i] \in HandleData /\ ~handles[i].enabled /\ handles[i].time = 0
  BY <1>0 DEF HandlesTyped, TimesAreKept
<1>c. ks \subseteq Button!Kinds
  BY <1>b DEF HandleData
<1>. HIDE DEF ks
<1>d. handles'[i] \in HandleData /\ handles'[i].time = 0
  BY <1>a, <1>b, <1>c DEF HandleData
<1>e. UNCHANGED <<bopen, bcall, bqueue, bstate, btimer, bfired, bthread, pin, edges, pl, plcallback,
                  plthread, astray>>
  OBVIOUS
<1>. HIDE DEF Button!Register
<1>1. ButtonTyped'
  BY <1>0, <1>e DEF ButtonTyped, Messages, Statuses
<1>2. QueuesTyped'
  BY <1>0, <1>e DEF QueuesTyped
<1>3. HandlesTyped'
  BY <1>0, <1>a, <1>d, <1>e DEF HandlesTyped
<1>4. StagesAreKept'
  BY <1>0, <1>a, <1>e
     DEF StagesAreKept, QuietOrStray, Quiet, Running, Listening, Starting, Stopping, Stopped, Statuses
<1>5. DriverIsKept'
  BY <1>0, <1>e
     DEF ButtonTyped, StagesAreKept, DriverIsKept, QuietOrStray, Quiet, Running, Listening, Starting,
        Stopping, Stopped, Statuses
<1>6. TimesAreKept'
  BY <1>0, <1>a, <1>d, <1>e DEF TimesAreKept
<1>7. LastNewsIsThePin'
  BY <1>0, <1>e
     DEF ButtonTyped, StagesAreKept, DriverIsKept, LastNewsIsThePin, Handled, TimerRefused, QuietOrStray, Quiet, Running,
        Listening, Starting, Stopping, Stopped, Statuses
<1>8. QED
  BY <1>1, <1>2, <1>3, <1>4, <1>5, <1>6, <1>7 DEF ButtonIInv

LEMMA HandleSet ==
  ASSUME NEW h \in HandleData, NEW e \in BOOLEAN, NEW tm \in Nat
  PROVE  /\ [h EXCEPT !.enabled = e, !.time = tm] \in HandleData
         /\ [h EXCEPT !.enabled = e, !.time = tm].time = tm
BY DEF HandleData

LEMMA SetCallbackExecutableStateKeeps ==
  ASSUME ButtonIInv, NEW i \in Handles, Button!SetCallbackExecutableState(i)
  PROVE  ButtonIInv'
<1>. USE DEF Button!SetCallbackExecutableState, Button!managerVars, Button!plVars, Button!NoCall,
  Button!Works, Button!Fails, Button!CanSend, Button!Sent, Button!NotSent
<1>0. /\ ButtonTyped /\ QueuesTyped /\ HandlesTyped
      /\ StagesAreKept /\ DriverIsKept /\ TimesAreKept /\ LastNewsIsThePin
  BY DEF ButtonIInv
<1>g. i \in DOMAIN handles
  OBVIOUS
<1>d. handles' = [handles EXCEPT ![i].enabled = ~@,
                                ![i].time = IF handles[i].enabled THEN 0 ELSE @]
  OBVIOUS
<1>e. UNCHANGED <<bopen, bcall, bqueue, bstate, btimer, bfired, bthread, pin, edges, pl,
                  plcallback, plthread, astray>>
  OBVIOUS
<1>. HIDE DEF Button!SetCallbackExecutableState
<1>. DEFINE e == ~handles[i].enabled
            tm == IF handles[i].enabled THEN 0 ELSE handles[i].time
<1>a. /\ DOMAIN handles' = DOMAIN handles
      /\ \A j \in DOMAIN handles : j # i => handles'[j] = handles[j]
      /\ handles'[i] = [handles[i] EXCEPT !.enabled = e, !.time = tm]
  BY <1>d, <1>g
<1>b. /\ handles[i] \in HandleData /\ (~handles[i].enabled => handles[i].time = 0)
  BY <1>0, <1>g DEF HandlesTyped, TimesAreKept
<1>f. e \in BOOLEAN /\ tm = 0
  BY <1>b
<1>. HIDE DEF e, tm
<1>c. handles'[i] \in HandleData /\ handles'[i].time = 0
  <2>1. /\ [handles[i] EXCEPT !.enabled = e, !.time = tm] \in HandleData
        /\ [handles[i] EXCEPT !.enabled = e, !.time = tm].time = tm
    <3>1. handles[i] \in HandleData /\ e \in BOOLEAN /\ tm \in Nat
      BY <1>b, <1>f
    <3>2. QED
      BY <3>1, HandleSet, Zenon
  <2>2. QED
    BY <1>a, <1>f, <2>1, Zenon
<1>1. ButtonTyped'
  BY <1>0, <1>e DEF ButtonTyped, Messages, Statuses
<1>2. QueuesTyped'
  BY <1>0, <1>e DEF QueuesTyped
<1>3. HandlesTyped'
  BY <1>0, <1>a, <1>c, <1>e DEF HandlesTyped
<1>4. StagesAreKept'
  BY <1>0, <1>a, <1>e
     DEF StagesAreKept, QuietOrStray, Quiet, Running, Listening, Starting, Stopping, Stopped, Statuses
<1>5. DriverIsKept'
  BY <1>0, <1>e
     DEF ButtonTyped, StagesAreKept, DriverIsKept, QuietOrStray, Quiet, Running, Listening, Starting,
        Stopping, Stopped, Statuses
<1>6. TimesAreKept'
  BY <1>0, <1>a, <1>c, <1>e DEF TimesAreKept
<1>7. LastNewsIsThePin'
  BY <1>0, <1>e
     DEF ButtonTyped, StagesAreKept, DriverIsKept, LastNewsIsThePin, Handled, TimerRefused, QuietOrStray, Quiet, Running,
        Listening, Starting, Stopping, Stopped, Statuses
<1>8. QED
  BY <1>1, <1>2, <1>3, <1>4, <1>5, <1>6, <1>7 DEF ButtonIInv

LEMMA CloseKeepsButton ==
  ASSUME ButtonIInv, NEW i \in Handles, Button!Close(i)
  PROVE  ButtonIInv'
<1>. USE DEF Button!Close, Button!managerVars, Button!plVars, Button!NoCall,
  Button!Works, Button!Fails, Button!CanSend, Button!Sent, Button!NotSent
<1>0. /\ ButtonTyped /\ QueuesTyped /\ HandlesTyped
      /\ StagesAreKept /\ DriverIsKept /\ TimesAreKept /\ LastNewsIsThePin
  BY DEF ButtonIInv
<1>a. /\ DOMAIN handles' = DOMAIN handles \ {i}
      /\ \A j \in DOMAIN handles' : j \in DOMAIN handles /\ handles'[j] = handles[j]
  OBVIOUS
<1>1. ButtonTyped'
  BY <1>0 DEF ButtonTyped, Messages, Statuses
<1>2. QueuesTyped'
  BY <1>0 DEF QueuesTyped
<1>3. HandlesTyped'
  BY <1>0, <1>a DEF HandlesTyped
<1>4. StagesAreKept'
  <2>1. bcall' # Button!NoCall => DOMAIN handles' = {}
    BY <1>a
  <2>2. QED
    BY <1>0, <2>1
       DEF StagesAreKept, QuietOrStray, Quiet, Running, Listening, Starting, Stopping, Stopped, Statuses
<1>5. DriverIsKept'
  BY <1>0 DEF ButtonTyped, StagesAreKept, DriverIsKept, QuietOrStray, Quiet, Running, Listening, Starting,
     Stopping, Stopped, Statuses
<1>6. TimesAreKept'
  BY <1>0, <1>a DEF TimesAreKept
<1>7. LastNewsIsThePin'
  BY <1>0 DEF ButtonTyped, StagesAreKept, DriverIsKept, LastNewsIsThePin, Handled, TimerRefused, QuietOrStray, Quiet,
     Running, Listening, Starting, Stopping, Stopped, Statuses
<1>8. QED
  BY <1>1, <1>2, <1>3, <1>4, <1>5, <1>6, <1>7 DEF ButtonIInv

LEMMA UnsetDetectionCallbackKeeps ==
  ASSUME ButtonIInv, Button!UnsetDetectionCallback
  PROVE  ButtonIInv'
<1>. USE DEF Button!UnsetDetectionCallback, Button!managerVars, Button!plVars, Button!NoCall,
  Button!Works, Button!Fails, Button!CanSend, Button!Sent, Button!NotSent
<1>0. /\ ButtonTyped /\ QueuesTyped /\ HandlesTyped
      /\ StagesAreKept /\ DriverIsKept /\ TimesAreKept /\ LastNewsIsThePin
  BY DEF ButtonIInv
<1>1. ButtonTyped'
  <2>1. plcallback' \in BOOLEAN
    BY <1>0 DEF ButtonTyped
  <2>2. UNCHANGED <<bopen, bstate, btimer, bfired, bthread, pin, pl, plthread>>
    OBVIOUS
  <2>. HIDE DEF Button!UnsetDetectionCallback
  <2>3. QED
    BY <1>0, <2>1, <2>2 DEF ButtonTyped
<1>2. QueuesTyped'
  BY <1>0 DEF QueuesTyped
<1>3. HandlesTyped'
  BY <1>0 DEF HandlesTyped
<1>4. StagesAreKept'
  BY <1>0 DEF ButtonTyped, StagesAreKept, QuietOrStray, Quiet, Running, Listening, Starting, Stopping,
     Stopped, Statuses
<1>5. DriverIsKept'
  BY <1>0 DEF ButtonTyped, StagesAreKept, DriverIsKept, QuietOrStray, Quiet, Running, Listening, Starting,
     Stopping, Stopped, Statuses
<1>6. TimesAreKept'
  BY <1>0 DEF ButtonTyped, StagesAreKept, TimesAreKept, QuietOrStray, Quiet, Running, Starting, Statuses
<1>7. LastNewsIsThePin'
  BY <1>0 DEF ButtonTyped, StagesAreKept, DriverIsKept, LastNewsIsThePin, Handled, TimerRefused, QuietOrStray, Quiet,
     Running, Listening, Starting, Stopping, Stopped, Statuses
<1>8. QED
  BY <1>1, <1>2, <1>3, <1>4, <1>5, <1>6, <1>7 DEF ButtonIInv

LEMMA DestroyThreadKeeps ==
  ASSUME ButtonIInv, Button!DestroyThread
  PROVE  ButtonIInv'
<1>. USE DEF Button!DestroyThread, Button!managerVars, Button!plVars, Button!NoCall,
  Button!Works, Button!Fails, Button!CanSend, Button!Sent, Button!NotSent
<1>0. /\ ButtonTyped /\ QueuesTyped /\ HandlesTyped
      /\ StagesAreKept /\ DriverIsKept /\ TimesAreKept /\ LastNewsIsThePin
  BY DEF ButtonIInv
<1>a. bqueue # Button!NoQueue
  BY <1>0 DEF StagesAreKept, Stopping
<1>b. /\ bqueue' \in Seq(Messages) /\ bqueue' # Button!NoQueue
  <2>1. SentMessage("CloseThread") \/ UNCHANGED bqueue
    BY <1>a DEF SentMessage, Button!NotSent
  <2>2. "CloseThread" \in Messages
    BY DEF Messages
  <2>. HIDE DEF Button!DestroyThread
  <2>3. QED
    BY <1>0, <1>a, <2>1, <2>2, QueueSent DEF QueuesTyped
<1>1. ButtonTyped'
  <2>1. /\ bthread' \in {bthread, "none"} /\ UNCHANGED btimer
        /\ UNCHANGED <<bopen, bstate, bfired, pin, pl, plcallback, plthread>>
    OBVIOUS
  <2>. HIDE DEF Button!DestroyThread
  <2>2. QED
    BY <1>0, <2>1 DEF ButtonTyped, Messages, Statuses
<1>2. QueuesTyped'
  BY <1>0, <1>b DEF QueuesTyped
<1>3. HandlesTyped'
  BY <1>0 DEF HandlesTyped
<1>4. StagesAreKept'
  BY <1>0, <1>b
     DEF StagesAreKept, QuietOrStray, Quiet, Running, Listening, Starting, Stopping, Stopped, Statuses
<1>5. DriverIsKept'
  BY <1>0 DEF ButtonTyped, StagesAreKept, DriverIsKept, QuietOrStray, Quiet, Running, Listening, Starting,
     Stopping, Stopped, Statuses
<1>6. TimesAreKept'
  BY <1>0 DEF ButtonTyped, StagesAreKept, TimesAreKept, QuietOrStray, Quiet, Running, Starting, Statuses
<1>7. LastNewsIsThePin'
  BY DEF LastNewsIsThePin, Listening, Running, Statuses
<1>8. QED
  BY <1>1, <1>2, <1>3, <1>4, <1>5, <1>6, <1>7 DEF ButtonIInv

LEMMA UnsetTimerCallbackKeeps ==
  ASSUME ButtonIInv, Button!UnsetTimerCallback
  PROVE  ButtonIInv'
<1>. USE DEF Button!UnsetTimerCallback, Button!managerVars, Button!plVars, Button!NoCall,
  Button!Works, Button!Fails, Button!CanSend, Button!Sent, Button!NotSent
<1>0. /\ ButtonTyped /\ QueuesTyped /\ HandlesTyped
      /\ StagesAreKept /\ DriverIsKept /\ TimesAreKept /\ LastNewsIsThePin
  BY DEF ButtonIInv
<1>1. ButtonTyped'
  <2>1. /\ bthread' \in {"none", "stray"} /\ btimer' \in {"none", "stray"}
        /\ UNCHANGED <<bopen, bstate, bfired, pin, pl, plcallback, plthread>>
    OBVIOUS
  <2>. HIDE DEF Button!UnsetTimerCallback
  <2>2. QED
    BY <1>0, <2>1 DEF ButtonTyped, Messages, Statuses
<1>2. QueuesTyped'
  BY <1>0 DEF QueuesTyped
<1>3. HandlesTyped'
  BY <1>0 DEF HandlesTyped
<1>4. StagesAreKept'
  BY <1>0 DEF StagesAreKept, QuietOrStray, Quiet, Running, Listening, Starting, Stopping, Stopped, Statuses
<1>5. DriverIsKept'
  BY <1>0 DEF ButtonTyped, StagesAreKept, DriverIsKept, QuietOrStray, Quiet, Running, Listening, Starting,
     Stopping, Stopped, Statuses
<1>6. TimesAreKept'
  BY <1>0 DEF ButtonTyped, StagesAreKept, TimesAreKept, QuietOrStray, Quiet, Running, Starting, Statuses
<1>7. LastNewsIsThePin'
  BY DEF LastNewsIsThePin, Listening, Running, Statuses
<1>8. QED
  BY <1>1, <1>2, <1>3, <1>4, <1>5, <1>6, <1>7 DEF ButtonIInv

LEMMA PlButtonFinalizeKeeps ==
  ASSUME ButtonIInv, Button!PlButtonFinalize
  PROVE  ButtonIInv'
<1>. USE DEF Button!PlButtonFinalize, Button!managerVars, Button!plVars, Button!NoCall,
  Button!Works, Button!Fails, Button!CanSend, Button!Sent, Button!NotSent
<1>0. /\ ButtonTyped /\ QueuesTyped /\ HandlesTyped
      /\ StagesAreKept /\ DriverIsKept /\ TimesAreKept /\ LastNewsIsThePin
  BY DEF ButtonIInv
<1>1. ButtonTyped'
  BY <1>0 DEF ButtonTyped, Messages, Statuses
<1>2. QueuesTyped'
  BY <1>0, EmptySeq DEF QueuesTyped
<1>3. HandlesTyped'
  BY <1>0 DEF HandlesTyped
<1>4. StagesAreKept'
  BY <1>0 DEF StagesAreKept, QuietOrStray, Quiet, Running, Listening, Starting, Stopping, Stopped, Statuses
<1>5. DriverIsKept'
  <2>1. CASE bcall = "pl finalize"
    <3>1. pl' = "halfway"
      BY <2>1
    <3>2. QED
      <4>. HIDE DEF Button!PlButtonFinalize
      <4>1. QED
        BY <3>1 DEF DriverIsKept
  <2>2. CASE bcall = "pl join"
    <3>1. plthread' = "none" /\ pl' = "closed" /\ edges' = edges /\ plcallback' = plcallback
      BY <2>2
    <3>2. edges = <<>> /\ ~plcallback
      BY <1>0, <2>2 DEF StagesAreKept
    <3>. HIDE DEF Button!PlButtonFinalize
    <3>3. QED
      BY <3>1, <3>2 DEF DriverIsKept
  <2>3. bcall = "pl finalize" \/ bcall = "pl join"
    OBVIOUS
  <2>. HIDE DEF Button!PlButtonFinalize
  <2>4. QED
    BY <2>1, <2>2, <2>3
<1>6. TimesAreKept'
  BY <1>0 DEF ButtonTyped, StagesAreKept, TimesAreKept, QuietOrStray, Quiet, Running, Starting, Statuses
<1>7. LastNewsIsThePin'
  BY DEF LastNewsIsThePin, Listening, Running, Statuses
<1>8. QED
  BY <1>1, <1>2, <1>3, <1>4, <1>5, <1>6, <1>7 DEF ButtonIInv

LEMMA CloseQueueKeeps ==
  ASSUME ButtonIInv, Button!CloseQueue
  PROVE  ButtonIInv'
<1>. USE DEF Button!CloseQueue, Button!managerVars, Button!plVars, Button!NoCall,
  Button!Works, Button!Fails, Button!CanSend, Button!Sent, Button!NotSent
<1>0. /\ ButtonTyped /\ QueuesTyped /\ HandlesTyped
      /\ StagesAreKept /\ DriverIsKept /\ TimesAreKept /\ LastNewsIsThePin
  BY DEF ButtonIInv
<1>1. ButtonTyped'
  BY <1>0 DEF ButtonTyped, Messages, Statuses
<1>2. QueuesTyped'
  BY <1>0 DEF QueuesTyped
<1>3. HandlesTyped'
  BY <1>0 DEF HandlesTyped
<1>4. StagesAreKept'
  <2>1. NoCloseThread(Button!NoQueue)
    BY NoCloseThreadInNoQueue
  <2>2. QED
    BY <1>0, <2>1
       DEF StagesAreKept, QuietOrStray, Quiet, Running, Listening, Starting, Stopping, Stopped, Statuses
<1>5. DriverIsKept'
  BY <1>0 DEF ButtonTyped, StagesAreKept, DriverIsKept, QuietOrStray, Quiet, Running, Listening, Starting,
     Stopping, Stopped, Statuses
<1>6. TimesAreKept'
  BY <1>0 DEF ButtonTyped, StagesAreKept, TimesAreKept, QuietOrStray, Quiet, Running, Starting, Statuses
<1>7. LastNewsIsThePin'
  BY DEF LastNewsIsThePin, Listening, Running, Statuses
<1>8. QED
  BY <1>1, <1>2, <1>3, <1>4, <1>5, <1>6, <1>7 DEF ButtonIInv

LEMMA ButtonNextKeeps ==
  ASSUME ButtonIInv, Button!Next
  PROVE  ButtonIInv'
<1>1. CASE Button!Edge
  BY <1>1, EdgeKeeps
<1>2. CASE Button!DriverThread
  BY <1>2, ButtonCallbackThreadKeeps, DetectionCallbackKeeps DEF Button!DriverThread
<1>3. CASE Button!ManagerThread
  BY <1>3, ReceiveKeeps, ExecuteButtonEventKeeps, ExecuteButtonCallbackAllHandlesKeeps
  DEF Button!ManagerThread
<1>4. CASE Button!ButtonTimer
  BY <1>4, TimerFiresKeeps, TimerCallbackKeeps DEF Button!ButtonTimer
<1>5. CASE Button!CallGoesOn
  BY <1>5, PlButtonInitializeKeeps, RegisterHandlerKeeps, InitialStatusKeeps,
    CreateThreadKeeps, UnsetDetectionCallbackKeeps, DestroyThreadKeeps,
    UnsetTimerCallbackKeeps, PlButtonFinalizeKeeps, CloseQueueKeeps DEF Button!CallGoesOn
<1>6. CASE Button!Call
  BY <1>6, OpenKeeps, CloseKeepsButton, SetCallbackExecutableStateKeeps, RegisterKeeps
  DEF Button!Call
<1>7. QED
  BY <1>1, <1>2, <1>3, <1>4, <1>5, <1>6 DEF Button!Next

LEMMA ButtonHolds == Spec => []ButtonIInv
<1>1. Init => ButtonIInv
  BY ButtonInitOK DEF Init
<1>2. ButtonIInv /\ [Next]_vars => ButtonIInv'
  <2>. SUFFICES ASSUME ButtonIInv, [Next]_vars PROVE ButtonIInv'
    OBVIOUS
  <2>1. CASE UNCHANGED buttonVars
    <3>. USE <2>1 DEF buttonVars
    <3>1. UNCHANGED <<bopen, bcall, handles, bqueue, bstate, btimer, bfired, bthread, pin>>
          /\ UNCHANGED <<edges, pl, plcallback, plthread, astray>>
      OBVIOUS
    <3>2. ButtonTyped' /\ QueuesTyped' /\ HandlesTyped' /\ DriverIsKept' /\ TimesAreKept'
      BY <3>1 DEF ButtonIInv, ButtonTyped, QueuesTyped, HandlesTyped, DriverIsKept, TimesAreKept
    <3>3. StagesAreKept'
      <4>1. (Running <=> Running') /\ (Quiet <=> Quiet')
            /\ (QuietOrStray <=> QuietOrStray') /\ (Listening <=> Listening')
            /\ (NoCloseThread(bqueue) <=> NoCloseThread(bqueue)')
        BY <3>1 DEF QuietOrStray, Quiet, Running, Listening, NoCloseThread
      <4>. HIDE DEF buttonVars
      <4>2. StagesAreKept
        BY DEF ButtonIInv
      <4>3. QED
        BY <3>1, <4>1, <4>2 DEF StagesAreKept
    <3>4. LastNewsIsThePin'
      BY <3>1 DEF ButtonIInv, LastNewsIsThePin, Listening, Running, Handled,
        TimerRefused
    <3>5. QED
      BY <3>2, <3>3, <3>4 DEF ButtonIInv
  <2>2. CASE Button!Next
    BY <2>2, ButtonNextKeeps
  <2>3. QED
    BY <2>1, <2>2 DEF Next, vars, InButton, InClock, InHal, InJson
<1>3. QED
  BY <1>1, <1>2, PTL DEF Spec

\* Once every message of the button was handled its timer runs exactly while
\* the button is held, unless the last status was lost or the timer refused it,
\* and the release leaves no handle with time counted; and the queue is closed
\* only when nobody sends to it any more, but for a thread or a timer that
\* Finalize could not end (button_manager.c, button_manager_internal.c), for
\* any handles, queue, times, edges and failures.
THEOREM SpecButtonPartsAgree == Spec => []ButtonPartsAgree
<1>1. ASSUME ButtonIInv PROVE Button!TimerFollowsButton
  <2>. SUFFICES ASSUME Running, astray = {}, bthread = "wait", bqueue = <<>>, edges = <<>>,
                       plthread = "wait"
                PROVE  /\ btimer = "on" <=> pin = "Pressed"
                       /\ bstate = "Released" => \A i \in DOMAIN handles : handles[i].time = 0
    BY DEF Button!TimerFollowsButton, Running, Button!NoCall
  <2>1. ~LastIs(bqueue, pin)
    BY DEF LastIs
  <2>2. bcall \notin Statuses
    BY DEF Running, Button!NoCall, Statuses
  <2>3. Handled = pin
    BY <1>1, <2>1, <2>2 DEF ButtonIInv, LastNewsIsThePin, Listening, TimerRefused
  <2>4. pin \in Statuses
    BY <1>1 DEF ButtonIInv, ButtonTyped
  <2>5. btimer = "on" <=> pin = "Pressed"
    BY <2>3, <2>4 DEF Handled, Statuses
  <2>6. QED
    BY <1>1, <2>5 DEF ButtonIInv, TimesAreKept
<1>2. ASSUME ButtonIInv PROVE Button!QueueOutlivesSenders
  BY <1>2 DEF ButtonIInv, StagesAreKept, DriverIsKept, QuietOrStray, Quiet,
    Button!QueueOutlivesSenders
<1>3. ButtonIInv => ButtonPartsAgree
  BY <1>1, <1>2 DEF ButtonPartsAgree, Button!ButtonPartsAgree
<1>4. QED
  BY <1>3, ButtonHolds, PTL

----------------------------------------------------------------------------
(* The clock manager.                                                      *)

ClientSteps ==
  {"idle", "read", "reading", "set", "set forcibly", "wait", "wait forcibly", "writing", "saved"}
WaitSteps == {"wait", "wait forcibly"}
WriteSteps == {"writing", "saved"}
Waits(c) == client[c].at \in WaitSteps
Writes(c) == client[c].at \in WriteSteps

ClockTyped ==
  /\ rw \in Int
  /\ client \in [Clients -> [at : ClientSteps, value : ParamValues \cup {Clock!Default}]]

\* Who waits to write holds the barrier, and the flag is raised when nobody
\* holds it.
BarrierIsKept ==
  /\ \A c \in Clients : Waits(c) => barrier = c
  /\ insync => barrier = Clock!NoOne

\* A writer is alone, and m_is_in_rw says that he is inside, unless Init
\* reset it.
WriterIsAlone ==
  ~overrun => \A c \in Clients : Writes(c) =>
                rw < 0 /\ \A d \in Clients : Writes(d) => d = c

CallHoldsTheLock == cstep \in {"mark", "writers"} => cstate = "Lock"

NobodyWrites == Clock!Syncing => \A c \in Clients : ~Writes(c)

ClockIInv ==
  /\ ClockTyped /\ BarrierIsKept /\ CallHoldsTheLock /\ WriterIsAlone /\ NobodyWrites

LEMMA ClockInitOK == Clock!Init => ClockIInv
<1>. SUFFICES ASSUME Clock!Init PROVE ClockIInv
  OBVIOUS
<1>1. /\ rw = 0 /\ insync = FALSE /\ overrun = FALSE
      /\ client = [c \in Clients |-> [at |-> "idle", value |-> Clock!Default]]
      /\ cstep = "none"
  BY DEF Clock!Init, Clock!Idling
<1>2. \A c \in Clients : ~Waits(c) /\ ~Writes(c)
  BY <1>1 DEF Waits, Writes, WaitSteps, WriteSteps
<1>3. ClockTyped
  BY <1>1 DEF ClockTyped, ClientSteps
<1>4. BarrierIsKept /\ CallHoldsTheLock /\ WriterIsAlone /\ NobodyWrites
  BY <1>1, <1>2 DEF BarrierIsKept, CallHoldsTheLock, WriterIsAlone, NobodyWrites
<1>5. QED
  BY <1>3, <1>4 DEF ClockIInv

\* A step of no client that leaves the flags alone, but may lower insync.
LEMMA ClockFlagsKeep ==
  ASSUME ClockIInv, UNCHANGED <<client, rw, barrier, overrun>>,
         cstep' \in {"mark", "writers"} => cstate' = "Lock",
         insync' => insync /\ (cstep' \in {"mark", "writers"} \/ cstep \notin {"mark", "writers"})
  PROVE  ClockIInv'
<1>1. \A c \in Clients : (Waits(c)' <=> Waits(c)) /\ (Writes(c)' <=> Writes(c))
  BY DEF Waits, Writes, WaitSteps, WriteSteps
<1>2. ClockTyped' /\ BarrierIsKept' /\ CallHoldsTheLock' /\ WriterIsAlone'
  BY <1>1 DEF ClockIInv, ClockTyped, CallHoldsTheLock, BarrierIsKept, WriterIsAlone
<1>3. Clock!Syncing' => Clock!Syncing
  BY DEF Clock!Syncing
<1>4. QED
  BY <1>1, <1>2, <1>3 DEF ClockIInv, NobodyWrites

\* A step of one client.
LEMMA ClientKeeps ==
  ASSUME ClockIInv, NEW c \in Clients, NEW to \in ClientSteps,
         NEW v \in ParamValues \cup {Clock!Default},
         client' = [client EXCEPT ![c] = [at |-> to, value |-> v]],
         UNCHANGED <<insync, cstate, cstep, overrun>>, rw' \in Int,
         to \in WaitSteps =>
           barrier = Clock!NoOne /\ barrier' = c /\ ~insync,
         to \notin WaitSteps =>
           barrier' = IF Waits(c) THEN Clock!NoOne ELSE barrier,
         to \in WriteSteps =>
           \/ Writes(c) /\ rw' = rw
           \/ rw = 0 /\ rw' < 0 /\ ~insync,
         to \notin WriteSteps => rw' = rw \/ Writes(c) \/ rw >= 0
  PROVE  ClockIInv'
<1>0. /\ to \in WaitSteps => barrier = Clock!NoOne /\ barrier' = c /\ ~insync
      /\ to \notin WaitSteps => barrier' = IF Waits(c) THEN Clock!NoOne ELSE barrier
      /\ to \in WriteSteps => (Writes(c) /\ rw' = rw) \/ (rw = 0 /\ rw' < 0 /\ ~insync)
      /\ to \notin WriteSteps => rw' = rw \/ Writes(c) \/ rw >= 0
      /\ (insync' <=> insync) /\ (overrun' <=> overrun)
  OBVIOUS
<1>1. /\ client \in [Clients -> [at : ClientSteps, value : ParamValues \cup {Clock!Default}]]
      /\ rw \in Int
  BY DEF ClockIInv, ClockTyped
<1>2. /\ client'[c].at = to
      /\ \A d \in Clients : d # c => client'[d] = client[d]
      /\ client' \in [Clients -> [at : ClientSteps, value : ParamValues \cup {Clock!Default}]]
  BY <1>1
<1>3. \A d \in Clients : d # c => (Waits(d)' <=> Waits(d)) /\ (Writes(d)' <=> Writes(d))
  BY <1>2 DEF Waits, Writes
<1>4. (Waits(c)' <=> to \in WaitSteps) /\ (Writes(c)' <=> to \in WriteSteps)
  BY <1>2 DEF Waits, Writes
<1>5. Clock!NoOne \notin Clients
  BY ClientsAssumption DEF Clock!NoOne
<1>6. ClockTyped' /\ CallHoldsTheLock'
  BY <1>2 DEF ClockIInv, ClockTyped, CallHoldsTheLock
<1>7. BarrierIsKept'
  <2>1. (\A d \in Clients : Waits(d) => barrier = d) /\ (insync => barrier = Clock!NoOne)
    BY DEF ClockIInv, BarrierIsKept
  <2>2. CASE to \in WaitSteps
    <3>1. barrier = Clock!NoOne /\ barrier' = c /\ ~insync'
      BY <1>0, <2>2
    <3>2. \A d \in Clients : ~Waits(d)
      BY <1>5, <2>1, <3>1
    <3>3. \A d \in Clients : Waits(d)' => d = c
      BY <1>3, <3>2
    <3>4. QED
      BY <3>1, <3>3 DEF BarrierIsKept
  <2>3. CASE to \notin WaitSteps /\ Waits(c)
    <3>1. barrier = c /\ barrier' = Clock!NoOne
      BY <1>0, <2>1, <2>3
    <3>2. \A d \in Clients : ~Waits(d)'
      BY <1>3, <1>4, <2>1, <2>3, <3>1
    <3>3. QED
      BY <1>0, <3>1, <3>2 DEF BarrierIsKept
  <2>4. CASE to \notin WaitSteps /\ ~Waits(c)
    <3>1. barrier' = barrier
      BY <1>0, <2>4
    <3>2. \A d \in Clients : Waits(d)' => Waits(d)
      BY <1>3, <1>4, <2>4
    <3>3. QED
      BY <1>0, <2>1, <3>1, <3>2 DEF BarrierIsKept
  <2>5. QED
    BY <2>2, <2>3, <2>4
<1>8. WriterIsAlone'
  <2>0. ~overrun => \A e \in Clients : Writes(e) =>
                      rw < 0 /\ \A f \in Clients : Writes(f) => f = e
    BY DEF ClockIInv, WriterIsAlone
  <2>1. CASE overrun
    BY <1>0, <2>1 DEF WriterIsAlone
  <2>2. CASE ~overrun /\ Writes(c)
    <3>1. rw < 0 /\ \A e \in Clients : Writes(e) => e = c
      BY <2>0, <2>2
    <3>2. \A e \in Clients : Writes(e)' => e = c /\ to \in WriteSteps
      BY <1>3, <1>4, <3>1
    <3>3. to \in WriteSteps => rw' < 0
      BY <1>0, <3>1
    <3>4. QED
      BY <3>2, <3>3 DEF WriterIsAlone
  <2>3. CASE ~overrun /\ ~Writes(c) /\ to \in WriteSteps
    <3>1. rw = 0 /\ rw' < 0
      BY <1>0, <2>3
    <3>2. \A e \in Clients : ~Writes(e)
      BY <2>0, <2>3, <3>1
    <3>3. \A e \in Clients : Writes(e)' => e = c
      BY <1>3, <3>2
    <3>4. QED
      BY <3>1, <3>3 DEF WriterIsAlone
  <2>4. CASE ~overrun /\ ~Writes(c) /\ to \notin WriteSteps
    <3>1. \A e \in Clients : Writes(e)' <=> Writes(e)
      BY <1>3, <1>4, <2>4
    <3>2. rw < 0 => rw' < 0
      BY <1>0, <1>1, <2>4
    <3>3. \A e \in Clients : Writes(e) => rw < 0 /\ \A f \in Clients : Writes(f) => f = e
      BY <2>0, <2>4
    <3>4. QED
      BY <3>1, <3>2, <3>3 DEF WriterIsAlone
  <2>5. QED
    BY <2>1, <2>2, <2>3, <2>4
<1>9. NobodyWrites'
  <2>. SUFFICES ASSUME Clock!Syncing' PROVE \A d \in Clients : ~Writes(d)'
    BY DEF NobodyWrites
  <2>1. Clock!Syncing /\ insync
    BY DEF Clock!Syncing
  <2>2. \A d \in Clients : ~Writes(d)
    BY <2>1 DEF ClockIInv, NobodyWrites
  <2>3. to \notin WriteSteps
    BY <1>0, <2>1, <2>2
  <2>4. QED
    BY <1>3, <1>4, <2>2, <2>3
<1>10. QED
  BY <1>6, <1>7, <1>8, <1>9 DEF ClockIInv

LEMMA ClockInitKeeps ==
  ASSUME ClockIInv, Clock!EsfClockManagerInit
  PROVE  ClockIInv'
<1>1. /\ insync' = FALSE /\ rw' = 0 /\ UNCHANGED <<barrier, client, cstep>>
      /\ (cstate = "Lock" => cstate' = cstate)
      /\ overrun' = \E c \in Clients : client[c].at \in {"writing", "saved", "reading"}
  BY DEF Clock!EsfClockManagerInit
<1>7. CallHoldsTheLock'
  BY <1>1 DEF ClockIInv, CallHoldsTheLock
<1>2. \A c \in Clients : (Waits(c)' <=> Waits(c)) /\ (Writes(c)' <=> Writes(c))
  BY <1>1 DEF Waits, Writes, WaitSteps, WriteSteps
<1>3. ~overrun' => \A c \in Clients : ~Writes(c)
  BY <1>1 DEF Writes, WriteSteps
<1>4. ClockTyped' /\ BarrierIsKept' /\ NobodyWrites'
  BY <1>1, <1>2 DEF ClockIInv, ClockTyped, BarrierIsKept, NobodyWrites, Clock!Syncing
<1>5. WriterIsAlone'
  BY <1>2, <1>3 DEF WriterIsAlone
<1>6. QED
  BY <1>4, <1>5, <1>7 DEF ClockIInv

\* The flag is raised while nobody holds the barrier, and Start goes on when
\* nobody is inside.
LEMMA MarkStartingSyncKeeps ==
  ASSUME ClockIInv, Clock!MarkStartingSync
  PROVE  ClockIInv'
<1>1. UNCHANGED <<client, rw, barrier, overrun>>
  BY DEF Clock!MarkStartingSync
<1>2. \A c \in Clients : (Waits(c)' <=> Waits(c)) /\ (Writes(c)' <=> Writes(c))
  BY <1>1 DEF Waits, Writes, WaitSteps, WriteSteps
<1>3. ClockTyped' /\ CallHoldsTheLock' /\ WriterIsAlone'
  <2>1. CallHoldsTheLock'
    BY DEF ClockIInv, CallHoldsTheLock, Clock!MarkStartingSync, Clock!StepTo
  <2>2. QED
    BY <1>1, <1>2, <2>1 DEF ClockIInv, ClockTyped, WriterIsAlone
<1>4. CASE cstep = "mark" /\ barrier = Clock!NoOne /\ insync' = TRUE /\ Clock!StepTo("writers")
  <2>1. BarrierIsKept'
    BY <1>1, <1>2, <1>4 DEF ClockIInv, BarrierIsKept
  <2>2. NobodyWrites'
    BY <1>4 DEF NobodyWrites, Clock!Syncing, Clock!StepTo
  <2>3. QED
    BY <1>3, <2>1, <2>2 DEF ClockIInv
<1>5. CASE cstep = "writers" /\ rw >= 0 /\ Clock!StepTo("daemon") /\ UNCHANGED insync
  <2>1. BarrierIsKept'
    BY <1>1, <1>2, <1>5 DEF ClockIInv, BarrierIsKept
  <2>2. ~overrun => \A c \in Clients : ~Writes(c)
    BY <1>5 DEF ClockIInv, ClockTyped, WriterIsAlone
  <2>3. NobodyWrites'
    BY <1>1, <1>2, <2>2 DEF NobodyWrites, Clock!Syncing
  <2>4. QED
    BY <1>3, <2>1, <2>3 DEF ClockIInv
<1>6. QED
  BY <1>4, <1>5 DEF Clock!MarkStartingSync

LEMMA ClientGoesOnKeeps ==
  ASSUME ClockIInv, NEW c \in Clients,
         Clock!Ask(c) \/ Clock!MigrateSettings(c) \/ Clock!ClientGoesOn(c)
  PROVE  ClockIInv'
<1>. DEFINE Values == ParamValues \cup {Clock!Default}
            v == client[c].value
<1>1. /\ client \in [Clients -> [at : ClientSteps, value : Values]] /\ rw \in Int
      /\ v \in Values
  BY DEF ClockIInv, ClockTyped
<1>2. \A to : Clock!At(c, to) => client' = [client EXCEPT ![c] = [at |-> to, value |-> v]]
  <2>. SUFFICES ASSUME NEW to, Clock!At(c, to)
                PROVE  client' = [client EXCEPT ![c] = [at |-> to, value |-> v]]
    OBVIOUS
  <2>1. [client[c] EXCEPT !.at = to] = [at |-> to, value |-> v]
    BY <1>1
  <2>2. client' = [client EXCEPT ![c] = [client[c] EXCEPT !.at = to]]
    BY DEF Clock!At
  <2>3. QED
    BY <2>1, <2>2
<1>. HIDE DEF v
<1>3. ASSUME Clock!Ask(c) PROVE ClockIInv'
  <2>1. /\ client[c].at = "idle" /\ UNCHANGED <<insync, barrier, rw, cstate, cstep, overrun>>
        /\ \/ Clock!At(c, "read")
           \/ \E at \in {"set", "set forcibly"}, w \in ParamValues \cup {Clock!Unusable} :
                 /\ Clock!CheckParam(w)
                 /\ client' = [client EXCEPT ![c] = [at |-> at, value |-> w]]
    BY <1>3 DEF Clock!Ask, Clock!lifeVars, Clock!barrierVars
  <2>2. PICK to \in {"read", "set", "set forcibly"}, w \in Values :
           client' = [client EXCEPT ![c] = [at |-> to, value |-> w]]
    <3>1. CASE Clock!At(c, "read")
      BY <1>1, <1>2, <3>1
    <3>2. CASE \E at \in {"set", "set forcibly"}, w \in ParamValues \cup {Clock!Unusable} :
                 /\ Clock!CheckParam(w)
                 /\ client' = [client EXCEPT ![c] = [at |-> at, value |-> w]]
      BY <3>2 DEF Clock!CheckParam
    <3>3. QED
      BY <2>1, <3>1, <3>2
  <2>3. ~Waits(c)
    BY <2>1 DEF Waits, WaitSteps
  <2>4. QED
    BY <1>1, <2>1, <2>2, <2>3, ClientKeeps DEF ClientSteps, WaitSteps, WriteSteps
<1>4. ASSUME Clock!MigrateSettings(c) PROVE ClockIInv'
  <2>1. /\ client[c].at = "idle" /\ UNCHANGED <<insync, barrier, rw, cstate, cstep, overrun>>
        /\ \E w \in ParamValues :
              client' = [client EXCEPT ![c] = [at |-> "set forcibly", value |-> w]]
    BY <1>4 DEF Clock!MigrateSettings, Clock!lifeVars, Clock!barrierVars
  <2>2. PICK w \in Values :
           client' = [client EXCEPT ![c] = [at |-> "set forcibly", value |-> w]]
    BY <2>1
  <2>3. ~Waits(c)
    BY <2>1 DEF Waits, WaitSteps
  <2>4. QED
    BY <1>1, <2>1, <2>2, <2>3, ClientKeeps DEF ClientSteps, WaitSteps, WriteSteps
<1>5. ASSUME Clock!EnterReadingIfPossible(c) PROVE ClockIInv'
  <2>1. /\ client[c].at = "read" /\ UNCHANGED <<insync, barrier, cstate, cstep, overrun>>
        /\ \/ rw >= 0 /\ rw' = rw + 1 /\ Clock!At(c, "reading")
           \/ rw' = rw /\ Clock!At(c, "idle")
    BY <1>5 DEF Clock!EnterReadingIfPossible, Clock!lifeVars
  <2>2. ~Waits(c) /\ rw' \in Int
    BY <1>1, <2>1 DEF Waits, WaitSteps
  <2>3. QED
    BY <1>1, <1>2, <2>1, <2>2, ClientKeeps DEF ClientSteps, WaitSteps, WriteSteps
<1>6. ASSUME Clock!LeaveReading(c) PROVE ClockIInv'
  <2>1. /\ client[c].at = "reading" /\ UNCHANGED <<insync, barrier, cstate, cstep, overrun>>
        /\ Clock!At(c, "idle") /\ rw' = IF rw > 0 THEN rw - 1 ELSE rw
    BY <1>6 DEF Clock!LeaveReading, Clock!lifeVars
  <2>2. ~Waits(c) /\ rw' \in Int /\ (rw' = rw \/ rw >= 0)
    BY <1>1, <2>1 DEF Waits, WaitSteps
  <2>3. QED
    BY <1>1, <1>2, <2>1, <2>2, ClientKeeps DEF ClientSteps, WaitSteps, WriteSteps
<1>7. ASSUME Clock!EnterWritingIfPossible(c) PROVE ClockIInv'
  <2>1. UNCHANGED <<insync, cstate, cstep, overrun>>
    BY <1>7 DEF Clock!EnterWritingIfPossible, Clock!lifeVars
  <2>2. CASE /\ client[c].at \in {"set", "set forcibly"} /\ UNCHANGED rw
             /\ insync /\ Clock!At(c, "idle") /\ UNCHANGED barrier
    <3>1. ~Waits(c)
      BY <2>2 DEF Waits, WaitSteps
    <3>2. QED
      BY <1>1, <1>2, <2>1, <2>2, <3>1, ClientKeeps DEF ClientSteps, WaitSteps, WriteSteps
  <2>3. CASE /\ client[c].at \in {"set", "set forcibly"} /\ UNCHANGED rw
             /\ barrier = Clock!NoOne /\ ~insync /\ barrier' = c
             /\ Clock!At(c, "wait") \/ Clock!At(c, "wait forcibly")
    BY <1>1, <1>2, <2>1, <2>3, ClientKeeps DEF ClientSteps, WaitSteps, WriteSteps
  <2>4. CASE /\ client[c].at \in {"wait", "wait forcibly"} /\ rw = 0 /\ rw' = -1
             /\ barrier' = Clock!NoOne
             /\ Clock!At(c, "saved") \/ Clock!At(c, "writing")
    <3>1. Waits(c)
      BY <2>4 DEF Waits, WaitSteps
    <3>2. ~insync
      BY <3>1, ClientsAssumption DEF ClockIInv, BarrierIsKept, Clock!NoOne
    <3>7. rw' = -1
      BY <2>4, Zenon
    <3>6. rw' < 0 /\ rw' \in Int
      BY <3>7
    <3>3. CASE Clock!At(c, "saved")
      BY <1>1, <1>2, <2>1, <2>4, <3>1, <3>2, <3>3, <3>6, ClientKeeps
         DEF ClientSteps, WaitSteps, WriteSteps
    <3>4. CASE Clock!At(c, "writing")
      BY <1>1, <1>2, <2>1, <2>4, <3>1, <3>2, <3>4, <3>6, ClientKeeps
         DEF ClientSteps, WaitSteps, WriteSteps
    <3>5. QED
      BY <2>4, <3>3, <3>4
  <2>5. QED
    BY <1>7, <2>2, <2>3, <2>4 DEF Clock!EnterWritingIfPossible
<1>8. ASSUME Clock!SaveParams(c) PROVE ClockIInv'
  <2>1. /\ client[c].at = "writing" /\ UNCHANGED <<insync, barrier, cstate, cstep, overrun>>
        /\ \/ Clock!At(c, "saved") /\ rw' = rw
           \/ Clock!At(c, "idle") /\ rw' = IF rw < 0 THEN rw + 1 ELSE rw
    BY <1>8 DEF Clock!SaveParams, Clock!lifeVars
  <2>2. Writes(c) /\ ~Waits(c) /\ rw' \in Int
    BY <1>1, <2>1 DEF Waits, Writes, WaitSteps, WriteSteps
  <2>3. QED
    BY <1>1, <1>2, <2>1, <2>2, ClientKeeps DEF ClientSteps, WaitSteps, WriteSteps
<1>9. ASSUME Clock!SubstituteForVolatileObj(c) PROVE ClockIInv'
  <2>1. /\ client[c].at = "saved" /\ UNCHANGED <<insync, barrier, cstate, cstep, overrun>>
        /\ Clock!At(c, "idle") /\ rw' = IF rw < 0 THEN rw + 1 ELSE rw
    BY <1>9 DEF Clock!SubstituteForVolatileObj, Clock!lifeVars
  <2>2. Writes(c) /\ ~Waits(c) /\ rw' \in Int
    BY <1>1, <2>1 DEF Waits, Writes, WaitSteps, WriteSteps
  <2>3. QED
    BY <1>1, <1>2, <2>1, <2>2, ClientKeeps DEF ClientSteps, WaitSteps, WriteSteps
<1>10. QED
  BY <1>3, <1>4, <1>5, <1>6, <1>7, <1>8, <1>9 DEF Clock!ClientGoesOn

LEMMA ClockNextKeeps ==
  ASSUME ClockIInv, Clock!Next
  PROVE  ClockIInv'
<1>1. CASE Clock!EsfClockManagerDeinit
  <2>1. /\ UNCHANGED <<client, rw, barrier, overrun>>
        /\ cstep' \in {"mark", "writers"} => cstate' = "Lock"
        /\ insync' => insync /\ (cstep' \in {"mark", "writers"} \/ cstep \notin {"mark", "writers"})
    BY <1>1 DEF Clock!EsfClockManagerDeinit, Clock!lifeVars, Clock!barrierVars,
       Clock!threadVars, Clock!StepTo, Clock!Ends, Clock!Next2, Clock!StopSteps, ClockIInv,
       CallHoldsTheLock
  <2>2. QED
    BY <2>1, ClockFlagsKeep
<1>2. CASE Clock!Start
  <2>1. /\ UNCHANGED <<client, rw, barrier, overrun>>
        /\ cstep' \in {"mark", "writers"} => cstate' = "Lock"
        /\ insync' => insync /\ (cstep' \in {"mark", "writers"} \/ cstep \notin {"mark", "writers"})
    BY <1>2 DEF Clock!Start, Clock!lifeVars, Clock!barrierVars, Clock!threadVars, Clock!StepTo,
       Clock!Ends, Clock!Next2, Clock!StopSteps, ClockIInv, CallHoldsTheLock
  <2>2. QED
    BY <2>1, ClockFlagsKeep
<1>3. CASE Clock!Stop
  <2>1. /\ UNCHANGED <<client, rw, barrier, overrun>>
        /\ cstep' \in {"mark", "writers"} => cstate' = "Lock"
        /\ insync' => insync /\ (cstep' \in {"mark", "writers"} \/ cstep \notin {"mark", "writers"})
    BY <1>3 DEF Clock!Stop, Clock!lifeVars, Clock!barrierVars, Clock!threadVars, Clock!StepTo,
       Clock!Ends, Clock!Next2, Clock!StopSteps, ClockIInv, CallHoldsTheLock
  <2>2. QED
    BY <2>1, ClockFlagsKeep
<1>4. CASE Clock!OnFactoryReset
  <2>1. /\ UNCHANGED <<client, rw, barrier, overrun>>
        /\ cstep' \in {"mark", "writers"} => cstate' = "Lock"
        /\ insync' => insync /\ (cstep' \in {"mark", "writers"} \/ cstep \notin {"mark", "writers"})
    BY <1>4 DEF Clock!OnFactoryReset, Clock!lifeVars, Clock!barrierVars, Clock!threadVars,
       Clock!StepTo, Clock!Ends, Clock!Next2, Clock!StopSteps, ClockIInv, CallHoldsTheLock
  <2>2. QED
    BY <2>1, ClockFlagsKeep
<1>5. CASE Clock!RegisterNtpSyncCompleteCb
  <2>1. /\ UNCHANGED <<client, rw, barrier, overrun>>
        /\ cstep' \in {"mark", "writers"} => cstate' = "Lock"
        /\ insync' => insync /\ (cstep' \in {"mark", "writers"} \/ cstep \notin {"mark", "writers"})
    BY <1>5 DEF Clock!RegisterNtpSyncCompleteCb, Clock!lifeVars, Clock!barrierVars,
       Clock!threadVars, Clock!StepTo, Clock!Ends, Clock!Next2, Clock!StopSteps, ClockIInv,
       CallHoldsTheLock
  <2>2. QED
    BY <2>1, ClockFlagsKeep
<1>6. CASE Clock!Synchronized
  <2>1. /\ UNCHANGED <<client, rw, barrier, overrun>>
        /\ cstep' \in {"mark", "writers"} => cstate' = "Lock"
        /\ insync' => insync /\ (cstep' \in {"mark", "writers"} \/ cstep \notin {"mark", "writers"})
    BY <1>6 DEF Clock!Synchronized, Clock!lifeVars, Clock!barrierVars, Clock!threadVars,
       Clock!StepTo, Clock!Ends, Clock!Next2, Clock!StopSteps, ClockIInv, CallHoldsTheLock
  <2>2. QED
    BY <2>1, ClockFlagsKeep
<1>7. CASE Clock!StartNtpClientDaemon
  <2>1. /\ UNCHANGED <<client, rw, barrier, overrun>>
        /\ cstep' \in {"mark", "writers"} => cstate' = "Lock"
        /\ insync' => insync /\ (cstep' \in {"mark", "writers"} \/ cstep \notin {"mark", "writers"})
    BY <1>7 DEF Clock!StartNtpClientDaemon, Clock!lifeVars, Clock!barrierVars,
       Clock!threadVars, Clock!StepTo, Clock!Ends, Clock!Next2, Clock!StopSteps, ClockIInv,
       CallHoldsTheLock
  <2>2. QED
    BY <2>1, ClockFlagsKeep
<1>8. CASE Clock!CreateMonitorThread
  <2>1. /\ UNCHANGED <<client, rw, barrier, overrun>>
        /\ cstep' \in {"mark", "writers"} => cstate' = "Lock"
        /\ insync' => insync /\ (cstep' \in {"mark", "writers"} \/ cstep \notin {"mark", "writers"})
    BY <1>8 DEF Clock!CreateMonitorThread, Clock!lifeVars, Clock!barrierVars, Clock!threadVars,
       Clock!StepTo, Clock!Ends, Clock!Next2, Clock!StopSteps, ClockIInv, CallHoldsTheLock
  <2>2. QED
    BY <2>1, ClockFlagsKeep
<1>9. CASE Clock!CreateNotifierThread
  <2>1. /\ UNCHANGED <<client, rw, barrier, overrun>>
        /\ cstep' \in {"mark", "writers"} => cstate' = "Lock"
        /\ insync' => insync /\ (cstep' \in {"mark", "writers"} \/ cstep \notin {"mark", "writers"})
    BY <1>9 DEF Clock!CreateNotifierThread, Clock!lifeVars, Clock!barrierVars,
       Clock!threadVars, Clock!StepTo, Clock!Ends, Clock!Next2, Clock!StopSteps, ClockIInv,
       CallHoldsTheLock
  <2>2. QED
    BY <2>1, ClockFlagsKeep
<1>10. CASE Clock!DestroyNotifier
  <2>1. /\ UNCHANGED <<client, rw, barrier, overrun>>
        /\ cstep' \in {"mark", "writers"} => cstate' = "Lock"
        /\ insync' => insync /\ (cstep' \in {"mark", "writers"} \/ cstep \notin {"mark", "writers"})
    BY <1>10 DEF Clock!DestroyNotifier, Clock!lifeVars, Clock!barrierVars, Clock!threadVars,
       Clock!StepTo, Clock!Ends, Clock!Next2, Clock!StopSteps, ClockIInv, CallHoldsTheLock
  <2>2. QED
    BY <2>1, ClockFlagsKeep
<1>11. CASE Clock!DestroyMonitorThread
  <2>1. /\ UNCHANGED <<client, rw, barrier, overrun>>
        /\ cstep' \in {"mark", "writers"} => cstate' = "Lock"
        /\ insync' => insync /\ (cstep' \in {"mark", "writers"} \/ cstep \notin {"mark", "writers"})
    BY <1>11 DEF Clock!DestroyMonitorThread, Clock!lifeVars, Clock!barrierVars,
       Clock!threadVars, Clock!StepTo, Clock!Ends, Clock!Next2, Clock!StopSteps, ClockIInv,
       CallHoldsTheLock
  <2>2. QED
    BY <2>1, ClockFlagsKeep
<1>12. CASE Clock!WaitForTerminatingDaemon
  <2>1. /\ UNCHANGED <<client, rw, barrier, overrun>>
        /\ cstep' \in {"mark", "writers"} => cstate' = "Lock"
        /\ insync' => insync /\ (cstep' \in {"mark", "writers"} \/ cstep \notin {"mark", "writers"})
    BY <1>12 DEF Clock!WaitForTerminatingDaemon, Clock!lifeVars, Clock!barrierVars,
       Clock!threadVars, Clock!StepTo, Clock!Ends, Clock!Next2, Clock!StopSteps, ClockIInv,
       CallHoldsTheLock
  <2>2. QED
    BY <2>1, ClockFlagsKeep
<1>13. CASE Clock!MonitorThread
  <2>1. /\ UNCHANGED <<client, rw, barrier, overrun>>
        /\ cstep' \in {"mark", "writers"} => cstate' = "Lock"
        /\ insync' => insync /\ (cstep' \in {"mark", "writers"} \/ cstep \notin {"mark", "writers"})
    BY <1>13 DEF Clock!MonitorThread, Clock!lifeVars, Clock!barrierVars, Clock!threadVars,
       Clock!StepTo, Clock!Ends, Clock!Next2, Clock!StopSteps, ClockIInv, CallHoldsTheLock
  <2>2. QED
    BY <2>1, ClockFlagsKeep
<1>14. CASE Clock!NotifierThread
  <2>1. /\ UNCHANGED <<client, rw, barrier, overrun, cstate, cstep>>
        /\ insync' => insync
    BY <1>14 DEF Clock!NotifierThread, Clock!GetNotification, Clock!SaveParamsInternal,
      Clock!MarkCompletedSync, Clock!lifeVars, Clock!barrierVars, Clock!threadVars,
      Clock!StepTo, Clock!Ends, Clock!Next2, Clock!StopSteps, ClockIInv, CallHoldsTheLock
  <2>2. QED
    BY <2>1, ClockFlagsKeep DEF ClockIInv, CallHoldsTheLock
<1>15. CASE Clock!EsfClockManagerInit \/ Clock!MarkStartingSync
  BY <1>15, ClockInitKeeps, MarkStartingSyncKeeps
<1>16. CASE \E c \in Clients : Clock!Ask(c) \/ Clock!MigrateSettings(c) \/ Clock!ClientGoesOn(c)
  BY <1>16, ClientGoesOnKeeps
<1>17. QED
  BY <1>1, <1>2, <1>3, <1>4, <1>5, <1>6, <1>7, <1>8, <1>9, <1>10, <1>11, <1>12, <1>13, <1>14,
     <1>15, <1>16 DEF Clock!Next, Clock!LifeGoesOn

LEMMA ClockHolds == Spec => []ClockIInv
<1>1. Init => ClockIInv
  BY ClockInitOK DEF Init
<1>2. ClockIInv /\ [Next]_vars => ClockIInv'
  <2>. SUFFICES ASSUME ClockIInv, [Next]_vars PROVE ClockIInv'
    OBVIOUS
  <2>1. CASE UNCHANGED clockVars
    <3>1. UNCHANGED <<client, rw, barrier, overrun, insync, cstate, cstep>>
      BY <2>1 DEF clockVars
    <3>. USE DEF ClockIInv, CallHoldsTheLock
    <3>2. QED
      BY <3>1, ClockFlagsKeep
  <2>2. CASE Clock!Next
    BY <2>2, ClockNextKeeps
  <2>3. QED
    BY <2>1, <2>2 DEF Next, vars, InButton, InClock, InHal, InJson
<1>3. QED
  BY <1>1, <1>2, PTL DEF Spec

\* From the moment Start has waited for the writers until the time is
\* synchronized, only a factory reset changes the parameters of the clock
\* manager (clock_manager_setting.c), whatever clients write or read, and
\* whatever fails.
THEOREM SpecParamsStandStill == Spec => ParamsStandStill
<1>. DEFINE Still == Clock!Syncing /\ Clock!Syncing' =>
                       volatile' \in {volatile, Clock!Default, Clock!NoParams}
<1>1. ASSUME ClockIInv, [Next]_vars, Clock!Syncing, Clock!Syncing'
      PROVE  volatile' \in {volatile, Clock!Default, Clock!NoParams}
  <2>1. CASE UNCHANGED clockVars
    BY <2>1 DEF clockVars
  <2>2. CASE Clock!Next
    <3>1. insync' /\ \A c \in Clients : ~Writes(c)
      BY <1>1 DEF ClockIInv, NobodyWrites, Clock!Syncing
    <3>2. ~Clock!EsfClockManagerInit
      BY <3>1 DEF Clock!EsfClockManagerInit
    <3>3. \A c \in Clients : ~Clock!SubstituteForVolatileObj(c)
      BY <3>1 DEF Clock!SubstituteForVolatileObj, Writes, WriteSteps
    <3>4. CASE Clock!EsfClockManagerDeinit \/ Clock!OnFactoryReset
      BY <3>4 DEF Clock!EsfClockManagerDeinit, Clock!FreeResource, Clock!OnFactoryReset
    <3>5. CASE Clock!Start \/ Clock!Stop \/ Clock!RegisterNtpSyncCompleteCb \/ Clock!Synchronized
               \/ Clock!MonitorThread
      BY <3>5 DEF Clock!Start, Clock!Stop, Clock!RegisterNtpSyncCompleteCb, Clock!Synchronized,
        Clock!MonitorThread
    <3>6. CASE Clock!LifeGoesOn
      BY <3>6 DEF Clock!LifeGoesOn, Clock!MarkStartingSync, Clock!StartNtpClientDaemon,
        Clock!CreateMonitorThread, Clock!CreateNotifierThread, Clock!DestroyNotifier,
        Clock!DestroyMonitorThread, Clock!WaitForTerminatingDaemon
    <3>7. CASE Clock!NotifierThread
      BY <3>7 DEF Clock!NotifierThread, Clock!GetNotification, Clock!SaveParamsInternal,
        Clock!MarkCompletedSync
    <3>8. CASE \E c \in Clients : Clock!Ask(c) \/ Clock!MigrateSettings(c) \/ Clock!ClientGoesOn(c)
      BY <3>3, <3>8 DEF Clock!Ask, Clock!MigrateSettings, Clock!ClientGoesOn,
        Clock!EnterReadingIfPossible, Clock!LeaveReading, Clock!EnterWritingIfPossible,
        Clock!SaveParams
    <3>9. QED
      BY <2>2, <3>2, <3>4, <3>5, <3>6, <3>7, <3>8 DEF Clock!Next
  <2>3. QED
    BY <1>1, <2>1, <2>2 DEF Next, vars, InButton, InClock, InHal, InJson
<1>2. ClockIInv /\ [Next]_vars => [Still]_(Clock!clockVars)
  BY <1>1
<1>3. QED
  BY <1>2, ClockHolds, PTL DEF Spec, ParamsStandStill, Clock!ParamsStandStill

(* What is known of the two threads: the calls hold the state Lock; there  *)
(* is no notifier before Start has created it and after Stop has joined    *)
(* it, and without one nothing is queued; while the manager runs and is in *)
(* synchronization no end was requested of either thread.                  *)
Notes == {"sync", "fin"}
WithoutNotifier ==
  {"mark", "writers", "daemon", "monitor", "notifier", "stop monitor", "failed monitor",
   "stop daemon", "failed daemon"}
NotifierComesAndGoes ==
  /\ notes \in Seq(Notes)
  /\ cstep = "none" \/ cstate \in {"Lock", "gone"}
  /\ notifier = "none" => notes = <<>>
  /\ cstate \in {"Idle", "Ready"} \/ cstep \in WithoutNotifier => notifier = "none"
  /\ cstep = "notifier" => monitor \in {"check", "wait"} /\ ~finReq /\ ~posted
ThreadsGoOn ==
  cstate = "Running" /\ insync =>
    /\ monitor \in {"check", "wait"} /\ ~finReq
    /\ notifier \in {"get", "save", "call"}
    /\ \A i \in DOMAIN notes : notes[i] # "fin"
SyncIInv == NotifierComesAndGoes /\ ThreadsGoOn /\ Clock!SyncIsOnItsWay

LEMMA SyncInitOK == Clock!Init => SyncIInv
  BY DEF Clock!Init, SyncIInv, NotifierComesAndGoes, ThreadsGoOn, Clock!SyncIsOnItsWay

\* A step that leaves both threads and their queue alone keeps the
\* invariant, when it neither begins a synchronization of a manager that
\* runs nor lets it run.
LEMMA ThreadsAlone ==
  ASSUME SyncIInv, UNCHANGED <<monitor, finReq, posted, notifier, notes>>,
         missed => missed',
         cstep' = "none" \/ cstate' \in {"Lock", "gone"},
         cstate' \in {"Idle", "Ready"} \/ cstep' \in WithoutNotifier => notifier = "none",
         cstep' = "notifier" => cstep = "notifier",
         cstate' = "Running" /\ insync' => cstate = "Running" /\ insync
  PROVE  SyncIInv'
<1>1. NotifierComesAndGoes'
  BY DEF SyncIInv, NotifierComesAndGoes
<1>2. ThreadsGoOn'
  BY DEF SyncIInv, ThreadsGoOn
<1>3. Clock!SyncIsOnItsWay'
  BY DEF SyncIInv, Clock!SyncIsOnItsWay
<1>4. QED
  BY <1>1, <1>2, <1>3 DEF SyncIInv

LEMMA SyncNextKeeps ==
  ASSUME SyncIInv, Clock!Next
  PROVE  SyncIInv'
<1>0. /\ cstep = "none" \/ cstate \in {"Lock", "gone"}
      /\ notifier = "none" => notes = <<>>
      /\ cstate \in {"Idle", "Ready"} \/ cstep \in WithoutNotifier => notifier = "none"
      /\ cstep = "notifier" => monitor \in {"check", "wait"} /\ ~finReq /\ ~posted
      /\ notes \in Seq(Notes)
  BY DEF SyncIInv, NotifierComesAndGoes
<1>. DEFINE Known ==
       /\ UNCHANGED <<monitor, finReq, posted, notifier, notes>>
       /\ missed => missed'
       /\ cstep' = "none" \/ cstate' \in {"Lock", "gone"}
       /\ cstate' \in {"Idle", "Ready"} \/ cstep' \in WithoutNotifier => notifier = "none"
       /\ cstep' = "notifier" => cstep = "notifier"
       /\ cstate' = "Running" /\ insync' => cstate = "Running" /\ insync
<1>. USE DEF Clock!lifeVars, Clock!barrierVars, Clock!threadVars
<1>1. CASE Clock!EsfClockManagerInit \/ Clock!EsfClockManagerDeinit
  <2>1. Known
    <3>1. /\ UNCHANGED <<monitor, finReq, posted, notifier, notes, missed, cstep>>
          /\ cstate \in {"Idle", "Ready"} /\ cstate' \in {"Idle", "Ready"}
      BY <1>1 DEF Clock!EsfClockManagerInit, Clock!EsfClockManagerDeinit, Clock!InitSetting
    <3>2. QED
      BY <1>0, <3>1
  <2>2. QED
    BY <2>1, ThreadsAlone
<1>2. CASE Clock!Start \/ Clock!Stop
  <2>1. Known
    <3>1. /\ UNCHANGED <<monitor, finReq, posted, notifier, notes, missed>>
          /\ cstate' = "Lock"
          /\ \/ cstate = "Ready" /\ cstep' = "mark"
             \/ cstep' = "stop notifier"
      BY <1>2 DEF Clock!Start, Clock!Stop
    <3>2. QED
      BY <1>0, <3>1 DEF WithoutNotifier
  <2>2. QED
    BY <2>1, ThreadsAlone
<1>3. CASE Clock!OnFactoryReset \/ Clock!RegisterNtpSyncCompleteCb \/ Clock!Synchronized
  <2>1. Known
    BY <1>0, <1>3 DEF Clock!OnFactoryReset, Clock!RegisterNtpSyncCompleteCb, Clock!Synchronized
  <2>2. QED
    BY <2>1, ThreadsAlone
<1>4. CASE Clock!MarkStartingSync
  <2>1. Known
    BY <1>0, <1>4 DEF Clock!MarkStartingSync, Clock!StepTo, WithoutNotifier
  <2>2. QED
    BY <2>1, ThreadsAlone
<1>5. CASE Clock!StartNtpClientDaemon
  <2>1. Known
    BY <1>0, <1>5 DEF Clock!StartNtpClientDaemon, Clock!StepTo, WithoutNotifier
  <2>2. QED
    BY <2>1, ThreadsAlone
<1>6. CASE Clock!CreateMonitorThread
  <2>1. cstep = "monitor" /\ notifier = "none" /\ cstate \in {"Lock", "gone"}
    BY <1>0, <1>6 DEF Clock!CreateMonitorThread, WithoutNotifier
  <2>2. UNCHANGED <<notifier, notes>>
    BY <1>6 DEF Clock!CreateMonitorThread
  <2>3. CASE /\ monitor' = "check" /\ finReq' = FALSE /\ posted' = FALSE /\ Clock!StepTo("notifier")
    <3>1. cstep' = "notifier" /\ cstate' = cstate
      BY <2>3 DEF Clock!StepTo
    <3>2. QED
      BY <1>0, <2>1, <2>2, <2>3, <3>1
         DEF SyncIInv, NotifierComesAndGoes, ThreadsGoOn, Clock!SyncIsOnItsWay, WithoutNotifier
  <2>4. CASE UNCHANGED <<monitor, posted>> /\ finReq' = FALSE /\ Clock!Ends("Ready")
    <3>1. cstep' = "none" /\ cstate' = "Ready"
      BY <2>4 DEF Clock!Ends
    <3>2. QED
      BY <1>0, <2>1, <2>2, <3>1
         DEF SyncIInv, NotifierComesAndGoes, ThreadsGoOn, Clock!SyncIsOnItsWay, WithoutNotifier
  <2>5. QED
    BY <1>6, <2>3, <2>4 DEF Clock!CreateMonitorThread
<1>7. CASE Clock!CreateNotifierThread
  <2>1. cstep = "notifier" /\ notifier = "none" /\ notes = <<>> /\ cstate \in {"Lock", "gone"}
    BY <1>0, <1>7 DEF Clock!CreateNotifierThread, WithoutNotifier
  <2>2. UNCHANGED <<monitor, finReq, posted, notes>>
    BY <1>7 DEF Clock!CreateNotifierThread
  <2>3. CASE notifier' = "get" /\ Clock!Ends("Running")
    <3>1. cstep' = "none" /\ cstate' = "Running"
      BY <2>3 DEF Clock!Ends
    <3>2. NotifierComesAndGoes'
      BY <1>0, <2>1, <2>2, <2>3, <3>1 DEF NotifierComesAndGoes, WithoutNotifier
    <3>3. monitor' \in {"check", "wait"} /\ ~finReq' /\ ~posted' /\ notes' = <<>>
      BY <1>0, <2>1, <2>2
    <3>4. ThreadsGoOn' /\ Clock!SyncIsOnItsWay'
      BY <2>3, <3>3 DEF ThreadsGoOn, Clock!SyncIsOnItsWay
    <3>5. QED
      BY <3>2, <3>4 DEF SyncIInv
  <2>4. CASE UNCHANGED notifier /\ Clock!StepTo("failed notifier")
    <3>1. cstep' = "failed notifier" /\ cstate' = cstate
      BY <2>4 DEF Clock!StepTo
    <3>2. QED
      BY <1>0, <2>1, <2>2, <2>4, <3>1
         DEF SyncIInv, NotifierComesAndGoes, ThreadsGoOn, Clock!SyncIsOnItsWay, WithoutNotifier
  <2>5. QED
    BY <1>7, <2>3, <2>4 DEF Clock!CreateNotifierThread
<1>8. CASE Clock!DestroyNotifier
  <2>1. /\ cstep # "none" /\ cstate' = cstate /\ UNCHANGED <<monitor, finReq, posted>>
        /\ cstep' # "notifier" /\ cstep' # "none"
    BY <1>8 DEF Clock!DestroyNotifier, Clock!StopSteps, Clock!Next2, Clock!StepTo
  <2>2. cstate' \in {"Lock", "gone"}
    BY <1>0, <2>1
  <2>3. /\ notes' \in Seq(Notes)
        /\ notifier' = "none" => notes' = <<>>
        /\ cstep' \in WithoutNotifier => notifier' = "none"
    <3>1. CASE notifier = "none" /\ UNCHANGED <<notes, notifier>>
      BY <1>0, <3>1
    <3>2. CASE /\ notifier # "none" /\ Clock!PostNotification("fin") /\ UNCHANGED notifier
               /\ Clock!Next2("stop join", "failed join")
      <4>1. cstep' \in {"stop join", "failed join"}
        BY <3>2 DEF Clock!Next2, Clock!StepTo
      <4>2. notes' \in Seq(Notes)
        <5>1. "fin" \in Notes /\ notes' = Append(notes, "fin")
          BY <3>2 DEF Clock!PostNotification, Notes
        <5>2. QED
          BY <1>0, <5>1
      <4>3. cstep' \notin WithoutNotifier
        BY <4>1 DEF WithoutNotifier
      <4>4. QED
        BY <3>2, <4>2, <4>3
    <3>3. CASE notifier' = "none" /\ Clock!DeleteAllNotifications
      BY <3>3 DEF Clock!DeleteAllNotifications
    <3>. HIDE DEF Clock!lifeVars, Clock!barrierVars, Clock!threadVars
    <3>4. QED
      BY <1>8, <3>1, <3>2, <3>3 DEF Clock!DestroyNotifier
  <2>4. QED
    BY <2>1, <2>2, <2>3 DEF SyncIInv, NotifierComesAndGoes, ThreadsGoOn, Clock!SyncIsOnItsWay
<1>9. CASE Clock!DestroyMonitorThread
  <2>1. /\ cstep \in {"stop monitor", "failed monitor"} /\ UNCHANGED <<notes, notifier, posted>>
        /\ cstep' # "notifier" /\ cstep' # "none" /\ (cstate' = cstate \/ cstate' = "gone")
    BY <1>9 DEF Clock!DestroyMonitorThread, Clock!Next2, Clock!StepTo
  <2>2. cstate' \in {"Lock", "gone"} /\ notifier = "none"
    BY <1>0, <2>1 DEF WithoutNotifier
  <2>3. QED
    BY <1>0, <2>1, <2>2 DEF SyncIInv, NotifierComesAndGoes, ThreadsGoOn, Clock!SyncIsOnItsWay
<1>10. CASE Clock!WaitForTerminatingDaemon
  <2>1. notifier = "none" /\ insync' = FALSE
    BY <1>0, <1>10 DEF Clock!WaitForTerminatingDaemon, WithoutNotifier
  <2>2. Known
    BY <1>0, <1>10, <2>1 DEF Clock!WaitForTerminatingDaemon, Clock!Ends
  <2>3. QED
    BY <2>2, ThreadsAlone
<1>11. CASE Clock!MonitorThread
  <2>1. UNCHANGED <<cstate, cstep, insync, finReq, notifier, missed>>
    BY <1>11 DEF Clock!MonitorThread
  <2>2. CASE /\ monitor = "check" /\ monitor' = "wait" /\ notifier # "none"
             /\ notes' = Append(notes, "sync") /\ posted' = TRUE
    <3>1. notes' \in Seq(Notes) /\ notes'[Len(notes)+1] = "sync" /\ Len(notes)+1 \in DOMAIN notes'
      BY <1>0, <2>2 DEF Notes
    <3>2. (\A i \in DOMAIN notes : notes[i] # "fin") => \A i \in DOMAIN notes' : notes'[i] # "fin"
      BY <1>0, <2>2
    <3>3. cstep # "notifier"
      BY <1>0, <2>2 DEF WithoutNotifier
    <3>4. NotifierComesAndGoes'
      BY <1>0, <2>1, <2>2, <3>1, <3>3 DEF NotifierComesAndGoes
    <3>5. ThreadsGoOn'
      BY <2>1, <2>2, <3>2 DEF SyncIInv, ThreadsGoOn
    <3>6. Clock!SyncIsOnItsWay'
      BY <2>1, <2>2, <3>1 DEF SyncIInv, Clock!SyncIsOnItsWay
    <3>7. QED
      BY <3>4, <3>5, <3>6 DEF SyncIInv
  <2>3. CASE /\ UNCHANGED <<notes, posted>>
             /\ \/ monitor = "check" /\ monitor' = "wait"
                \/ monitor = "wait" /\ monitor' = IF finReq THEN "ended" ELSE "check"
    <3>1. NotifierComesAndGoes'
      BY <1>0, <2>1, <2>3 DEF NotifierComesAndGoes
    <3>2. ThreadsGoOn' /\ Clock!SyncIsOnItsWay'
      BY <2>1, <2>3 DEF SyncIInv, ThreadsGoOn, Clock!SyncIsOnItsWay
    <3>3. QED
      BY <3>1, <3>2 DEF SyncIInv
  <2>4. QED
    BY <1>11, <2>2, <2>3 DEF Clock!MonitorThread, Clock!PostNotification
<1>12. CASE Clock!GetNotification
  <2>1. /\ UNCHANGED <<cstate, cstep, insync, monitor, finReq, posted>>
        /\ notifier = "get" /\ notes # <<>> /\ notes' = Tail(notes)
        /\ notifier' = IF Head(notes) = "fin" THEN "ended" ELSE IF ntpCb THEN "save" ELSE "get"
        /\ missed' = (missed \/ (Head(notes) = "sync" /\ ~ntpCb))
    BY <1>12 DEF Clock!GetNotification, Clock!ProcessNotificationEvent
  <2>2. /\ notes' \in Seq(Notes) /\ Head(notes) = notes[1] /\ 1 \in DOMAIN notes
        /\ \A i \in DOMAIN notes' : i+1 \in DOMAIN notes /\ notes'[i] = notes[i+1]
        /\ \A i \in DOMAIN notes : i = 1 \/ (i-1 \in DOMAIN notes' /\ notes'[i-1] = notes[i])
    BY <1>0, <2>1
  <2>3. NotifierComesAndGoes'
    BY <1>0, <2>1, <2>2 DEF NotifierComesAndGoes, WithoutNotifier
  <2>4. ThreadsGoOn'
    <3>. SUFFICES ASSUME cstate' = "Running" /\ insync' PROVE ThreadsGoOn!2'
      BY DEF ThreadsGoOn
    <3>1. /\ monitor \in {"check", "wait"} /\ ~finReq
          /\ \A i \in DOMAIN notes : notes[i] # "fin"
      BY <2>1 DEF SyncIInv, ThreadsGoOn
    <3>2. Head(notes) # "fin" /\ \A i \in DOMAIN notes' : notes'[i] # "fin"
      BY <2>2, <3>1
    <3>3. notifier' \in {"save", "get"}
      BY <2>1, <3>2
    <3>4. QED
      BY <2>1, <3>1, <3>2, <3>3
  <2>5. Clock!SyncIsOnItsWay'
    <3>. SUFFICES ASSUME cstate' = "Running", insync', ~missed' PROVE Clock!SyncIsOnItsWay!2'
      BY DEF Clock!SyncIsOnItsWay
    <3>1. /\ monitor \in {"check", "wait"} /\ ~finReq /\ notifier' \in {"get", "save", "call"}
      BY <2>1, <2>4 DEF SyncIInv, ThreadsGoOn
    <3>2. ~missed /\ (~posted \/ \E i \in DOMAIN notes : notes[i] = "sync")
      BY <2>1 DEF SyncIInv, Clock!SyncIsOnItsWay
    <3>3. CASE ~posted
      BY <2>1, <3>1, <3>3
    <3>4. CASE \E i \in DOMAIN notes : notes[i] = "sync"
      <4>1. PICK i \in DOMAIN notes : notes[i] = "sync"
        BY <3>4
      <4>2. CASE i = 1
        <5>1. notifier' = "save"
          BY <2>1, <2>2, <4>1, <4>2
        <5>2. QED
          BY <2>1, <3>1, <5>1
      <4>3. CASE i # 1
        BY <2>1, <2>2, <3>1, <4>1, <4>3
      <4>4. QED
        BY <4>2, <4>3
    <3>5. QED
      BY <3>2, <3>3, <3>4
  <2>6. QED
    BY <2>3, <2>4, <2>5 DEF SyncIInv
<1>13. CASE Clock!SaveParamsInternal \/ Clock!MarkCompletedSync
  <2>1. /\ UNCHANGED <<cstate, cstep, monitor, finReq, posted, notes, missed>>
        /\ notifier # "none"
        /\ \/ notifier' = "call" /\ insync' = insync
           \/ notifier' = "get" /\ insync' = FALSE
    BY <1>13 DEF Clock!SaveParamsInternal, Clock!MarkCompletedSync
  <2>2. NotifierComesAndGoes'
    BY <1>0, <2>1 DEF NotifierComesAndGoes
  <2>3. ThreadsGoOn' /\ Clock!SyncIsOnItsWay'
    BY <2>1 DEF SyncIInv, ThreadsGoOn, Clock!SyncIsOnItsWay
  <2>4. QED
    BY <2>2, <2>3 DEF SyncIInv
<1>14. CASE \E c \in Clients : Clock!Ask(c) \/ Clock!MigrateSettings(c) \/ Clock!ClientGoesOn(c)
  <2>1. UNCHANGED <<monitor, finReq, posted, notifier, notes, missed, cstate, cstep, insync>>
    <3>1. PICK c \in Clients : Clock!Ask(c) \/ Clock!MigrateSettings(c) \/ Clock!ClientGoesOn(c)
      BY <1>14
    <3>2. CASE Clock!Ask(c) \/ Clock!MigrateSettings(c)
      BY <3>2 DEF Clock!Ask, Clock!MigrateSettings
    <3>3. CASE Clock!EnterReadingIfPossible(c) \/ Clock!LeaveReading(c)
      BY <3>3 DEF Clock!EnterReadingIfPossible, Clock!LeaveReading
    <3>4. CASE Clock!EnterWritingIfPossible(c)
      BY <3>4 DEF Clock!EnterWritingIfPossible
    <3>5. CASE Clock!SaveParams(c) \/ Clock!SubstituteForVolatileObj(c)
      BY <3>5 DEF Clock!SaveParams, Clock!SubstituteForVolatileObj
    <3>6. QED
      BY <3>1, <3>2, <3>3, <3>4, <3>5 DEF Clock!ClientGoesOn
  <2>2. QED
    BY <1>0, <2>1, ThreadsAlone
<1>15. QED
  BY <1>1, <1>2, <1>3, <1>4, <1>5, <1>6, <1>7, <1>8, <1>9, <1>10, <1>11, <1>12, <1>13, <1>14
     DEF Clock!Next, Clock!LifeGoesOn, Clock!NotifierThread

\* While the writers of the clock parameters wait for the time, what ends
\* their wait is not lost between the monitor and the notifier thread
\* (clock_manager_monitor.c, clock_manager_notification.c), for any clients
\* and failures: the fairness of the threads is all that WritersComeBack
\* needs besides.
THEOREM SpecSyncIsOnItsWay == Spec => []Clock!SyncIsOnItsWay
<1>1. Init => SyncIInv
  BY SyncInitOK DEF Init
<1>2. SyncIInv /\ [Next]_vars => SyncIInv'
  <2>. SUFFICES ASSUME SyncIInv, [Next]_vars PROVE SyncIInv'
    OBVIOUS
  <2>1. CASE UNCHANGED clockVars
    BY <2>1 DEF clockVars, SyncIInv, NotifierComesAndGoes, ThreadsGoOn, Clock!SyncIsOnItsWay
  <2>2. CASE Clock!Next
    BY <2>2, SyncNextKeeps
  <2>3. QED
    BY <2>1, <2>2 DEF Next, vars, InButton, InClock, InHal, InJson
<1>3. SyncIInv => Clock!SyncIsOnItsWay
  BY DEF SyncIInv
<1>4. QED
  BY <1>1, <1>2, <1>3, PTL DEF Spec

-----------------------------------------------------------------------------
(* The JSON codec.                                                         *)

(* Forests: A are the nodes there are, of all those in N, and K gives the  *)
(* kids of each.                                                           *)
ClosedIn(K, S) == \A k \in S : K[k] \subseteq S
TreeIn(N, K, n) == {m \in N : \A S \in SUBSET N : n \in S /\ ClosedIn(K, S) => m \in S}
Roots(N, A, K) == {n \in A : \A p \in N : n \notin K[p]}

\* No node has two parents, and every node is found from a root.
IsForest(N, A, K) ==
  /\ A \subseteq N /\ K \in [N -> SUBSET A]
  /\ \A n \in N \ A : K[n] = {}
  /\ \A p, q \in N : \A m \in K[p] : m \in K[q] => p = q
  /\ \A S \in SUBSET N : Roots(N, A, K) \subseteq S /\ ClosedIn(K, S) => A \subseteq S

\* A tree has its root, is closed, and is the least such set.
LEMMA TreeIsLeast ==
  ASSUME NEW N, NEW A, NEW K, IsForest(N, A, K), NEW n \in N
  PROVE  /\ n \in TreeIn(N, K, n) /\ TreeIn(N, K, n) \subseteq N
         /\ ClosedIn(K, TreeIn(N, K, n))
         /\ \A S \in SUBSET N : n \in S /\ ClosedIn(K, S) => TreeIn(N, K, n) \subseteq S
<1>. DEFINE T == TreeIn(N, K, n)
<1>1. n \in T /\ T \subseteq N
  BY DEF TreeIn
<1>2. ASSUME NEW k \in T, NEW m \in K[k] PROVE m \in T
  <2>1. m \in N
    BY <1>1, <1>2 DEF IsForest
  <2>2. ASSUME NEW S \in SUBSET N, n \in S, ClosedIn(K, S) PROVE m \in S
    <3>1. k \in S
      BY <2>2 DEF TreeIn
    <3>2. QED
      BY <1>2, <2>2, <3>1 DEF ClosedIn
  <2>3. QED
    BY <2>1, <2>2 DEF TreeIn
<1>3. ClosedIn(K, T)
  BY <1>2 DEF ClosedIn
<1>4. ASSUME NEW S \in SUBSET N, n \in S, ClosedIn(K, S) PROVE T \subseteq S
  BY <1>4 DEF TreeIn
<1>5. QED
  BY <1>1, <1>3, <1>4

\* The tree of a node there is has only such nodes.
LEMMA TreeIsThere ==
  ASSUME NEW N, NEW A, NEW K, IsForest(N, A, K), NEW n \in A
  PROVE  TreeIn(N, K, n) \subseteq A
<1>1. A \in SUBSET N /\ ClosedIn(K, A) /\ n \in N
  BY DEF IsForest, ClosedIn
<1>2. QED
  BY <1>1, TreeIsLeast

\* The parent of a node below g is in the tree of g.
LEMMA ParentIsInTree ==
  ASSUME NEW N, NEW A, NEW K, IsForest(N, A, K), NEW g \in N,
         NEW m \in TreeIn(N, K, g), m # g
  PROVE  /\ \E q \in TreeIn(N, K, g) : m \in K[q]
         /\ \A q \in N : m \in K[q] => q \in TreeIn(N, K, g)
<1>. DEFINE T == TreeIn(N, K, g)
<1>1. g \in T /\ T \subseteq N /\ ClosedIn(K, T)
      /\ \A S \in SUBSET N : g \in S /\ ClosedIn(K, S) => T \subseteq S
  BY TreeIsLeast
<1>. HIDE DEF T
<1>2. m \in T
  BY DEF T
<1>3. \E q \in T : m \in K[q]
  <2>1. SUFFICES ASSUME \A q \in T : m \notin K[q] PROVE FALSE
    OBVIOUS
  <2>2. T \ {m} \in SUBSET N /\ g \in T \ {m}
    BY <1>1
  <2>3. ClosedIn(K, T \ {m})
    BY <1>1, <2>1 DEF ClosedIn
  <2>4. T \subseteq T \ {m}
    BY <1>1, <2>2, <2>3
  <2>5. QED
    BY <1>2, <2>4
<1>4. PICK q \in T : m \in K[q]
  BY <1>3
<1>5. \A p \in N : m \in K[p] => p = q
  BY <1>1, <1>4 DEF IsForest
<1>6. QED
  BY <1>3, <1>4, <1>5 DEF T

\* A root is in no other tree, and a node is not below itself.
LEMMA NoCycle ==
  ASSUME NEW N, NEW A, NEW K, IsForest(N, A, K), NEW p \in N, NEW g \in K[p]
  PROVE  /\ g \in A /\ g \in N /\ p \in A
         /\ p \notin TreeIn(N, K, g)
         /\ \A r \in Roots(N, A, K) : r \notin TreeIn(N, K, g)
<1>. DEFINE T == TreeIn(N, K, g)
<1>1. g \in A /\ g \in N /\ p \in A
  BY DEF IsForest
<1>2. ASSUME NEW r \in Roots(N, A, K), r \in T PROVE FALSE
  <2>1. r # g
    BY DEF Roots
  <2>2. PICK q \in T : r \in K[q]
    BY <1>1, <1>2, <2>1, ParentIsInTree
  <2>3. q \in N
    BY DEF TreeIn
  <2>4. QED
    BY <2>2, <2>3 DEF Roots
<1>3. ASSUME p \in T PROVE FALSE
  <2>1. N \ T \in SUBSET N /\ Roots(N, A, K) \subseteq N \ T
    BY <1>2 DEF Roots, IsForest
  <2>2. ASSUME NEW k \in N \ T, NEW m \in K[k], m \in T PROVE FALSE
    <3>1. CASE m = g
      <4>1. k = p
        BY <2>2, <3>1 DEF IsForest
      <4>2. QED
        BY <1>3, <4>1
    <3>2. CASE m # g
      BY <1>1, <2>2, <3>2, ParentIsInTree
    <3>3. QED
      BY <3>1, <3>2
  <2>3. \A k \in N \ T : K[k] \subseteq N
    BY DEF IsForest
  <2>4. ClosedIn(K, N \ T)
    BY <2>2, <2>3 DEF ClosedIn
  <2>5. A \subseteq N \ T
    BY <2>1, <2>4 DEF IsForest
  <2>6. g \in T
    BY <1>1, TreeIsLeast
  <2>7. QED
    BY <1>1, <2>5, <2>6
<1>4. QED
  BY <1>1, <1>2, <1>3

\* Every node is in the tree of a root.
LEMMA HasRoot ==
  ASSUME NEW N, NEW A, NEW K, IsForest(N, A, K), NEW n \in A
  PROVE  \E r \in Roots(N, A, K) : n \in TreeIn(N, K, r)
<1>. DEFINE R == Roots(N, A, K)
            U == UNION {TreeIn(N, K, r) : r \in R}
<1>1. R \subseteq N
  BY DEF Roots, IsForest
<1>2. U \in SUBSET N
  BY DEF TreeIn
<1>3. R \subseteq U
  BY <1>1, TreeIsLeast
<1>4. ClosedIn(K, U)
  <2>1. SUFFICES ASSUME NEW k \in U PROVE K[k] \subseteq U
    BY DEF ClosedIn
  <2>2. PICK r \in R : k \in TreeIn(N, K, r)
    OBVIOUS
  <2>3. K[k] \subseteq TreeIn(N, K, r)
    BY <1>1, <2>2, TreeIsLeast DEF ClosedIn
  <2>4. QED
    BY <2>3
<1>5. A \subseteq U
  BY <1>2, <1>3, <1>4 DEF IsForest
<1>6. QED
  BY <1>5

-----------------------------------------------------------------------------
(* What is done to the kids of a forest: more are put below p; tree T of g is   *)
(* cut off, is emptied, or gives its place to x.                           *)
Graft(K, p, more) == [K EXCEPT ![p] = @ \cup more]
Cut(N, K, T, g) == [n \in N |-> IF n \in T THEN {} ELSE K[n] \ {g}]
Emptying(N, K, T) == [n \in N |-> IF n \in T THEN {} ELSE K[n]]
Exchange(N, K, T, g, x) ==
  [n \in N |-> IF n \in T THEN {}
               ELSE IF g \in K[n] THEN (K[n] \ {g}) \cup {x} ELSE K[n]]

\* A node without kids is added.
LEMMA LeafAdded ==
  ASSUME NEW N, NEW A, NEW K, IsForest(N, A, K), NEW x \in N \ A
  PROVE  /\ IsForest(N, A \cup {x}, K)
         /\ Roots(N, A \cup {x}, K) = Roots(N, A, K) \cup {x}
<1>1. K[x] = {} /\ \A p \in N : x \notin K[p]
  BY DEF IsForest
<1>2. Roots(N, A \cup {x}, K) = Roots(N, A, K) \cup {x}
  BY <1>1 DEF Roots
<1>3. K \in [N -> SUBSET (A \cup {x})]
  BY DEF IsForest
<1>4. QED
  BY <1>2, <1>3 DEF IsForest

\* A root becomes a kid of a node outside of its tree.
LEMMA Grafted ==
  ASSUME NEW N, NEW A, NEW K, IsForest(N, A, K),
         NEW v \in Roots(N, A, K), NEW p \in A, p \notin TreeIn(N, K, v)
  PROVE  LET L == Graft(K, p, {v})
         IN  IsForest(N, A, L) /\ Roots(N, A, L) = Roots(N, A, K) \ {v}
<1>. DEFINE L == Graft(K, p, {v})
            T == TreeIn(N, K, v)
<1>1. v \in A /\ v \in N /\ p \in N /\ \A q \in N : v \notin K[q]
  BY DEF Roots, IsForest
<1>2. L \in [N -> SUBSET A] /\ A \subseteq N
  BY <1>1 DEF IsForest, Graft
<1>3. L[p] = K[p] \cup {v} /\ \A q \in N \ {p} : L[q] = K[q]
  BY <1>1 DEF IsForest, Graft
<1>. HIDE DEF L
<1>4. \A n \in N \ A : L[n] = {}
  BY <1>3 DEF IsForest
<1>5. \A q, r \in N : \A m \in L[q] : m \in L[r] => q = r
  BY <1>1, <1>3 DEF IsForest
<1>6. Roots(N, A, L) = Roots(N, A, K) \ {v}
  BY <1>1, <1>3 DEF Roots
<1>7. ASSUME NEW S \in SUBSET N, Roots(N, A, L) \subseteq S, ClosedIn(L, S)
      PROVE  A \subseteq S
  <2>1. v \in T /\ T \subseteq N /\ ClosedIn(K, T)
    BY <1>1, TreeIsLeast
  <2>. HIDE DEF T
  <2>2. ClosedIn(K, S)
    BY <1>1, <1>3, <1>7 DEF ClosedIn
  <2>3. ClosedIn(K, S \cup T) /\ S \cup T \in SUBSET N
    BY <2>1, <2>2 DEF ClosedIn
  <2>4. Roots(N, A, K) \subseteq S \cup T
    BY <1>6, <1>7, <2>1
  <2>5. A \subseteq S \cup T
    BY <2>3, <2>4 DEF IsForest
  <2>6. p \in S
    BY <2>5 DEF T
  <2>7. v \in S
    BY <1>3, <1>7, <2>6 DEF ClosedIn
  <2>8. Roots(N, A, K) \subseteq S
    BY <1>6, <1>7, <2>7
  <2>9. QED
    BY <2>2, <2>8 DEF IsForest
<1>8. QED
  BY <1>2, <1>4, <1>5, <1>6, <1>7 DEF IsForest, L

\* The tree of a kid is cut off and goes.
LEMMA CutOff ==
  ASSUME NEW N, NEW A, NEW K, IsForest(N, A, K), NEW p \in N, NEW g \in K[p]
  PROVE  LET T == TreeIn(N, K, g)
             L == Cut(N, K, T, g)
         IN  IsForest(N, A \ T, L) /\ Roots(N, A \ T, L) = Roots(N, A, K)
<1>. DEFINE T == TreeIn(N, K, g)
            L == Cut(N, K, T, g)
            B == A \ T
<1>1. /\ g \in A /\ g \in N /\ p \in A /\ p \notin T
      /\ \A r \in Roots(N, A, K) : r \notin T
  BY NoCycle
<1>2. g \in T /\ T \subseteq N /\ ClosedIn(K, T)
  BY <1>1, TreeIsLeast
<1>3. \A q \in N, m \in T : m \in K[q] /\ m # g => q \in T
  BY <1>1, ParentIsInTree
<1>4. \A q \in N : L[q] = IF q \in T THEN {} ELSE K[q] \ {g}
  BY DEF Cut
<1>5. \A q \in N : L[q] \subseteq B
  BY <1>2, <1>3, <1>4 DEF IsForest
<1>6. L \in [N -> SUBSET B] /\ B \subseteq N
  BY <1>5 DEF IsForest, Cut
<1>. HIDE DEF T, L
<1>7. \A n \in N \ B : L[n] = {}
  BY <1>4 DEF IsForest
<1>8. \A q, r \in N : \A m \in L[q] : m \in L[r] => q = r
  BY <1>4 DEF IsForest
<1>9. Roots(N, B, L) = Roots(N, A, K)
  <2>1. ASSUME NEW r \in Roots(N, A, K) PROVE r \in Roots(N, B, L)
    BY <1>1, <1>4 DEF Roots
  <2>2. ASSUME NEW r \in Roots(N, B, L) PROVE r \in Roots(N, A, K)
    <3>1. r \in A /\ r \notin T /\ r # g
      BY <1>2 DEF Roots
    <3>2. ASSUME NEW q \in N, r \in K[q] PROVE FALSE
      <4>1. CASE q \in T
        BY <1>2, <3>1, <3>2, <4>1 DEF ClosedIn
      <4>2. CASE q \notin T
        BY <1>4, <3>1, <3>2, <4>2 DEF Roots
      <4>3. QED
        BY <4>1, <4>2
    <3>3. QED
      BY <3>1, <3>2 DEF Roots
  <2>3. QED
    BY <2>1, <2>2
<1>10. ASSUME NEW S \in SUBSET N, Roots(N, B, L) \subseteq S, ClosedIn(L, S)
       PROVE  B \subseteq S
  <2>1. S \cup T \in SUBSET N /\ Roots(N, A, K) \subseteq S \cup T
    BY <1>2, <1>9, <1>10
  <2>2. ClosedIn(K, S \cup T)
    BY <1>2, <1>4, <1>10 DEF ClosedIn
  <2>3. QED
    BY <2>1, <2>2 DEF IsForest
<1>11. IsForest(N, B, L)
  BY <1>6, <1>7, <1>8, <1>10 DEF IsForest
<1>12. QED
  BY <1>9, <1>11 DEF T, L

\* What is below a node goes.
LEMMA Emptied ==
  ASSUME NEW N, NEW A, NEW K, IsForest(N, A, K), NEW g \in A
  PROVE  LET T == TreeIn(N, K, g)
             L == Emptying(N, K, T)
             B == A \ (T \ {g})
         IN  IsForest(N, B, L) /\ Roots(N, B, L) = Roots(N, A, K)
<1>. DEFINE T == TreeIn(N, K, g)
            L == Emptying(N, K, T)
            B == A \ (T \ {g})
<1>1. g \in N
  BY DEF IsForest
<1>2. g \in T /\ T \subseteq N /\ ClosedIn(K, T)
  BY <1>1, TreeIsLeast
<1>3. /\ \A q \in N, m \in T : m \in K[q] /\ m # g => q \in T
      /\ \A m \in T : m # g => \E q \in T : m \in K[q]
  BY <1>1, ParentIsInTree
<1>4. \A q \in N : L[q] = IF q \in T THEN {} ELSE K[q]
  BY DEF Emptying
<1>5. \A q \in N : L[q] \subseteq B
  BY <1>2, <1>3, <1>4 DEF IsForest
<1>6. L \in [N -> SUBSET B] /\ B \subseteq N
  BY <1>5 DEF IsForest, Emptying
<1>13. \A q \in N : g \in K[q] => q \notin T
  BY NoCycle
<1>. HIDE DEF T, L
<1>7. \A n \in N \ B : L[n] = {}
  BY <1>4 DEF IsForest
<1>8. \A q, r \in N : \A m \in L[q] : m \in L[r] => q = r
  BY <1>4 DEF IsForest
<1>9. Roots(N, B, L) = Roots(N, A, K)
  <2>1. ASSUME NEW r \in Roots(N, A, K) PROVE r \in Roots(N, B, L)
    BY <1>2, <1>3, <1>4 DEF Roots
  <2>2. ASSUME NEW r \in Roots(N, B, L) PROVE r \in Roots(N, A, K)
    <3>1. r \in A /\ (r \in T => r = g)
      BY <1>2 DEF Roots
    <3>2. ASSUME NEW q \in N, r \in K[q] PROVE FALSE
      <4>1. CASE q \in T
        BY <1>2, <1>13, <3>1, <3>2, <4>1 DEF ClosedIn
      <4>2. CASE q \notin T
        BY <1>4, <3>1, <3>2, <4>2 DEF Roots
      <4>3. QED
        BY <4>1, <4>2
    <3>3. QED
      BY <3>1, <3>2 DEF Roots
  <2>3. QED
    BY <2>1, <2>2
<1>10. ASSUME NEW S \in SUBSET N, Roots(N, B, L) \subseteq S, ClosedIn(L, S)
       PROVE  B \subseteq S
  <2>1. S \cup T \in SUBSET N /\ Roots(N, A, K) \subseteq S \cup T
    BY <1>2, <1>9, <1>10
  <2>2. ClosedIn(K, S \cup T)
    BY <1>2, <1>4, <1>10 DEF ClosedIn
  <2>3. A \subseteq S \cup T
    BY <2>1, <2>2 DEF IsForest
  <2>4. g \in S
    <3>1. CASE g \in Roots(N, A, K)
      BY <1>9, <1>10, <3>1
    <3>2. CASE g \notin Roots(N, A, K)
      <4>1. PICK q \in N : g \in K[q]
        BY <3>2 DEF Roots
      <4>2. q \in A /\ q \notin T
        BY <1>13, <4>1 DEF IsForest
      <4>3. QED
        BY <1>4, <1>10, <2>3, <4>1, <4>2 DEF ClosedIn
    <3>3. QED
      BY <3>1, <3>2
  <2>5. QED
    BY <2>3, <2>4
<1>11. IsForest(N, B, L)
  BY <1>6, <1>7, <1>8, <1>10 DEF IsForest
<1>12. QED
  BY <1>9, <1>11 DEF T, L

\* A node gives its place to a new one and goes, with what is below it.
LEMMA Exchanged ==
  ASSUME NEW N, NEW A, NEW K, IsForest(N, A, K), NEW g \in A, NEW x \in N \ A
  PROVE  LET T == TreeIn(N, K, g)
             L == Exchange(N, K, T, g, x)
             B == (A \ T) \cup {x}
             R == Roots(N, A, K)
         IN  IsForest(N, B, L) /\ Roots(N, B, L) = IF g \in R THEN (R \ {g}) \cup {x} ELSE R
<1>. DEFINE T == TreeIn(N, K, g)
            L == Exchange(N, K, T, g, x)
            B == (A \ T) \cup {x}
            R == Roots(N, A, K)
<1>1. g \in N /\ x \in N /\ x \notin A /\ K[x] = {} /\ \A q \in N : x \notin K[q]
  BY DEF IsForest
<1>2. g \in T /\ T \subseteq A /\ ClosedIn(K, T)
  BY <1>1, TreeIsLeast, TreeIsThere
<1>3. /\ \A q \in N, m \in T : m \in K[q] /\ m # g => q \in T
      /\ \A m \in T : m # g => \E q \in T : m \in K[q]
  BY <1>1, ParentIsInTree
<1>4. \A q \in N : L[q] = IF q \in T THEN {}
                          ELSE IF g \in K[q] THEN (K[q] \ {g}) \cup {x} ELSE K[q]
  BY DEF Exchange
<1>5. \A q \in N : L[q] \subseteq B
  BY <1>2, <1>3, <1>4 DEF IsForest
<1>6. L \in [N -> SUBSET B] /\ B \subseteq N
  BY <1>5 DEF IsForest, Exchange
<1>13. \A q \in N : g \in K[q] => q \notin T
  BY NoCycle
<1>. HIDE DEF T, L
<1>7. \A n \in N \ B : L[n] = {}
  BY <1>4 DEF IsForest
<1>8. \A q, r \in N : \A m \in L[q] : m \in L[r] => q = r
  <2>1. \A q \in N : \A m \in L[q] : (m = x /\ g \in K[q]) \/ (m # x /\ m \in K[q])
    BY <1>1, <1>4
  <2>2. QED
    BY <2>1 DEF IsForest
<1>14. x \in Roots(N, B, L) <=> g \in R
  BY <1>1, <1>4, <1>13 DEF Roots
<1>15. \A r \in A \ T : r \in Roots(N, B, L) <=> r \in R
  <2>1. SUFFICES ASSUME NEW r \in A \ T PROVE r \in Roots(N, B, L) <=> r \in R
    OBVIOUS
  <2>2. r # g /\ r # x
    BY <1>1, <1>2
  <2>3. \A q \in T : r \notin K[q]
    BY <1>2 DEF ClosedIn
  <2>4. \A q \in N : r \in L[q] <=> r \in K[q]
    BY <1>4, <2>2, <2>3
  <2>5. QED
    BY <2>4 DEF Roots
<1>16. R \subseteq A /\ \A r \in R : r \in T => r = g
  BY <1>2, <1>3 DEF Roots, IsForest
<1>9. Roots(N, B, L) = IF g \in R THEN (R \ {g}) \cup {x} ELSE R
  <2>1. Roots(N, B, L) \subseteq B
    BY DEF Roots
  <2>. HIDE DEF R
  <2>2. QED
    BY <2>1, <1>2, <1>14, <1>15, <1>16
<1>10. ASSUME NEW S \in SUBSET N, Roots(N, B, L) \subseteq S, ClosedIn(L, S)
       PROVE  B \subseteq S
  <2>1. S \cup T \in SUBSET N /\ R \subseteq S \cup T
    BY <1>2, <1>9, <1>10 DEF IsForest
  <2>2. ClosedIn(K, S \cup T)
    BY <1>2, <1>4, <1>10 DEF ClosedIn
  <2>3. A \subseteq S \cup T
    BY <2>1, <2>2 DEF IsForest
  <2>4. x \in S
    <3>1. CASE g \in R
      BY <1>9, <1>10, <3>1
    <3>2. CASE g \notin R
      <4>1. PICK q \in N : g \in K[q]
        BY <3>2 DEF Roots
      <4>2. q \in A /\ q \notin T
        BY <1>13, <4>1 DEF IsForest
      <4>3. QED
        BY <1>4, <1>10, <2>3, <4>1, <4>2 DEF ClosedIn
    <3>3. QED
      BY <3>1, <3>2
  <2>5. QED
    BY <2>3, <2>4
<1>11. IsForest(N, B, L)
  BY <1>6, <1>7, <1>8, <1>10 DEF IsForest
<1>12. QED
  BY <1>9, <1>11 DEF T, L

\* A tree is copied: node o of it becomes node f[o].
LEMMA Copied ==
  ASSUME NEW N, NEW A, NEW K, IsForest(N, A, K), NEW g \in A,
         NEW f \in [TreeIn(N, K, g) -> N \ A],
         \A o, p \in TreeIn(N, K, g) : f[o] = f[p] => o = p,
         NEW L \in [N -> SUBSET N],
         \A q \in N : (\A o \in TreeIn(N, K, g) : q # f[o]) => L[q] = K[q],
         \A o \in TreeIn(N, K, g) : L[f[o]] = {f[m] : m \in K[o]}
  PROVE  LET B == A \cup {f[o] : o \in TreeIn(N, K, g)}
         IN  IsForest(N, B, L) /\ Roots(N, B, L) = Roots(N, A, K) \cup {f[g]}
<1>. DEFINE T == TreeIn(N, K, g)
            C == {f[o] : o \in T}
            B == A \cup C
<1>0. g \in N /\ A \subseteq N
  BY DEF IsForest
<1>1. g \in N /\ g \in T /\ T \subseteq A /\ ClosedIn(K, T) /\ A \subseteq N
      /\ \A S \in SUBSET N : g \in S /\ ClosedIn(K, S) => T \subseteq S
  BY <1>0, TreeIsLeast, TreeIsThere
<1>2. /\ f \in [T -> N \ A] /\ \A o, p \in T : f[o] = f[p] => o = p
      /\ \A q \in N \ C : L[q] = K[q]
      /\ \A o \in T : L[f[o]] = {f[m] : m \in K[o]}
  OBVIOUS
<1>3. \A m \in T : m # g => \E q \in T : m \in K[q]
  BY <1>1, ParentIsInTree
<1>4. \A q \in T : g \notin K[q]
  <2>1. SUFFICES ASSUME NEW q \in T, g \in K[q] PROVE FALSE
    OBVIOUS
  <2>2. q \in N
    BY <1>1
  <2>3. QED
    BY <2>1, <2>2, NoCycle
<1>5. C \subseteq N \ A
  BY <1>2
<1>6. \A o \in T : \A m \in K[o] : m \in T /\ f[m] \in C
  BY <1>1 DEF ClosedIn
<1>. HIDE DEF T
<1>7. \A o \in T : L[f[o]] \subseteq C
  BY <1>2, <1>6
<1>8. \A q \in C : L[q] \subseteq C
  BY <1>7
<1>9. \A q \in N \ C : L[q] = K[q] /\ L[q] \subseteq A
  BY <1>2 DEF IsForest
<1>10. L \in [N -> SUBSET B] /\ B \subseteq N
  BY <1>1, <1>5, <1>8, <1>9
<1>11. \A n \in N \ B : L[n] = {}
  BY <1>9 DEF IsForest
<1>12. \A q, r \in N : \A m \in L[q] : m \in L[r] => q = r
  <2>1. SUFFICES ASSUME NEW q \in N, NEW r \in N, NEW m \in L[q], m \in L[r] PROVE q = r
    OBVIOUS
  <2>2. CASE q \in C /\ r \in C
    <3>1. PICK o \in T : q = f[o]
      BY <2>2
    <3>2. PICK p \in T : r = f[p]
      BY <2>2
    <3>3. PICK a \in K[o] : m = f[a]
      BY <1>2, <2>1, <3>1
    <3>4. PICK b \in K[p] : m = f[b]
      BY <1>2, <2>1, <3>2
    <3>5. a = b
      BY <1>2, <1>6, <3>3, <3>4
    <3>6. o \in N /\ p \in N
      BY <1>1
    <3>7. o = p
      BY <3>3, <3>4, <3>5, <3>6 DEF IsForest
    <3>8. QED
      BY <3>1, <3>2, <3>7
  <2>3. CASE q \notin C /\ r \notin C
    BY <1>9, <2>1, <2>3 DEF IsForest
  <2>4. CASE q \in C /\ r \notin C
    BY <1>5, <1>8, <1>9, <2>1, <2>4
  <2>5. CASE q \notin C /\ r \in C
    BY <1>5, <1>8, <1>9, <2>1, <2>5
  <2>6. QED
    BY <2>2, <2>3, <2>4, <2>5
<1>13. \A r \in A : r \in Roots(N, B, L) <=> r \in Roots(N, A, K)
  <2>1. SUFFICES ASSUME NEW r \in A PROVE r \in Roots(N, B, L) <=> r \in Roots(N, A, K)
    OBVIOUS
  <2>2. \A q \in C : K[q] = {} /\ r \notin L[q]
    BY <1>5, <1>8 DEF IsForest
  <2>3. \A q \in N : r \in L[q] <=> r \in K[q]
    BY <1>9, <2>2
  <2>4. QED
    BY <2>3 DEF Roots
<1>14. \A o \in T : f[o] \in Roots(N, B, L) <=> o = g
  <2>1. SUFFICES ASSUME NEW o \in T PROVE f[o] \in Roots(N, B, L) <=> o = g
    OBVIOUS
  <2>2. f[o] \in C /\ f[o] \notin A
    BY <1>5
  <2>3. ASSUME o # g PROVE f[o] \notin Roots(N, B, L)
    <3>1. PICK q \in T : o \in K[q]
      BY <1>3, <2>3
    <3>2. f[o] \in L[f[q]] /\ f[q] \in N
      BY <1>2, <3>1
    <3>3. QED
      BY <3>2 DEF Roots
  <2>4. ASSUME o = g, NEW q \in N, f[o] \in L[q] PROVE FALSE
    <3>1. q \in C
      BY <1>9, <2>2, <2>4
    <3>2. PICK p \in T : q = f[p]
      BY <3>1
    <3>3. PICK m \in K[p] : f[o] = f[m]
      BY <1>2, <2>4, <3>2
    <3>4. m = o
      BY <1>2, <1>6, <3>3
    <3>5. QED
      BY <1>4, <2>4, <3>3, <3>4
  <2>5. QED
    BY <2>2, <2>3, <2>4 DEF Roots
<1>15. Roots(N, B, L) = Roots(N, A, K) \cup {f[g]}
  <2>1. Roots(N, B, L) \subseteq B /\ Roots(N, A, K) \subseteq A
    BY DEF Roots
  <2>2. QED
    BY <2>1, <1>1, <1>13, <1>14
<1>16. ASSUME NEW S \in SUBSET N, Roots(N, B, L) \subseteq S, ClosedIn(L, S)
       PROVE  B \subseteq S
  <2>1. S \cap A \in SUBSET N /\ Roots(N, A, K) \subseteq S \cap A
    BY <1>15, <1>16 DEF Roots
  <2>2. \A k \in S \cap A : K[k] = L[k] /\ K[k] \subseteq A
    BY <1>5, <1>9, <1>16
  <2>3. ClosedIn(K, S \cap A)
    BY <1>16, <2>2 DEF ClosedIn
  <2>4. A \subseteq S
    BY <2>1, <2>3 DEF IsForest
  <2>5. DEFINE U == {o \in T : f[o] \in S}
  <2>6. U \in SUBSET N /\ g \in U
    BY <1>1, <1>15, <1>16
  <2>7. ASSUME NEW k \in U, NEW m \in K[k] PROVE m \in U
    <3>1. m \in T /\ f[m] \in L[f[k]] /\ f[k] \in S
      BY <1>2, <1>6, <2>7
    <3>2. f[m] \in S
      BY <1>16, <3>1 DEF ClosedIn
    <3>3. QED
      BY <3>1, <3>2
  <2>8. ClosedIn(K, U)
    BY <2>7 DEF ClosedIn
  <2>9. T \subseteq U
    BY <1>1, <2>6, <2>8
  <2>10. QED
    BY <2>4, <2>9
<1>17. IsForest(N, B, L)
  BY <1>10, <1>11, <1>12, <1>16 DEF IsForest
<1>18. QED
  BY <1>15, <1>17 DEF T

-----------------------------------------------------------------------------
(* The tables beside a forest: A are its nodes, R its roots, M its marks.  *)
Entry == [id : Nat, node : Nat]
TableFits(A, R, tb) ==
  /\ tb \in Seq(Entry)
  /\ \A i \in DOMAIN tb : tb[i] # Json!NoEntry =>
       /\ tb[i].id = i /\ tb[i].node \in A
       /\ \A j \in DOMAIN tb : tb[j].node = tb[i].node => j = i
  /\ \A r \in R : \E i \in DOMAIN tb : tb[i].node = r
SlotsFit(M, tb, sl) ==
  /\ sl = [s \in Json!SlotSet |-> sl[s]]
  /\ \A s \in Json!SlotSet : sl[s].id # 0 =>
       /\ sl[s].id \in DOMAIN tb /\ tb[sl[s].id] # Json!NoEntry
       /\ M[tb[sl[s].id].node] = sl[s].id
       /\ \A r \in Json!SlotSet : sl[r].id = sl[s].id => r = s

Without(tb, D) == [i \in DOMAIN tb |-> IF tb[i].node \in D THEN Json!NoEntry ELSE tb[i]]
IdsIn(tb, D) == {tb[i].id : i \in {j \in DOMAIN tb : tb[j].node \in D}}
Cleared(sl, W) ==
  [s \in Json!SlotSet |-> IF sl[s].id \in W \ {0} THEN Json!NoSlot ELSE sl[s]]

LEMMA NoEntryIs == /\ Json!NoEntry \in Entry /\ Json!NoEntry.id = 0 /\ Json!NoEntry.node = 0
                   /\ Json!NoSlot.id = 0
  BY DEF Json!NoEntry, Json!NoSlot, Entry

\* An entry is in use when it has an id, or a node.
LEMMA EntryInUse ==
  ASSUME NEW A \in SUBSET Json!Nodes, NEW R, NEW tb, TableFits(A, R, tb), NEW i \in DOMAIN tb
  PROVE  /\ i \in Nat \ {0} /\ tb[i] \in Entry
         /\ tb[i] # Json!NoEntry <=> tb[i].id # 0
         /\ tb[i] # Json!NoEntry <=> tb[i].node # 0
<1>1. i \in Nat \ {0} /\ tb[i] \in Entry /\ 0 \notin A
  BY DEF TableFits, Json!Nodes
<1>2. QED
  BY <1>1, NoEntryIs DEF TableFits

\* The entries of nodes that go are dropped, and so are the slots of their ids.
LEMMA EntriesDropped ==
  ASSUME NEW A \in SUBSET Json!Nodes, NEW R, NEW M, NEW tb, NEW sl, TableFits(A, R, tb),
         SlotsFit(M, tb, sl), NEW D, NEW W, IdsIn(tb, D) \subseteq W
  PROVE  /\ TableFits(A \ D, R \ D, Without(tb, D))
         /\ SlotsFit(M, Without(tb, D), Cleared(sl, W))
         /\ \A i \in DOMAIN tb : Without(tb, D)[i].node \notin D \/ Without(tb, D)[i].node = 0
<1>. DEFINE tw == Without(tb, D)
            sw == Cleared(sl, W)
<1>1. /\ DOMAIN tw = DOMAIN tb
      /\ \A i \in DOMAIN tb : tw[i] = IF tb[i].node \in D THEN Json!NoEntry ELSE tb[i]
  BY DEF Without
<1>2. tw \in Seq(Entry)
  <2>1. tb \in Seq(Entry) /\ \A i \in DOMAIN tb : tb[i] \in Entry
    BY DEF TableFits
  <2>2. Len(tb) \in Nat /\ DOMAIN tb = 1 .. Len(tb)
    BY <2>1
  <2>3. tw \in [1 .. Len(tb) -> Entry]
    BY <2>1, <2>2, NoEntryIs DEF Without
  <2>4. QED
    BY <2>2, <2>3, SeqDef
<1>3. \A i \in DOMAIN tb : tw[i] # Json!NoEntry => tw[i] = tb[i] /\ tb[i].node \notin D
  BY <1>1
<1>4. \A i, j \in DOMAIN tb :
         tw[j].node = tw[i].node /\ tw[i] # Json!NoEntry => tb[j].node = tb[i].node
  BY <1>1, <1>3, NoEntryIs, EntryInUse
<1>5. \A r \in R \ D : \E i \in DOMAIN tb : tw[i].node = r
  BY <1>1 DEF TableFits
<1>6. TableFits(A \ D, R \ D, tw)
  BY <1>1, <1>2, <1>3, <1>4, <1>5 DEF TableFits
<1>7. \A s \in Json!SlotSet : sw[s].id # 0 => sw[s] = sl[s] /\ sl[s].id # 0 /\ sl[s].id \notin W
  BY NoEntryIs DEF Cleared
<1>8. ASSUME NEW s \in Json!SlotSet, sw[s].id # 0
      PROVE  /\ sw[s].id \in DOMAIN tb /\ tw[sw[s].id] # Json!NoEntry
             /\ M[tw[sw[s].id].node] = sw[s].id
             /\ \A r \in Json!SlotSet : sw[r].id = sw[s].id => r = s
  <2>1. PICK v : v = sl[s].id
    OBVIOUS
  <2>2. sw[s] = sl[s] /\ v # 0 /\ v \notin W
    BY <1>7, <1>8, <2>1
  <2>3. v \in DOMAIN tb /\ tb[v] # Json!NoEntry /\ M[tb[v].node] = v
        /\ \A r \in Json!SlotSet : sl[r].id = v => r = s
    BY <2>1, <2>2 DEF SlotsFit
  <2>4. tb[v].id = v
    BY <2>3 DEF TableFits
  <2>5. tb[v].node \notin D
    BY <2>2, <2>3, <2>4 DEF IdsIn
  <2>6. tw[v] = tb[v]
    BY <1>1, <2>3, <2>5
  <2>7. \A r \in Json!SlotSet : sw[r].id = v => r = s
    BY <1>7, <2>2, <2>3
  <2>8. QED
    BY <2>1, <2>2, <2>3, <2>6, <2>7
<1>9. sw = [s \in Json!SlotSet |-> sw[s]]
  BY DEF Cleared
<1>10. SlotsFit(M, tw, sw)
  BY <1>1, <1>8, <1>9 DEF SlotsFit
<1>11. QED
  BY <1>1, <1>6, <1>10, NoEntryIs

\* More nodes, fewer roots and the same marks of the nodes there were.
LEMMA MoreNodes ==
  ASSUME NEW A \in SUBSET Json!Nodes, NEW R, NEW M, NEW tb, NEW sl, TableFits(A, R, tb),
         SlotsFit(M, tb, sl),
         NEW B, A \subseteq B, NEW Q, Q \subseteq R, NEW L, \A n \in A : L[n] = M[n]
  PROVE  TableFits(B, Q, tb) /\ SlotsFit(L, tb, sl)
<1>1. TableFits(B, Q, tb)
  BY DEF TableFits
<1>2. \A i \in DOMAIN tb : tb[i] # Json!NoEntry => L[tb[i].node] = M[tb[i].node]
  BY DEF TableFits
<1>3. SlotsFit(L, tb, sl)
  BY <1>2 DEF SlotsFit
<1>4. QED
  BY <1>1, <1>3

\* A node that has no id gets the next one.
NextId(tb) == Len(tb) + 1
Adding(tb, x) == Append(tb, [id |-> NextId(tb), node |-> x])

HasNoId(A, R, M, tb, sl, x) ==
  /\ A \in SUBSET Json!Nodes /\ TableFits(A, R, tb) /\ SlotsFit(M, tb, sl)
  /\ x \in A /\ \A i \in DOMAIN tb : tb[i].node # x

LEMMA EntryAdded ==
  ASSUME NEW A, NEW R, NEW M, NEW tb, NEW sl, NEW x, HasNoId(A, R, M, tb, sl, x)
  PROVE  LET tn == Adding(tb, x)
         IN  /\ TableFits(A, R \cup {x}, tn) /\ SlotsFit(M, tn, sl)
             /\ NextId(tb) \in DOMAIN tn /\ NextId(tb) \in Nat \ {0}
             /\ tn[NextId(tb)].node = x
             /\ tn[NextId(tb)] # Json!NoEntry
             /\ \A s \in Json!SlotSet : sl[s].id # NextId(tb)
<1>. DEFINE k == NextId(tb)
            e == [id |-> k, node |-> x]
            tn == Append(tb, e)
<1>0. /\ A \in SUBSET Json!Nodes /\ TableFits(A, R, tb) /\ SlotsFit(M, tb, sl)
      /\ x \in A /\ \A i \in DOMAIN tb : tb[i].node # x
  BY DEF HasNoId
<1>1. tb \in Seq(Entry) /\ Len(tb) \in Nat /\ DOMAIN tb = 1 .. Len(tb) /\ k = Len(tb) + 1
  BY <1>0 DEF TableFits, NextId
<1>. HIDE DEF k
<1>2. x \in Nat \ {0}
  BY <1>0 DEF Json!Nodes
<1>3. e \in Entry /\ e # Json!NoEntry /\ e.id = k /\ e.node = x /\ k \in Nat \ {0}
  BY <1>0, <1>1, <1>2, NoEntryIs DEF Entry
<1>. HIDE DEF e
<1>4. /\ tn \in Seq(Entry) /\ DOMAIN tn = DOMAIN tb \cup {k} /\ k \notin DOMAIN tb
      /\ tn[k] = e /\ \A i \in DOMAIN tb : tn[i] = tb[i]
  BY <1>0, <1>1, <1>3
<1>. HIDE DEF tn
<1>5. ASSUME NEW i \in DOMAIN tn, tn[i] # Json!NoEntry
      PROVE  /\ tn[i].id = i /\ tn[i].node \in A
             /\ \A j \in DOMAIN tn : tn[j].node = tn[i].node => j = i
  <2>1. CASE i = k
    BY <1>0, <1>3, <1>4, <2>1
  <2>2. CASE i \in DOMAIN tb
    <3>1. tb[i].id = i /\ tb[i].node \in A /\ tb[i].node # x
          /\ \A j \in DOMAIN tb : tb[j].node = tb[i].node => j = i
      BY <1>0, <1>4, <1>5, <2>2 DEF TableFits
    <3>2. QED
      BY <1>0, <1>3, <1>4, <2>2, <3>1
  <2>3. QED
    BY <1>0, <1>4, <2>1, <2>2
<1>6. \A r \in R \cup {x} : \E i \in DOMAIN tn : tn[i].node = r
  BY <1>0, <1>3, <1>4 DEF TableFits
<1>7. TableFits(A, R \cup {x}, tn)
  BY <1>0, <1>4, <1>5, <1>6 DEF TableFits
<1>8. SlotsFit(M, tn, sl)
  BY <1>0, <1>4 DEF SlotsFit
<1>9. \A s \in Json!SlotSet : sl[s].id # k
  BY <1>0, <1>3, <1>4 DEF SlotsFit
<1>10. QED
  BY <1>0, <1>3, <1>4, <1>7, <1>8, <1>9 DEF tn, e, k, Adding

\* An id that was given out is lost.
LEMMA EntryLost ==
  ASSUME NEW A \in SUBSET Json!Nodes, NEW R, NEW M, NEW tb, NEW sl, TableFits(A, R, tb),
         SlotsFit(M, tb, sl)
  PROVE  LET tn == Append(tb, Json!NoEntry)
         IN  TableFits(A, R, tn) /\ SlotsFit(M, tn, sl)
<1>. DEFINE k == Len(tb) + 1
            tn == Append(tb, Json!NoEntry)
<1>1. tb \in Seq(Entry) /\ Len(tb) \in Nat /\ DOMAIN tb = 1 .. Len(tb)
  BY DEF TableFits
<1>2. /\ tn \in Seq(Entry) /\ DOMAIN tn = DOMAIN tb \cup {k} /\ k \notin DOMAIN tb
      /\ tn[k] = Json!NoEntry /\ \A i \in DOMAIN tb : tn[i] = tb[i]
  BY <1>1, NoEntryIs
<1>. HIDE DEF tn, k
<1>3. \A i \in DOMAIN tb : tb[i] # Json!NoEntry => tb[i].node # 0
  BY EntryInUse
<1>4. \A i, j \in DOMAIN tn : tn[i] # Json!NoEntry /\ tn[j].node = tn[i].node => j \in DOMAIN tb
  BY <1>2, <1>3, NoEntryIs
<1>5. TableFits(A, R, tn)
  BY <1>2, <1>4 DEF TableFits
<1>6. SlotsFit(M, tn, sl)
  BY <1>2 DEF SlotsFit
<1>7. QED
  BY <1>5, <1>6 DEF tn

\* An id goes from node g to node x, whose mark fits the slot of the id.
Moving(tb, v, x) == [tb EXCEPT ![v].node = x]

LEMMA EntryMoved ==
  ASSUME NEW A, NEW R, NEW M, NEW tb, NEW sl, NEW x, HasNoId(A, R, M, tb, sl, x),
         NEW v \in DOMAIN tb, tb[v] # Json!NoEntry,
         \A s \in Json!SlotSet : sl[s].id = v => M[x] = v
  PROVE  LET g == tb[v].node
             tn == Moving(tb, v, x)
             Q == IF g \in R THEN (R \ {g}) \cup {x} ELSE R
         IN  /\ TableFits(A \ {g}, Q, tn) /\ SlotsFit(M, tn, sl)
             /\ DOMAIN tn = DOMAIN tb /\ tn[v] # Json!NoEntry /\ tn[v].node = x
<1>1. PICK g : g = tb[v].node
  OBVIOUS
<1>2. PICK e : e = [tb[v] EXCEPT !.node = x]
  OBVIOUS
<1>3. PICK tn : tn = Moving(tb, v, x)
  OBVIOUS
<1>4. PICK Q : Q = IF g \in R THEN (R \ {g}) \cup {x} ELSE R
  OBVIOUS
<1>0. /\ A \in SUBSET Json!Nodes /\ TableFits(A, R, tb) /\ SlotsFit(M, tb, sl)
      /\ x \in A /\ \A i \in DOMAIN tb : tb[i].node # x
  BY DEF HasNoId
<1>5. tb \in Seq(Entry) /\ tb[v] \in Entry /\ v \in Nat \ {0} /\ tb[v].id = v
      /\ \A j \in DOMAIN tb : tb[j].node = g => j = v
  BY <1>0, <1>1, EntryInUse DEF TableFits
<1>16. x \in Json!Nodes
  BY <1>0
<1>17. x \in Nat \ {0}
  BY <1>0, <1>16 DEF Json!Nodes
<1>6. x \in Nat \ {0} /\ x # g
  BY <1>0, <1>1, <1>17
<1>7. e \in Entry /\ e.id = v /\ e.node = x /\ e # Json!NoEntry
  BY <1>0, <1>2, <1>5, <1>6, NoEntryIs DEF Entry
<1>8. tn = [tb EXCEPT ![v] = e]
  BY <1>0, <1>2, <1>3 DEF Moving
<1>9. /\ tn \in Seq(Entry) /\ DOMAIN tn = DOMAIN tb /\ tn[v] = e
      /\ \A i \in DOMAIN tb : i # v => tn[i] = tb[i]
  BY <1>0, <1>5, <1>7, <1>8
<1>10. ASSUME NEW i \in DOMAIN tn, tn[i] # Json!NoEntry
       PROVE  /\ tn[i].id = i /\ tn[i].node \in A \ {g}
              /\ \A j \in DOMAIN tn : tn[j].node = tn[i].node => j = i
  <2>1. CASE i = v
    BY <1>0, <1>6, <1>7, <1>9, <2>1
  <2>2. CASE i # v
    <3>1. tb[i].id = i /\ tb[i].node \in A /\ tb[i].node # x /\ tb[i].node # g
          /\ \A j \in DOMAIN tb : tb[j].node = tb[i].node => j = i
      BY <1>0, <1>5, <1>9, <1>10, <2>2 DEF TableFits
    <3>2. QED
      BY <1>0, <1>7, <1>9, <2>2, <3>1
  <2>3. QED
    BY <1>0, <2>1, <2>2
<1>11. ASSUME NEW r \in Q PROVE \E i \in DOMAIN tn : tn[i].node = r
  <2>1. CASE r = x
    BY <1>0, <1>7, <1>9, <2>1
  <2>2. CASE r # x
    <3>1. r \in R /\ r # g
      <4>1. g \in R \/ g \notin R
        OBVIOUS
      <4>2. QED
        BY <1>0, <1>4, <1>11, <2>2, <4>1
    <3>2. PICK i \in DOMAIN tb : tb[i].node = r
      BY <1>0, <3>1 DEF TableFits
    <3>3. QED
      BY <1>0, <1>1, <1>9, <3>1, <3>2
  <2>3. QED
    BY <1>0, <2>1, <2>2
<1>12. TableFits(A \ {g}, Q, tn)
  BY <1>0, <1>9, <1>10, <1>11 DEF TableFits
<1>13. ASSUME NEW s \in Json!SlotSet, sl[s].id # 0
       PROVE  /\ sl[s].id \in DOMAIN tn /\ tn[sl[s].id] # Json!NoEntry
              /\ M[tn[sl[s].id].node] = sl[s].id
  BY <1>0, <1>7, <1>9, <1>13 DEF SlotsFit
<1>14. SlotsFit(M, tn, sl)
  BY <1>0, <1>13 DEF SlotsFit
<1>15. QED
  BY <1>0, <1>1, <1>3, <1>4, <1>7, <1>9, <1>12, <1>14

\* A slot is given to an id that no other slot has, and whose node is its mark.
LEMMA SlotTaken ==
  ASSUME NEW M, NEW tb, NEW sl, SlotsFit(M, tb, sl), NEW v \in DOMAIN tb,
         tb[v] # Json!NoEntry, M[tb[v].node] = v, NEW f,
         \A s \in Json!SlotSet : sl[s].id = v => s = f, NEW z
  PROVE  SlotsFit(M, tb, [sl EXCEPT ![f] = [id |-> v, size |-> z]])
<1>1. PICK sn : sn = [sl EXCEPT ![f] = [id |-> v, size |-> z]]
  OBVIOUS
<1>2. \A s \in Json!SlotSet : IF s = f THEN sn[s].id = v ELSE sn[s] = sl[s]
  BY <1>1 DEF SlotsFit
<1>3. sn = [s \in Json!SlotSet |-> sn[s]]
  BY <1>1 DEF SlotsFit
<1>4. QED
  BY <1>1, <1>2, <1>3 DEF SlotsFit

-----------------------------------------------------------------------------
(* What parson keeps.                                                      *)
MemberKeys == Keys \cup {""}
Kid == [key : MemberKeys, node : Json!Nodes]
NodeRec == [kind : {"free", "object", "array", "string", "scalar"}, kids : Seq(Kid), mark : Nat]
KidsIn(ks) == {ks[i].node : i \in DOMAIN ks}
KidsDiffer(ks) == \A i, j \in DOMAIN ks : ks[i].node = ks[j].node => i = j

\* A node that is free is empty, only containers have members, only strings
\* are markers, and no member is there twice.
NodeFits(r) ==
  /\ r \in NodeRec
  /\ r.kind = "free" => r = Json!NoNode
  /\ r.kids # <<>> => r.kind \in {"object", "array"}
  /\ r.mark # 0 => r.kind = "string"
  /\ KidsDiffer(r.kids)

There(nd) == {n \in Json!Nodes : nd[n].kind # "free"}
Kids(nd) == [n \in Json!Nodes |-> KidsIn(nd[n].kids)]
Marks(nd) == [n \in Json!Nodes |-> nd[n].mark]
RootsOf(nd) == Roots(Json!Nodes, There(nd), Kids(nd))

NodesFit(nd) ==
  /\ nd = [n \in Json!Nodes |-> nd[n]] /\ \A n \in Json!Nodes : NodeFits(nd[n])
  /\ IsForest(Json!Nodes, There(nd), Kids(nd))

LEMMA NoNodeIs ==
  /\ NodeFits(Json!NoNode)
  /\ Json!NoNode.kind = "free" /\ Json!NoNode.kids = <<>> /\ Json!NoNode.mark = 0
  /\ KidsIn(<<>>) = {}
  BY DEF Json!NoNode, NodeFits, NodeRec, KidsDiffer, KidsIn

\* A value that was just made.
LEMMA LeafIs ==
  ASSUME NEW kind \in {"object", "array", "string", "scalar"}
  PROVE  LET r == Json!Leaf(kind)
         IN  /\ NodeFits(r) /\ r.kind = kind /\ r.kids = <<>> /\ r.mark = 0
             /\ KidsIn(r.kids) = {}
<1>1. Json!Leaf(kind) = [kind |-> kind, kids |-> <<>>, mark |-> 0]
  BY DEF Json!Leaf, Json!NoNode
<1>2. QED
  BY <1>1, NoNodeIs DEF NodeFits, NodeRec, KidsDiffer

\* A marker.
LEMMA MarkerIs ==
  ASSUME NEW v \in Nat
  PROVE  LET r == Json!Marker(v)
         IN  /\ NodeFits(r) /\ r.kind = "string" /\ r.kids = <<>> /\ r.mark = v
             /\ KidsIn(r.kids) = {}
<1>3. Json!Leaf("string") = [kind |-> "string", kids |-> <<>>, mark |-> 0]
  BY DEF Json!Leaf, Json!NoNode
<1>1. Json!Marker(v) = [kind |-> "string", kids |-> <<>>, mark |-> v]
  BY <1>3 DEF Json!Marker
<1>2. QED
  BY <1>1, NoNodeIs DEF NodeFits, NodeRec, KidsDiffer

\* A container with other members.
LEMMA MembersAre ==
  ASSUME NEW r, NodeFits(r), r.kind \in {"object", "array"}, NEW ks \in Seq(Kid), KidsDiffer(ks)
  PROVE  LET q == [r EXCEPT !.kids = ks]
         IN  NodeFits(q) /\ q.kind = r.kind /\ q.kids = ks /\ q.mark = r.mark
<1>1. r \in NodeRec /\ r.mark = 0
  BY DEF NodeFits
<1>2. PICK q : q = [r EXCEPT !.kids = ks]
  OBVIOUS
<1>3. q \in NodeRec /\ q.kind = r.kind /\ q.kids = ks /\ q.mark = r.mark
  BY <1>1, <1>2 DEF NodeRec
<1>4. QED
  BY <1>1, <1>2, <1>3 DEF NodeFits

\* A member is added at the end.
LEMMA KidAppended ==
  ASSUME NEW ks \in Seq(Kid), KidsDiffer(ks), NEW key \in MemberKeys, NEW v \in Json!Nodes,
         v \notin KidsIn(ks)
  PROVE  LET qs == Append(ks, [key |-> key, node |-> v])
         IN  qs \in Seq(Kid) /\ KidsDiffer(qs) /\ KidsIn(qs) = KidsIn(ks) \cup {v}
<1>. DEFINE k == [key |-> key, node |-> v]
            qs == Append(ks, k)
<1>1. k \in Kid /\ k.node = v
  BY DEF Kid
<1>. HIDE DEF k
<1>7. Len(ks) \in Nat /\ DOMAIN ks = 1 .. Len(ks)
  OBVIOUS
<1>8. /\ qs \in Seq(Kid) /\ Len(qs) = Len(ks) + 1
      /\ qs[Len(ks) + 1] = k /\ \A i \in 1 .. Len(ks) : qs[i] = ks[i]
  BY <1>1, <1>7
<1>. HIDE DEF qs
<1>2. /\ qs \in Seq(Kid) /\ DOMAIN qs = DOMAIN ks \cup {Len(ks) + 1}
      /\ qs[Len(ks) + 1] = k /\ \A i \in DOMAIN ks : qs[i] = ks[i]
  BY <1>7, <1>8
<1>3. \A i \in DOMAIN ks : ks[i].node # v
  BY DEF KidsIn
<1>4. KidsDiffer(qs)
  BY <1>1, <1>2, <1>3 DEF KidsDiffer
<1>5. KidsIn(qs) = KidsIn(ks) \cup {v}
  BY <1>1, <1>2 DEF KidsIn
<1>6. QED
  BY <1>2, <1>4, <1>5 DEF qs, k

\* What removing the member at a place leaves: all others, each once.
LEMMA KidsBut ==
  ASSUME NEW ks \in Seq(Kid), KidsDiffer(ks), NEW i \in DOMAIN ks, NEW qs \in Seq(Kid),
         NEW from \in [DOMAIN qs -> DOMAIN ks],
         \A j \in DOMAIN qs : qs[j] = ks[from[j]] /\ from[j] # i,
         \A j, l \in DOMAIN qs : from[j] = from[l] => j = l,
         \A l \in DOMAIN ks : l # i => \E j \in DOMAIN qs : from[j] = l
  PROVE  KidsDiffer(qs) /\ KidsIn(qs) = KidsIn(ks) \ {ks[i].node}
<1>1. KidsDiffer(qs)
  BY DEF KidsDiffer
<1>2. \A l \in DOMAIN ks : ks[l].node = ks[i].node => l = i
  BY DEF KidsDiffer
<1>3. \A m \in KidsIn(qs) : m \in KidsIn(ks) /\ m # ks[i].node
  BY <1>2 DEF KidsIn
<1>4. ASSUME NEW m \in KidsIn(ks), m # ks[i].node PROVE m \in KidsIn(qs)
  <2>1. PICK l \in DOMAIN ks : m = ks[l].node
    BY DEF KidsIn
  <2>2. l # i
    BY <1>4, <2>1
  <2>3. PICK j \in DOMAIN qs : from[j] = l
    BY <2>2
  <2>4. m = qs[j].node
    BY <2>1, <2>3
  <2>5. QED
    BY <2>4 DEF KidsIn
<1>5. QED
  BY <1>1, <1>3, <1>4

LEMMA KidRemoved ==
  ASSUME NEW ks \in Seq(Kid), KidsDiffer(ks), NEW i \in DOMAIN ks
  PROVE  LET qs == Json!RemoveAt(ks, i)
         IN  qs \in Seq(Kid) /\ KidsDiffer(qs) /\ KidsIn(qs) = KidsIn(ks) \ {ks[i].node}
<1>1. PICK n : n = Len(ks)
  OBVIOUS
<1>2. n \in Nat /\ DOMAIN ks = 1 .. n /\ i \in 1 .. n
  BY <1>1
<1>3. PICK a : a = SubSeq(ks, 1, i - 1)
  OBVIOUS
<1>4. PICK b : b = SubSeq(ks, i + 1, n)
  OBVIOUS
<1>5. a \in Seq(Kid) /\ Len(a) = i - 1 /\ \A j \in 1 .. i - 1 : a[j] = ks[j]
  BY <1>1, <1>2, <1>3
<1>6. b \in Seq(Kid) /\ Len(b) = n - i /\ \A j \in 1 .. n - i : b[j] = ks[j + i]
  BY <1>1, <1>2, <1>4
<1>7. PICK qs : qs = a \o b
  OBVIOUS
<1>8. /\ qs \in Seq(Kid) /\ Len(qs) = n - 1
      /\ \A j \in 1 .. n - 1 : qs[j] = IF j < i THEN a[j] ELSE b[j - (i - 1)]
  <2>1. /\ qs \in Seq(Kid) /\ Len(qs) = Len(a) + Len(b)
        /\ \A j \in 1 .. Len(a) + Len(b) :
             qs[j] = IF j <= Len(a) THEN a[j] ELSE b[j - Len(a)]
    BY <1>5, <1>6, <1>7, ConcatProperties
  <2>2. QED
    BY <1>2, <1>5, <1>6, <2>1
<1>9. DOMAIN qs = 1 .. n - 1
  BY <1>2, <1>8
<1>10. PICK from : from = [j \in 1 .. n - 1 |-> IF j < i THEN j ELSE j + 1]
  OBVIOUS
<1>11. \A j \in 1 .. n - 1 : qs[j] = ks[from[j]]
  <2>1. ASSUME NEW j \in 1 .. n - 1, j < i PROVE qs[j] = ks[from[j]]
    <3>1. j \in 1 .. i - 1
      BY <1>2, <2>1
    <3>2. qs[j] = a[j] /\ from[j] = j
      BY <1>8, <1>10, <2>1
    <3>3. QED
      BY <1>5, <3>1, <3>2
  <2>2. ASSUME NEW j \in 1 .. n - 1, ~(j < i) PROVE qs[j] = ks[from[j]]
    <3>1. PICK m : m = j - (i - 1)
      OBVIOUS
    <3>2. m \in 1 .. n - i /\ m + i = j + 1
      BY <1>2, <2>2, <3>1
    <3>3. qs[j] = b[m]
      BY <1>8, <2>2, <3>1
    <3>4. b[m] = ks[m + i]
      BY <1>6, <3>2
    <3>5. from[j] = j + 1
      BY <1>10, <2>2
    <3>6. QED
      BY <3>2, <3>3, <3>4, <3>5
  <2>3. QED
    BY <2>1, <2>2
<1>12. from \in [1 .. n - 1 -> 1 .. n] /\ \A j \in 1 .. n - 1 : from[j] # i
  BY <1>2, <1>10
<1>13. \A j, l \in 1 .. n - 1 : from[j] = from[l] => j = l
  BY <1>2, <1>10
<1>14. \A l \in 1 .. n : l # i => \E j \in 1 .. n - 1 : from[j] = l
  <2>1. ASSUME NEW l \in 1 .. n, l < i PROVE \E j \in 1 .. n - 1 : from[j] = l
    BY <1>2, <1>10, <2>1
  <2>2. ASSUME NEW l \in 1 .. n, l > i PROVE \E j \in 1 .. n - 1 : from[j] = l
    <3>1. l - 1 \in 1 .. n - 1 /\ from[l - 1] = l
      BY <1>2, <1>10, <2>2
    <3>2. QED
      BY <3>1
  <2>3. QED
    BY <1>2, <2>1, <2>2
<1>15. KidsDiffer(qs) /\ KidsIn(qs) = KidsIn(ks) \ {ks[i].node}
  <2>1. /\ from \in [DOMAIN qs -> DOMAIN ks]
        /\ \A j \in DOMAIN qs : qs[j] = ks[from[j]] /\ from[j] # i
        /\ \A j, l \in DOMAIN qs : from[j] = from[l] => j = l
        /\ \A l \in DOMAIN ks : l # i => \E j \in DOMAIN qs : from[j] = l
    BY <1>2, <1>9, <1>11, <1>12, <1>13, <1>14
  <2>2. qs \in Seq(Kid)
    BY <1>8
  <2>3. QED
    BY <2>1, <2>2, KidsBut
<1>16. QED
  BY <1>1, <1>3, <1>4, <1>7, <1>8, <1>15 DEF Json!RemoveAt

LEMMA KidSwapped ==
  ASSUME NEW ks \in Seq(Kid), KidsDiffer(ks), NEW i \in DOMAIN ks
  PROVE  LET qs == Json!Swapped(ks, i)
         IN  qs \in Seq(Kid) /\ KidsDiffer(qs) /\ KidsIn(qs) = KidsIn(ks) \ {ks[i].node}
<1>1. PICK n : n = Len(ks)
  OBVIOUS
<1>2. n \in Nat /\ DOMAIN ks = 1 .. n /\ i \in 1 .. n /\ \A j \in 1 .. n : ks[j] \in Kid
  BY <1>1
<1>3. PICK qs : qs = Json!Swapped(ks, i)
  OBVIOUS
<1>4. qs = [j \in 1 .. n - 1 |-> IF j = i THEN ks[n] ELSE ks[j]]
  BY <1>1, <1>3 DEF Json!Swapped
<1>5. qs \in [1 .. n - 1 -> Kid]
  BY <1>2, <1>4
<1>6. qs \in Seq(Kid) /\ DOMAIN qs = 1 .. n - 1
  BY <1>2, <1>5, SeqDef
<1>7. PICK from : from = [j \in 1 .. n - 1 |-> IF j = i THEN n ELSE j]
  OBVIOUS
<1>8. \A j \in 1 .. n - 1 : qs[j] = ks[from[j]]
  BY <1>2, <1>4, <1>7
<1>9. from \in [1 .. n - 1 -> 1 .. n] /\ \A j \in 1 .. n - 1 : from[j] # i
  BY <1>2, <1>7
<1>10. \A j, l \in 1 .. n - 1 : from[j] = from[l] => j = l
  BY <1>2, <1>7
<1>11. ASSUME NEW l \in 1 .. n, l # i PROVE \E j \in 1 .. n - 1 : from[j] = l
  <2>1. CASE l = n
    <3>1. i \in 1 .. n - 1 /\ from[i] = l
      BY <1>2, <1>7, <1>11, <2>1
    <3>2. QED
      BY <3>1
  <2>2. CASE l # n
    <3>1. l \in 1 .. n - 1 /\ from[l] = l
      BY <1>2, <1>7, <1>11, <2>2
    <3>2. QED
      BY <3>1
  <2>3. QED
    BY <2>1, <2>2
<1>12. KidsDiffer(qs) /\ KidsIn(qs) = KidsIn(ks) \ {ks[i].node}
  <2>1. /\ from \in [DOMAIN qs -> DOMAIN ks]
        /\ \A j \in DOMAIN qs : qs[j] = ks[from[j]] /\ from[j] # i
        /\ \A j, l \in DOMAIN qs : from[j] = from[l] => j = l
        /\ \A l \in DOMAIN ks : l # i => \E j \in DOMAIN qs : from[j] = l
    BY <1>2, <1>6, <1>8, <1>9, <1>10, <1>11
  <2>2. qs \in Seq(Kid)
    BY <1>6
  <2>3. QED
    BY <2>1, <2>2, KidsBut
<1>13. QED
  BY <1>3, <1>6, <1>12

\* Another node takes the place of a member.
Putting(ks, i, v) == [ks EXCEPT ![i].node = v]
LEMMA KidReplaced ==
  ASSUME NEW ks \in Seq(Kid), KidsDiffer(ks), NEW i \in DOMAIN ks, NEW v \in Json!Nodes,
         v \notin KidsIn(ks)
  PROVE  LET qs == Putting(ks, i, v)
         IN  /\ qs \in Seq(Kid) /\ KidsDiffer(qs)
             /\ KidsIn(qs) = (KidsIn(ks) \ {ks[i].node}) \cup {v}
<1>1. PICK k : k = [ks[i] EXCEPT !.node = v]
  OBVIOUS
<1>2. PICK qs : qs = Putting(ks, i, v)
  OBVIOUS
<1>3. ks[i] \in Kid
  OBVIOUS
<1>4. k \in Kid /\ k.node = v
  BY <1>1, <1>3 DEF Kid
<1>5. qs = [ks EXCEPT ![i] = k]
  BY <1>1, <1>2 DEF Putting
<1>6. /\ qs \in Seq(Kid) /\ DOMAIN qs = DOMAIN ks /\ qs[i] = k
      /\ \A j \in DOMAIN ks : j # i => qs[j] = ks[j]
  BY <1>4, <1>5
<1>7. \A j \in DOMAIN ks : ks[j].node # v /\ (ks[j].node = ks[i].node => j = i)
  BY DEF KidsIn, KidsDiffer
<1>8. KidsDiffer(qs)
  BY <1>4, <1>6, <1>7 DEF KidsDiffer
<1>9. KidsIn(qs) = (KidsIn(ks) \ {ks[i].node}) \cup {v}
  <2>1. ASSUME NEW m \in KidsIn(qs) PROVE m \in (KidsIn(ks) \ {ks[i].node}) \cup {v}
    BY <1>4, <1>6, <1>7 DEF KidsIn
  <2>2. ASSUME NEW m \in (KidsIn(ks) \ {ks[i].node}) \cup {v} PROVE m \in KidsIn(qs)
    <3>1. CASE m = v
      BY <1>4, <1>6, <3>1 DEF KidsIn
    <3>2. CASE m # v
      <4>1. PICK j \in DOMAIN ks : m = ks[j].node
        BY <2>2, <3>2 DEF KidsIn
      <4>2. j # i
        BY <2>2, <3>2, <4>1
      <4>3. QED
        BY <1>6, <4>1, <4>2 DEF KidsIn
    <3>3. QED
      BY <3>1, <3>2
  <2>3. QED
    BY <2>1, <2>2
<1>10. QED
  BY <1>2, <1>6, <1>8, <1>9

\* Every member gets another node, different ones different nodes.
LEMMA KidsRelinked ==
  ASSUME NEW ks \in Seq(Kid), KidsDiffer(ks), NEW link,
         \A m \in KidsIn(ks) : link[m] \in Json!Nodes,
         \A m, k \in KidsIn(ks) : link[m] = link[k] => m = k
  PROVE  LET qs == Json!Relinked(ks, link)
         IN  /\ qs \in Seq(Kid) /\ KidsDiffer(qs)
             /\ KidsIn(qs) = {link[m] : m \in KidsIn(ks)}
             /\ qs = <<>> <=> ks = <<>>
<1>. DEFINE n == Len(ks)
            qs == Json!Relinked(ks, link)
<1>1. n \in Nat /\ DOMAIN ks = 1 .. n /\ \A i \in 1 .. n : ks[i] \in Kid
  OBVIOUS
<1>2. qs = [i \in 1 .. n |-> [key |-> ks[i].key, node |-> link[ks[i].node]]]
  BY <1>1 DEF Json!Relinked
<1>3. \A i \in 1 .. n : ks[i].node \in KidsIn(ks)
  BY <1>1 DEF KidsIn
<1>10. \A i \in 1 .. n : link[ks[i].node] \in Json!Nodes /\ ks[i].key \in MemberKeys
  BY <1>1, <1>3 DEF Kid
<1>4. \A i \in 1 .. n : qs[i] \in Kid /\ qs[i].node = link[ks[i].node]
  <2>1. SUFFICES ASSUME NEW i \in 1 .. n PROVE qs[i] \in Kid /\ qs[i].node = link[ks[i].node]
    OBVIOUS
  <2>2. qs[i] = [key |-> ks[i].key, node |-> link[ks[i].node]]
    BY <1>2
  <2>3. QED
    BY <1>10, <2>2 DEF Kid
<1>5. qs \in Seq(Kid) /\ DOMAIN qs = 1 .. n
  <2>1. qs \in [1 .. n -> Kid]
    BY <1>2, <1>4
  <2>2. QED
    BY <1>1, <2>1, SeqDef
<1>. HIDE DEF qs
<1>6. KidsDiffer(qs)
  BY <1>1, <1>3, <1>4, <1>5 DEF KidsDiffer
<1>7. KidsIn(qs) = {link[m] : m \in KidsIn(ks)}
  <2>1. KidsIn(qs) = {link[ks[i].node] : i \in 1 .. n}
    BY <1>4, <1>5 DEF KidsIn
  <2>2. KidsIn(ks) = {ks[i].node : i \in 1 .. n}
    BY <1>1 DEF KidsIn
  <2>3. QED
    BY <2>1, <2>2
<1>8. qs = <<>> <=> ks = <<>>
  BY <1>1, <1>5
<1>9. QED
  BY <1>5, <1>6, <1>7, <1>8 DEF qs

-----------------------------------------------------------------------------
(* The changes of the trees.                                               *)
WithKids(nd, p, ks) == [nd EXCEPT ![p].kids = ks]
WithMemberAt(nd, p, i, v) == [nd EXCEPT ![p].kids[i].node = v]
WithNode(nd, x, r) == [nd EXCEPT ![x] = r]
WithMember(nd, p, key, v) == [nd EXCEPT ![p].kids = Append(@, [key |-> key, node |-> v])]
LEMMA NodeIs ==
  ASSUME NEW nd, NodesFit(nd), NEW n \in Json!Nodes
  PROVE  /\ NodeFits(nd[n]) /\ nd[n].kids \in Seq(Kid) /\ KidsDiffer(nd[n].kids)
         /\ Kids(nd)[n] = KidsIn(nd[n].kids) /\ Marks(nd)[n] = nd[n].mark
         /\ n \notin There(nd) => nd[n] = Json!NoNode
         /\ There(nd) \subseteq Json!Nodes
  BY DEF NodesFit, NodeFits, NodeRec, Kids, Marks, There

\* The nodes that are free again, and those that stay.
LEMMA FreedIs ==
  ASSUME NEW nd, NodesFit(nd), NEW T
  PROVE  LET fd == Json!Freed(nd, T)
         IN  /\ fd = [n \in Json!Nodes |-> fd[n]]
             /\ \A n \in Json!Nodes : NodeFits(fd[n])
             /\ \A n \in T \cap Json!Nodes : fd[n] = Json!NoNode
             /\ \A n \in Json!Nodes \ T : fd[n] = nd[n]
<1>1. /\ DOMAIN Json!Freed(nd, T) = Json!Nodes
      /\ \A n \in Json!Nodes : Json!Freed(nd, T)[n] = IF n \in T THEN Json!NoNode ELSE nd[n]
  BY DEF Json!Freed
<1>2. Json!Freed(nd, T) = [n \in Json!Nodes |-> Json!Freed(nd, T)[n]]
  BY DEF Json!Freed
<1>3. QED
  BY <1>1, <1>2, NoNodeIs DEF NodesFit

\* A node without members is made.
LEMMA NodeMade ==
  ASSUME NEW nd, NodesFit(nd), NEW x \in Json!Nodes \ There(nd),
         NEW r, NodeFits(r), r.kind # "free", KidsIn(r.kids) = {}
  PROVE  LET ne == WithNode(nd, x, r)
         IN  /\ NodesFit(ne) /\ There(ne) = There(nd) \cup {x}
             /\ RootsOf(ne) = RootsOf(nd) \cup {x}
             /\ Kids(ne) = Kids(nd)
             /\ \A n \in There(nd) : Marks(ne)[n] = Marks(nd)[n]
             /\ Marks(ne)[x] = r.mark
<1>1. PICK ne : ne = WithNode(nd, x, r)
  OBVIOUS
<1>2. /\ ne = [n \in Json!Nodes |-> ne[n]] /\ ne[x] = r
      /\ \A n \in Json!Nodes : n # x => ne[n] = nd[n]
  BY <1>1 DEF NodesFit, WithNode
<1>3. \A n \in Json!Nodes : NodeFits(ne[n])
  BY <1>2 DEF NodesFit
<1>4. There(ne) = There(nd) \cup {x}
  BY <1>2 DEF There
<1>5. nd[x].kids = <<>>
  BY NodeIs, NoNodeIs
<1>6. \A n \in Json!Nodes : KidsIn(ne[n].kids) = KidsIn(nd[n].kids)
  BY <1>2, <1>5, NoNodeIs
<1>7. Kids(ne) = Kids(nd)
  BY <1>6 DEF Kids
<1>8. IsForest(Json!Nodes, There(nd), Kids(nd))
  BY DEF NodesFit
<1>9. /\ IsForest(Json!Nodes, There(ne), Kids(ne))
      /\ RootsOf(ne) = RootsOf(nd) \cup {x}
  BY <1>4, <1>7, <1>8, LeafAdded DEF RootsOf
<1>10. NodesFit(ne)
  BY <1>2, <1>3, <1>9 DEF NodesFit
<1>11. \A n \in There(nd) : Marks(ne)[n] = Marks(nd)[n]
  BY <1>2 DEF Marks, There
<1>12. Marks(ne)[x] = r.mark
  BY <1>2 DEF Marks
<1>13. QED
  BY <1>1, <1>4, <1>7, <1>9, <1>10, <1>11, <1>12

\* A root becomes a member.
LEMMA MemberAdded ==
  ASSUME NEW nd, NodesFit(nd), NEW p \in There(nd), nd[p].kind \in {"object", "array"},
         NEW v \in RootsOf(nd), p \notin TreeIn(Json!Nodes, Kids(nd), v), NEW key \in MemberKeys
  PROVE  LET ne == WithMember(nd, p, key, v)
         IN  /\ NodesFit(ne) /\ There(ne) = There(nd) /\ RootsOf(ne) = RootsOf(nd) \ {v}
             /\ \A n \in There(nd) : Marks(ne)[n] = Marks(nd)[n]
<1>1. PICK ks : ks = Append(nd[p].kids, [key |-> key, node |-> v])
  OBVIOUS
<1>2. PICK r : r = [nd[p] EXCEPT !.kids = ks]
  OBVIOUS
<1>3. PICK ne : ne = WithMember(nd, p, key, v)
  OBVIOUS
<1>4. ne = [nd EXCEPT ![p] = r]
  BY <1>1, <1>2, <1>3 DEF WithMember
<1>5. p \in Json!Nodes /\ v \in Json!Nodes /\ v \notin KidsIn(nd[p].kids)
  BY NodeIs DEF There, RootsOf, Roots
<1>6. ks \in Seq(Kid) /\ KidsDiffer(ks) /\ KidsIn(ks) = Kids(nd)[p] \cup {v}
  BY <1>1, <1>5, NodeIs, KidAppended
<1>7. NodeFits(r) /\ r.kind = nd[p].kind /\ r.kids = ks /\ r.mark = nd[p].mark
  BY <1>2, <1>5, <1>6, NodeIs, MembersAre
<1>8. /\ ne = [n \in Json!Nodes |-> ne[n]] /\ ne[p] = r
      /\ \A n \in Json!Nodes : n # p => ne[n] = nd[n]
  BY <1>4, <1>5 DEF NodesFit
<1>9. \A n \in Json!Nodes : NodeFits(ne[n])
  BY <1>7, <1>8, NodeIs
<1>10. There(ne) = There(nd)
  BY <1>7, <1>8 DEF There
<1>11. PICK L : L = Graft(Kids(nd), p, {v})
  OBVIOUS
<1>12. Kids(ne) = L
  <2>1. L = [n \in Json!Nodes |-> L[n]]
    BY <1>11 DEF Kids, Graft
  <2>2. \A n \in Json!Nodes : L[n] = IF n = p THEN Kids(nd)[p] \cup {v} ELSE Kids(nd)[n]
    BY <1>11 DEF Kids, Graft
  <2>3. KidsIn(ne[p].kids) = L[p]
    BY <1>5, <1>6, <1>7, <1>8, <2>2
  <2>4. \A n \in Json!Nodes : n # p => KidsIn(ne[n].kids) = L[n]
    BY <1>8, <2>2, NodeIs
  <2>5. \A n \in Json!Nodes : KidsIn(ne[n].kids) = L[n]
    BY <2>3, <2>4
  <2>6. QED
    BY <2>1, <2>5 DEF Kids
<1>13. IsForest(Json!Nodes, There(nd), Kids(nd)) /\ v \in Roots(Json!Nodes, There(nd), Kids(nd))
  BY DEF NodesFit, RootsOf
<1>14. IsForest(Json!Nodes, There(nd), L) /\ Roots(Json!Nodes, There(nd), L) = RootsOf(nd) \ {v}
  <2>1. PICK K : K = Kids(nd)
    OBVIOUS
  <2>2. /\ IsForest(Json!Nodes, There(nd), K) /\ v \in Roots(Json!Nodes, There(nd), K)
        /\ p \notin TreeIn(Json!Nodes, K, v) /\ L = Graft(K, p, {v})
    BY <1>11, <1>13, <2>1
  <2>3. IsForest(Json!Nodes, There(nd), L)
        /\ Roots(Json!Nodes, There(nd), L) = Roots(Json!Nodes, There(nd), K) \ {v}
    BY <2>2, Grafted
  <2>4. QED
    BY <2>1, <2>3 DEF RootsOf
<1>15. NodesFit(ne) /\ RootsOf(ne) = RootsOf(nd) \ {v}
  BY <1>8, <1>9, <1>10, <1>12, <1>14 DEF NodesFit, RootsOf
<1>16. \A n \in There(nd) : Marks(ne)[n] = Marks(nd)[n]
  BY <1>7, <1>8 DEF Marks, There
<1>17. QED
  BY <1>3, <1>10, <1>15, <1>16

\* The nodes below a member are freed, and its container gets other members:
\* the common part of a removal and a replacement.
Freeing(nd, p, g, ks, more, T, L, ne) ==
  /\ NodesFit(nd) /\ p \in There(nd) /\ nd[p].kind \in {"object", "array"}
  /\ g \in KidsIn(nd[p].kids) /\ ks \in Seq(Kid) /\ KidsDiffer(ks)
  /\ more \subseteq RootsOf(nd) /\ KidsIn(ks) = (KidsIn(nd[p].kids) \ {g}) \cup more
  /\ T = TreeIn(Json!Nodes, Kids(nd), g) /\ L = Cut(Json!Nodes, Kids(nd), T, g)
  /\ ne = WithKids(Json!Freed(nd, T), p, ks)

LEMMA MemberFreed ==
  ASSUME NEW nd, NEW p, NEW g, NEW ks, NEW more, NEW T, NEW L, NEW ne,
         Freeing(nd, p, g, ks, more, T, L, ne)
  PROVE  /\ ne = [n \in Json!Nodes |-> ne[n]]
         /\ \A n \in Json!Nodes : NodeFits(ne[n])
         /\ There(ne) = There(nd) \ T
         /\ Kids(ne) = Graft(L, p, more)
         /\ IsForest(Json!Nodes, There(ne), L)
         /\ Roots(Json!Nodes, There(ne), L) = RootsOf(nd)
         /\ p \notin T /\ \A n \in T : n \notin RootsOf(nd)
         /\ \A n \in There(nd) \ T : Marks(ne)[n] = Marks(nd)[n]
<1>1. /\ NodesFit(nd) /\ p \in There(nd) /\ nd[p].kind \in {"object", "array"}
      /\ g \in KidsIn(nd[p].kids) /\ ks \in Seq(Kid) /\ KidsDiffer(ks)
      /\ more \subseteq RootsOf(nd) /\ KidsIn(ks) = (KidsIn(nd[p].kids) \ {g}) \cup more
      /\ T = TreeIn(Json!Nodes, Kids(nd), g) /\ L = Cut(Json!Nodes, Kids(nd), T, g)
      /\ ne = WithKids(Json!Freed(nd, T), p, ks)
  BY DEF Freeing
<1>2. PICK fd : fd = Json!Freed(nd, T)
  OBVIOUS
<1>4. /\ L = [q \in Json!Nodes |-> L[q]]
      /\ \A q \in Json!Nodes : L[q] = IF q \in T THEN {} ELSE Kids(nd)[q] \ {g}
  BY <1>1 DEF Cut
<1>5. p \in Json!Nodes /\ g \in Kids(nd)[p] /\ IsForest(Json!Nodes, There(nd), Kids(nd))
  BY <1>1, NodeIs DEF There, NodesFit
<1>6. /\ IsForest(Json!Nodes, There(nd) \ T, L)
      /\ Roots(Json!Nodes, There(nd) \ T, L) = RootsOf(nd)
  BY <1>1, <1>5, CutOff DEF RootsOf
<1>7. p \notin T /\ \A n \in RootsOf(nd) : n \notin T
  BY <1>1, <1>5, NoCycle DEF RootsOf
<1>8. \A q \in Json!Nodes : g \in Kids(nd)[q] => q = p
  BY <1>5 DEF IsForest
<1>9. /\ fd = [n \in Json!Nodes |-> fd[n]] /\ \A n \in Json!Nodes : NodeFits(fd[n])
      /\ \A n \in T \cap Json!Nodes : fd[n] = Json!NoNode
      /\ \A n \in Json!Nodes \ T : fd[n] = nd[n]
  BY <1>1, <1>2, FreedIs
<1>10. PICK r : r = [fd[p] EXCEPT !.kids = ks]
  OBVIOUS
<1>11. fd[p] = nd[p]
  BY <1>5, <1>7, <1>9
<1>12. NodeFits(r) /\ r.kind = nd[p].kind /\ r.kids = ks /\ r.mark = nd[p].mark
  BY <1>1, <1>5, <1>10, <1>11, NodeIs, MembersAre
<1>13. ne = [fd EXCEPT ![p] = r]
  BY <1>1, <1>2, <1>10 DEF WithKids
<1>14. /\ ne = [n \in Json!Nodes |-> ne[n]] /\ ne[p] = r
       /\ \A n \in Json!Nodes : n # p => ne[n] = fd[n]
  BY <1>5, <1>9, <1>13
<1>15. \A n \in Json!Nodes : NodeFits(ne[n])
  BY <1>9, <1>12, <1>14
<1>16. There(ne) = There(nd) \ T
  BY <1>7, <1>9, <1>11, <1>12, <1>14, NoNodeIs DEF There
<1>17. Kids(ne) = Graft(L, p, more)
  <2>1. PICK M : M = Graft(L, p, more)
    OBVIOUS
  <2>2. M = [n \in Json!Nodes |-> M[n]] /\ M[p] = L[p] \cup more
        /\ \A n \in Json!Nodes : n # p => M[n] = L[n]
    BY <1>4, <1>5, <2>1 DEF Graft
  <2>3. M[p] = KidsIn(ks)
    BY <1>1, <1>4, <1>5, <1>7, <2>2, NodeIs
  <2>4. \A n \in Json!Nodes : n # p => KidsIn(ne[n].kids) = L[n]
    <3>1. SUFFICES ASSUME NEW n \in Json!Nodes, n # p PROVE KidsIn(ne[n].kids) = L[n]
      OBVIOUS
    <3>2. CASE n \in T
      BY <1>4, <1>9, <1>14, <3>1, <3>2, NoNodeIs
    <3>3. CASE n \notin T
      <4>1. L[n] = Kids(nd)[n]
        BY <1>4, <1>8, <3>1, <3>3
      <4>2. ne[n] = nd[n]
        BY <1>9, <1>14, <3>1, <3>3
      <4>3. QED
        BY <1>1, <4>1, <4>2, NodeIs
    <3>4. QED
      BY <3>2, <3>3
  <2>5. \A n \in Json!Nodes : KidsIn(ne[n].kids) = M[n]
    BY <1>12, <1>14, <2>2, <2>3, <2>4
  <2>6. Kids(ne) = M
    BY <2>2, <2>5 DEF Kids
  <2>7. QED
    BY <2>1, <2>6
<1>18. \A n \in There(nd) \ T : Marks(ne)[n] = Marks(nd)[n]
  BY <1>9, <1>11, <1>12, <1>14 DEF Marks, There
<1>19. QED
  BY <1>6, <1>7, <1>14, <1>15, <1>16, <1>17, <1>18

\* A member is removed.
LEMMA MemberRemoved ==
  ASSUME NEW nd, NEW p, NEW g, NEW ks, NEW T, NEW L, NEW ne,
         Freeing(nd, p, g, ks, {}, T, L, ne)
  PROVE  /\ NodesFit(ne) /\ There(ne) = There(nd) \ T /\ RootsOf(ne) = RootsOf(nd) \ T
         /\ \A n \in There(nd) \ T : Marks(ne)[n] = Marks(nd)[n]
<1>2. L = Cut(Json!Nodes, Kids(nd), T, g)
  BY DEF Freeing
<1>5. /\ ne = [n \in Json!Nodes |-> ne[n]] /\ \A n \in Json!Nodes : NodeFits(ne[n])
      /\ There(ne) = There(nd) \ T /\ Kids(ne) = Graft(L, p, {})
      /\ IsForest(Json!Nodes, There(ne), L)
      /\ Roots(Json!Nodes, There(ne), L) = RootsOf(nd)
      /\ \A n \in T : n \notin RootsOf(nd)
      /\ \A n \in There(nd) \ T : Marks(ne)[n] = Marks(nd)[n]
  BY MemberFreed
<1>6. Kids(ne) = L
  <2>1. L = [q \in Json!Nodes |-> L[q]]
    BY <1>2 DEF Cut
  <2>2. Graft(L, p, {}) = L
    BY <2>1 DEF Graft
  <2>3. QED
    BY <1>5, <2>2
<1>7. NodesFit(ne) /\ RootsOf(ne) = RootsOf(nd)
  BY <1>5, <1>6 DEF NodesFit, RootsOf
<1>8. QED
  BY <1>5, <1>7

\* A root takes the place of a member.
LEMMA MemberReplaced ==
  ASSUME NEW nd, NodesFit(nd), NEW p \in There(nd), nd[p].kind \in {"object", "array"},
         NEW i \in DOMAIN nd[p].kids, NEW v \in RootsOf(nd),
         p \notin TreeIn(Json!Nodes, Kids(nd), v),
         NEW T, T = TreeIn(Json!Nodes, Kids(nd), nd[p].kids[i].node),
         NEW nf, nf = WithMemberAt(Json!Freed(nd, T), p, i, v)
  PROVE  /\ NodesFit(nf) /\ There(nf) = There(nd) \ T
         /\ RootsOf(nf) \subseteq RootsOf(nd) \ T
         /\ \A n \in There(nd) \ T : Marks(nf)[n] = Marks(nd)[n]
<1>1. PICK g : g = nd[p].kids[i].node
  OBVIOUS
<1>2. T = TreeIn(Json!Nodes, Kids(nd), g)
  BY <1>1
<1>3. PICK L : L = Cut(Json!Nodes, Kids(nd), T, g)
  OBVIOUS
<1>4. PICK ks : ks = Putting(nd[p].kids, i, v)
  OBVIOUS
<1>5. PICK ne : ne = WithKids(Json!Freed(nd, T), p, ks)
  OBVIOUS
<1>6. /\ p \in Json!Nodes /\ g \in KidsIn(nd[p].kids)
      /\ v \in Json!Nodes /\ v \notin KidsIn(nd[p].kids)
  BY <1>1, NodeIs DEF There, KidsIn, RootsOf, Roots
<1>7. ks \in Seq(Kid) /\ KidsDiffer(ks) /\ KidsIn(ks) = (KidsIn(nd[p].kids) \ {g}) \cup {v}
  <2>1. PICK os : os = nd[p].kids
    OBVIOUS
  <2>2. os \in Seq(Kid) /\ KidsDiffer(os) /\ i \in DOMAIN os /\ v \notin KidsIn(os)
    BY <1>6, <2>1, NodeIs
  <2>3. ks = Putting(os, i, v) /\ g = os[i].node
    BY <1>1, <1>4, <2>1
  <2>4. /\ ks \in Seq(Kid) /\ KidsDiffer(ks)
        /\ KidsIn(ks) = (KidsIn(os) \ {os[i].node}) \cup {v}
    BY <1>6, <2>2, <2>3, KidReplaced
  <2>5. QED
    BY <2>1, <2>3, <2>4
<1>8. {v} \in SUBSET RootsOf(nd)
  OBVIOUS
<1>9. /\ ne = [n \in Json!Nodes |-> ne[n]] /\ \A n \in Json!Nodes : NodeFits(ne[n])
      /\ There(ne) = There(nd) \ T /\ Kids(ne) = Graft(L, p, {v})
      /\ IsForest(Json!Nodes, There(ne), L)
      /\ Roots(Json!Nodes, There(ne), L) = RootsOf(nd)
      /\ p \notin T /\ \A n \in T : n \notin RootsOf(nd)
      /\ \A n \in There(nd) \ T : Marks(ne)[n] = Marks(nd)[n]
  <2>1. Freeing(nd, p, g, ks, {v}, T, L, ne)
    BY <1>2, <1>3, <1>5, <1>6, <1>7, <1>8 DEF Freeing
  <2>2. QED
    BY <2>1, MemberFreed
<1>10. p \notin TreeIn(Json!Nodes, L, v)
  <2>1. PICK U : U = TreeIn(Json!Nodes, Kids(nd), v)
    OBVIOUS
  <2>2. v \in U /\ U \in SUBSET Json!Nodes /\ ClosedIn(Kids(nd), U)
    BY <1>6, <2>1, TreeIsLeast DEF NodesFit
  <2>3. ClosedIn(L, U)
    BY <1>3, <2>2 DEF ClosedIn, Cut
  <2>4. TreeIn(Json!Nodes, L, v) \subseteq U
    BY <1>6, <1>9, <2>2, <2>3, TreeIsLeast
  <2>5. QED
    BY <2>1, <2>4
<1>11. p \in There(ne) /\ v \in Roots(Json!Nodes, There(ne), L)
  BY <1>9
<1>12. /\ IsForest(Json!Nodes, There(ne), Kids(ne))
       /\ Roots(Json!Nodes, There(ne), Kids(ne)) = RootsOf(nd) \ {v}
  <2>1. PICK A : A = There(ne)
    OBVIOUS
  <2>2. PICK K : K = Graft(L, p, {v})
    OBVIOUS
  <2>3. /\ IsForest(Json!Nodes, A, L) /\ v \in Roots(Json!Nodes, A, L)
        /\ p \in A /\ p \notin TreeIn(Json!Nodes, L, v)
    BY <1>9, <1>10, <1>11, <2>1
  <2>4. IsForest(Json!Nodes, A, K) /\ Roots(Json!Nodes, A, K) = Roots(Json!Nodes, A, L) \ {v}
    BY <2>2, <2>3, Grafted
  <2>5. QED
    BY <1>9, <2>1, <2>2, <2>4
<1>13. NodesFit(ne) /\ RootsOf(ne) \subseteq RootsOf(nd) \ T
  BY <1>9, <1>12 DEF NodesFit, RootsOf
<1>14. ne = nf
  <2>1. Json!Freed(nd, T)[p] = nd[p]
    BY <1>6, <1>9, FreedIs
  <2>2. QED
    BY <1>4, <1>5, <2>1 DEF WithKids, WithMemberAt, Putting
<1>15. QED
  BY <1>9, <1>13, <1>14

-----------------------------------------------------------------------------
\* What was below a container is freed.
LEMMA NodeEmptied ==
  ASSUME NEW nd, NodesFit(nd), NEW g \in There(nd), nd[g].kind \in {"object", "array"},
         NEW T, T = TreeIn(Json!Nodes, Kids(nd), g),
         NEW ne, ne = WithKids(Json!Freed(nd, T \ {g}), g, <<>>)
  PROVE  /\ NodesFit(ne) /\ There(ne) = There(nd) \ (T \ {g}) /\ RootsOf(ne) = RootsOf(nd)
         /\ \A n \in There(ne) : Marks(ne)[n] = Marks(nd)[n]
<1>1. PICK fd : fd = Json!Freed(nd, T \ {g})
  OBVIOUS
<1>2. /\ fd = [n \in Json!Nodes |-> fd[n]] /\ \A n \in Json!Nodes : NodeFits(fd[n])
      /\ \A n \in (T \ {g}) \cap Json!Nodes : fd[n] = Json!NoNode
      /\ \A n \in Json!Nodes \ (T \ {g}) : fd[n] = nd[n]
  BY <1>1, FreedIs
<1>3. g \in Json!Nodes /\ IsForest(Json!Nodes, There(nd), Kids(nd))
  BY DEF There, NodesFit
<1>4. g \in T
  BY <1>3, TreeIsLeast
<1>5. fd[g] = nd[g] /\ NodeFits(nd[g])
  BY <1>2, <1>3 DEF NodesFit
<1>6. PICK r : r = [fd[g] EXCEPT !.kids = <<>>]
  OBVIOUS
<1>7. PICK es : es = <<>> /\ es \in Seq(Kid) /\ KidsDiffer(es)
  <2>1. <<>> \in Seq(Kid) /\ DOMAIN <<>> = {}
    OBVIOUS
  <2>2. KidsDiffer(<<>>)
    BY <2>1 DEF KidsDiffer
  <2>3. QED
    BY <2>1, <2>2
<1>8. NodeFits(r) /\ r.kind = nd[g].kind /\ r.kids = <<>> /\ r.mark = nd[g].mark
  <2>1. PICK o : o = nd[g]
    OBVIOUS
  <2>2. NodeFits(o) /\ o.kind \in {"object", "array"} /\ r = [o EXCEPT !.kids = es]
    BY <1>5, <1>6, <1>7, <2>1
  <2>3. NodeFits(r) /\ r.kind = o.kind /\ r.kids = es /\ r.mark = o.mark
    BY <1>7, <2>2, MembersAre
  <2>4. QED
    BY <1>7, <2>1, <2>3
<1>9. ne = [fd EXCEPT ![g] = r]
  BY <1>1, <1>6 DEF WithKids
<1>10. /\ ne = [n \in Json!Nodes |-> ne[n]] /\ ne[g] = r
       /\ \A n \in Json!Nodes : n # g => ne[n] = fd[n]
  BY <1>2, <1>3, <1>9
<1>11. \A n \in Json!Nodes : NodeFits(ne[n])
  BY <1>2, <1>8, <1>10
<1>21. /\ \A n \in Json!Nodes : n # g /\ n \in T => ne[n] = Json!NoNode
       /\ \A n \in Json!Nodes : n # g /\ n \notin T => ne[n] = nd[n]
  BY <1>2, <1>10
<1>12. There(ne) = There(nd) \ (T \ {g})
  <2>1. ASSUME NEW n \in Json!Nodes
        PROVE  n \in There(ne) <=> n \in There(nd) /\ (n \in T => n = g)
    <3>1. CASE n = g
      BY <1>3, <1>8, <1>10, <3>1 DEF There
    <3>2. CASE n # g /\ n \in T
      BY <1>21, <3>2, NoNodeIs DEF There
    <3>3. CASE n # g /\ n \notin T
      BY <1>21, <3>3 DEF There
    <3>4. QED
      BY <3>1, <3>2, <3>3
  <2>2. There(ne) \subseteq Json!Nodes /\ There(nd) \subseteq Json!Nodes
    BY DEF There
  <2>3. QED
    BY <2>1, <2>2
<1>13. PICK L : L = Emptying(Json!Nodes, Kids(nd), T)
  OBVIOUS
<1>14. /\ L = [n \in Json!Nodes |-> L[n]]
       /\ \A n \in Json!Nodes : L[n] = IF n \in T THEN {} ELSE Kids(nd)[n]
  BY <1>13 DEF Emptying
<1>15. \A n \in Json!Nodes : KidsIn(ne[n].kids) = L[n]
  <2>1. SUFFICES ASSUME NEW n \in Json!Nodes PROVE KidsIn(ne[n].kids) = L[n]
    OBVIOUS
  <2>2. CASE n = g
    BY <1>4, <1>8, <1>10, <1>14, <2>2, NoNodeIs
  <2>3. CASE n # g /\ n \in T
    BY <1>14, <1>21, <2>3, NoNodeIs
  <2>4. CASE n \notin T
    <3>1. n # g /\ ne[n] = nd[n] /\ L[n] = Kids(nd)[n]
      BY <1>4, <1>14, <1>21, <2>4
    <3>2. QED
      BY <3>1, NodeIs
  <2>5. QED
    BY <2>2, <2>3, <2>4
<1>16. Kids(ne) = L
  BY <1>14, <1>15 DEF Kids
<1>17. /\ IsForest(Json!Nodes, There(nd) \ (T \ {g}), L)
       /\ Roots(Json!Nodes, There(nd) \ (T \ {g}), L) = RootsOf(nd)
  BY <1>3, <1>13, Emptied DEF RootsOf
<1>18. NodesFit(ne) /\ RootsOf(ne) = RootsOf(nd)
  BY <1>10, <1>11, <1>12, <1>16, <1>17 DEF NodesFit, RootsOf
<1>19. \A n \in There(ne) : Marks(ne)[n] = Marks(nd)[n]
  BY <1>2, <1>5, <1>8, <1>10, <1>12 DEF Marks, There
<1>20. QED
  BY <1>12, <1>18, <1>19

\* A node whose members are other nodes.
Relink(r, link) == [r EXCEPT !.kids = Json!Relinked(@, link)]

LEMMA NodeRelinked ==
  ASSUME NEW r, NodeFits(r), NEW link,
         \A m \in KidsIn(r.kids) : link[m] \in Json!Nodes,
         \A m, k \in KidsIn(r.kids) : link[m] = link[k] => m = k
  PROVE  LET q == Relink(r, link)
         IN  /\ NodeFits(q) /\ q.kind = r.kind /\ q.mark = r.mark
             /\ KidsIn(q.kids) = {link[m] : m \in KidsIn(r.kids)}
<1>1. PICK ks : ks = Json!Relinked(r.kids, link)
  OBVIOUS
<1>2. PICK q : q = Relink(r, link)
  OBVIOUS
<1>3. q = [r EXCEPT !.kids = ks]
  BY <1>1, <1>2 DEF Relink
<1>4. r \in NodeRec /\ r.kids \in Seq(Kid) /\ KidsDiffer(r.kids)
  BY DEF NodeFits, NodeRec
<1>5. /\ ks \in Seq(Kid) /\ KidsDiffer(ks)
      /\ KidsIn(ks) = {link[m] : m \in KidsIn(r.kids)}
      /\ ks = <<>> <=> r.kids = <<>>
  BY <1>1, <1>4, KidsRelinked
<1>6. q \in NodeRec /\ q.kind = r.kind /\ q.mark = r.mark /\ q.kids = ks
  BY <1>3, <1>4, <1>5 DEF NodeRec
<1>7. CASE r.kids = <<>>
  <2>1. q = r
    BY <1>3, <1>4, <1>5, <1>7 DEF NodeRec
  <2>2. QED
    BY <1>2, <1>5, <1>6, <2>1
<1>8. CASE r.kids # <<>>
  <2>1. r.kind \in {"object", "array"} /\ r.mark = 0
    BY <1>8 DEF NodeFits
  <2>2. NodeFits(q)
    BY <1>5, <1>6, <2>1 DEF NodeFits
  <2>3. QED
    BY <1>2, <1>5, <1>6, <2>2
<1>9. QED
  BY <1>7, <1>8

\* A node is replaced by a new one without members: EsfJsonValueDataSet.
DataSet(nd, T, g, x, c) ==
  LET link == [m \in Json!Nodes |-> IF m = g THEN x ELSE m]
      inPlace == [p \in Json!Nodes |-> Relink(nd[p], link)]
  IN  [Json!Freed(inPlace, T) EXCEPT ![x] = c]

InPlaceOf(R, g, x) == IF g \in R THEN (R \ {g}) \cup {x} ELSE R

LEMMA NodeExchanged ==
  ASSUME NEW nd, NodesFit(nd), NEW g \in There(nd), NEW x \in Json!Nodes \ There(nd),
         NEW c, NodeFits(c), c.kind # "free", KidsIn(c.kids) = {},
         NEW T, T = TreeIn(Json!Nodes, Kids(nd), g),
         NEW ne, ne = DataSet(nd, T, g, x, c)
  PROVE  /\ NodesFit(ne) /\ There(ne) = (There(nd) \ T) \cup {x}
         /\ RootsOf(ne) = InPlaceOf(RootsOf(nd), g, x)
         /\ \A n \in There(nd) \ T : Marks(ne)[n] = Marks(nd)[n]
         /\ Marks(ne)[x] = c.mark
<1>1. PICK link : link = [m \in Json!Nodes |-> IF m = g THEN x ELSE m]
  OBVIOUS
<1>2. PICK ip : ip = [p \in Json!Nodes |-> Relink(nd[p], link)]
  OBVIOUS
<1>3. ne = [Json!Freed(ip, T) EXCEPT ![x] = c]
  BY <1>1, <1>2 DEF DataSet
<1>4. /\ x \in Json!Nodes /\ There(nd) \subseteq Json!Nodes
      /\ IsForest(Json!Nodes, There(nd), Kids(nd))
  BY DEF There, NodesFit
<1>5. g \in T /\ T \subseteq There(nd)
  BY <1>4, TreeIsLeast, TreeIsThere
<1>6. /\ ne = [n \in Json!Nodes |-> ne[n]] /\ ne[x] = c
      /\ \A n \in Json!Nodes : n # x /\ n \in T => ne[n] = Json!NoNode
      /\ \A n \in Json!Nodes : n # x /\ n \notin T => ne[n] = Relink(nd[n], link)
  <2>1. PICK fd : fd = Json!Freed(ip, T)
    OBVIOUS
  <2>2. /\ fd = [n \in Json!Nodes |-> fd[n]]
        /\ \A n \in Json!Nodes : n \in T => fd[n] = Json!NoNode
        /\ \A n \in Json!Nodes : n \notin T => fd[n] = Relink(nd[n], link)
    BY <1>2, <2>1 DEF Json!Freed
  <2>3. ne = [fd EXCEPT ![x] = c]
    BY <1>3, <2>1
  <2>4. QED
    BY <1>4, <2>2, <2>3
<1>7. PICK L : L = Exchange(Json!Nodes, Kids(nd), T, g, x)
  OBVIOUS
<1>8. /\ L = [n \in Json!Nodes |-> L[n]]
      /\ \A n \in Json!Nodes :
           L[n] = IF n \in T THEN {}
                  ELSE IF g \in Kids(nd)[n] THEN (Kids(nd)[n] \ {g}) \cup {x} ELSE Kids(nd)[n]
  BY <1>7 DEF Exchange
<1>9. ASSUME NEW n \in Json!Nodes
      PROVE  LET q == Relink(nd[n], link)
             IN  /\ NodeFits(q) /\ q.kind = nd[n].kind /\ q.mark = nd[n].mark
                 /\ n \notin T => KidsIn(q.kids) = L[n]
  <2>1. PICK r : r = nd[n]
    OBVIOUS
  <2>2. NodeFits(r) /\ KidsIn(r.kids) = Kids(nd)[n]
    BY <2>1, NodeIs
  <2>3. Kids(nd)[n] \subseteq There(nd) /\ x \notin There(nd)
    BY <1>4 DEF IsForest
  <2>4. \A m \in KidsIn(r.kids) : link[m] = IF m = g THEN x ELSE m
    BY <1>1, <1>4, <2>2, <2>3
  <2>5. /\ \A m \in KidsIn(r.kids) : link[m] \in Json!Nodes
        /\ \A m, k \in KidsIn(r.kids) : link[m] = link[k] => m = k
    BY <1>4, <2>2, <2>3, <2>4
  <2>6. PICK q : q = Relink(r, link)
    OBVIOUS
  <2>7. /\ NodeFits(q) /\ q.kind = r.kind /\ q.mark = r.mark
        /\ KidsIn(q.kids) = {link[m] : m \in KidsIn(r.kids)}
    BY <2>2, <2>5, <2>6, NodeRelinked
  <2>8. KidsIn(q.kids) = IF g \in Kids(nd)[n] THEN (Kids(nd)[n] \ {g}) \cup {x} ELSE Kids(nd)[n]
    BY <2>2, <2>4, <2>7
  <2>9. QED
    BY <1>8, <2>1, <2>6, <2>7, <2>8
<1>10. \A n \in Json!Nodes : NodeFits(ne[n])
  BY <1>6, <1>9, NoNodeIs
<1>11. There(ne) = (There(nd) \ T) \cup {x}
  BY <1>4, <1>5, <1>6, <1>9, NoNodeIs DEF There
<1>12. \A n \in Json!Nodes : KidsIn(ne[n].kids) = L[n]
  <2>1. SUFFICES ASSUME NEW n \in Json!Nodes PROVE KidsIn(ne[n].kids) = L[n]
    OBVIOUS
  <2>2. CASE n = x
    <3>1. x \notin T /\ Kids(nd)[x] = {}
      BY <1>4, <1>5 DEF IsForest
    <3>2. QED
      BY <1>6, <1>8, <2>2, <3>1
  <2>3. CASE n # x /\ n \in T
    BY <1>6, <1>8, <2>3, NoNodeIs
  <2>4. CASE n # x /\ n \notin T
    BY <1>6, <1>9, <2>4
  <2>5. QED
    BY <2>2, <2>3, <2>4
<1>13. Kids(ne) = L
  BY <1>8, <1>12 DEF Kids
<1>14. PICK Q : Q = InPlaceOf(RootsOf(nd), g, x)
  OBVIOUS
<1>15. /\ IsForest(Json!Nodes, (There(nd) \ T) \cup {x}, L)
       /\ Roots(Json!Nodes, (There(nd) \ T) \cup {x}, L) = Q
  <2>1. PICK K : K = Kids(nd)
    OBVIOUS
  <2>2. /\ IsForest(Json!Nodes, There(nd), K) /\ T = TreeIn(Json!Nodes, K, g)
        /\ L = Exchange(Json!Nodes, K, T, g, x)
    BY <1>4, <1>7, <2>1
  <2>3. PICK R : R = Roots(Json!Nodes, There(nd), K)
    OBVIOUS
  <2>4. /\ IsForest(Json!Nodes, (There(nd) \ T) \cup {x}, L)
        /\ Roots(Json!Nodes, (There(nd) \ T) \cup {x}, L)
             = IF g \in R THEN (R \ {g}) \cup {x} ELSE R
    BY <2>2, <2>3, Exchanged
  <2>5. R = RootsOf(nd)
    BY <2>1, <2>3 DEF RootsOf
  <2>6. QED
    BY <1>14, <2>4, <2>5 DEF InPlaceOf
<1>16. NodesFit(ne) /\ RootsOf(ne) = Q
  BY <1>6, <1>10, <1>11, <1>13, <1>15 DEF NodesFit, RootsOf
<1>17. \A n \in There(nd) \ T : Marks(ne)[n] = Marks(nd)[n]
  BY <1>4, <1>6, <1>9 DEF Marks
<1>18. Marks(ne)[x] = c.mark
  BY <1>4, <1>6 DEF Marks
<1>19. QED
  BY <1>11, <1>14, <1>16, <1>17, <1>18

\* The tree of a node is copied to free nodes: json_value_deep_copy.
Deep(nd, T, f) ==
  LET Source(n) == CHOOSE o \in T : f[o] = n
  IN  [n \in Json!Nodes |->
         IF \A o \in T : n # f[o] THEN nd[n] ELSE Relink(nd[Source(n)], f)]

LEMMA NodeCopied ==
  ASSUME NEW nd, NodesFit(nd), NEW g \in There(nd),
         NEW T, T = TreeIn(Json!Nodes, Kids(nd), g),
         NEW f \in [T -> Json!Nodes \ There(nd)], \A o, p \in T : f[o] = f[p] => o = p,
         NEW ne, ne = Deep(nd, T, f)
  PROVE  /\ NodesFit(ne) /\ There(ne) = There(nd) \cup {f[o] : o \in T}
         /\ RootsOf(ne) = RootsOf(nd) \cup {f[g]}
         /\ \A n \in There(nd) : Marks(ne)[n] = Marks(nd)[n]
         /\ f[g] \in Json!Nodes \ There(nd)
<1>1. /\ IsForest(Json!Nodes, There(nd), Kids(nd))
      /\ There(nd) \subseteq Json!Nodes /\ g \in Json!Nodes
  BY DEF There, NodesFit
<1>2. g \in T /\ T \subseteq There(nd) /\ ClosedIn(Kids(nd), T)
  BY <1>1, TreeIsLeast, TreeIsThere
<1>3. ne = [n \in Json!Nodes |-> ne[n]]
      /\ \A n \in Json!Nodes : (\A o \in T : n # f[o]) => ne[n] = nd[n]
  BY DEF Deep
<1>4. ASSUME NEW o \in T PROVE ne[f[o]] = Relink(nd[o], f) /\ f[o] \in Json!Nodes
  <2>1. PICK n : n = f[o]
    OBVIOUS
  <2>2. n \in Json!Nodes /\ ~\A p \in T : n # f[p]
    BY <2>1
  <2>3. (CHOOSE p \in T : f[p] = n) = o
    BY <2>1
  <2>4. ne[n] = Relink(nd[CHOOSE p \in T : f[p] = n], f)
    BY <2>2 DEF Deep
  <2>5. QED
    BY <2>1, <2>2, <2>3, <2>4
<1>5. ASSUME NEW o \in T
      PROVE  /\ NodeFits(ne[f[o]]) /\ ne[f[o]].kind = nd[o].kind
             /\ KidsIn(ne[f[o]].kids) = {f[m] : m \in Kids(nd)[o]}
  <2>1. PICK r : r = nd[o]
    OBVIOUS
  <2>2. NodeFits(r) /\ KidsIn(r.kids) = Kids(nd)[o] /\ Kids(nd)[o] \subseteq T
    BY <1>1, <1>2, <2>1, NodeIs DEF ClosedIn
  <2>3. /\ \A m \in KidsIn(r.kids) : f[m] \in Json!Nodes
        /\ \A m, k \in KidsIn(r.kids) : f[m] = f[k] => m = k
    BY <2>2
  <2>4. PICK q : q = Relink(r, f)
    OBVIOUS
  <2>5. NodeFits(q) /\ q.kind = r.kind /\ KidsIn(q.kids) = {f[m] : m \in KidsIn(r.kids)}
    BY <2>2, <2>3, <2>4, NodeRelinked
  <2>6. ne[f[o]] = q
    BY <1>4, <2>1, <2>4
  <2>7. QED
    BY <2>1, <2>2, <2>5, <2>6
<1>6. PICK C : C = {f[o] : o \in T}
  OBVIOUS
<1>7. C \subseteq Json!Nodes \ There(nd) /\ \A n \in Json!Nodes \ C : ne[n] = nd[n]
  BY <1>3, <1>6
<1>8. \A n \in C : NodeFits(ne[n]) /\ ne[n].kind # "free"
  BY <1>2, <1>5, <1>6 DEF There
<1>9. \A n \in Json!Nodes : NodeFits(ne[n])
  BY <1>7, <1>8, NodeIs
<1>10. There(ne) = There(nd) \cup C
  BY <1>7, <1>8 DEF There
<1>11. PICK L : L = Kids(ne)
  OBVIOUS
<1>12. \A n \in Json!Nodes : L[n] = KidsIn(ne[n].kids)
  BY <1>11 DEF Kids
<1>13. L \in [Json!Nodes -> SUBSET Json!Nodes]
  <2>1. \A n \in Json!Nodes : ne[n].kids \in Seq(Kid)
    BY <1>9 DEF NodeFits, NodeRec
  <2>2. ASSUME NEW ks \in Seq(Kid) PROVE KidsIn(ks) \subseteq Json!Nodes
    <3>1. \A i \in DOMAIN ks : ks[i] \in Kid
      OBVIOUS
    <3>2. \A i \in DOMAIN ks : ks[i].node \in Json!Nodes
      BY <3>1 DEF Kid
    <3>3. QED
      BY <3>2 DEF KidsIn
  <2>3. QED
    BY <1>11, <2>1, <2>2 DEF Kids
<1>14. \A q \in Json!Nodes : (\A o \in T : q # f[o]) => L[q] = Kids(nd)[q]
  BY <1>3, <1>12, NodeIs
<1>15. \A o \in T : L[f[o]] = {f[m] : m \in Kids(nd)[o]}
  BY <1>4, <1>5, <1>12
<1>16. /\ IsForest(Json!Nodes, There(nd) \cup C, L)
       /\ Roots(Json!Nodes, There(nd) \cup C, L) = RootsOf(nd) \cup {f[g]}
  BY <1>1, <1>6, <1>13, <1>14, <1>15, Copied DEF RootsOf
<1>17. NodesFit(ne) /\ RootsOf(ne) = RootsOf(nd) \cup {f[g]}
  BY <1>3, <1>9, <1>10, <1>11, <1>16 DEF NodesFit, RootsOf
<1>18. \A n \in There(nd) : Marks(ne)[n] = Marks(nd)[n]
  BY <1>1, <1>7 DEF Marks
<1>19. QED
  BY <1>2, <1>6, <1>10, <1>17, <1>18

-----------------------------------------------------------------------------
(* The state: the trees are a forest, an id names a node that exists and a  *)
(* root has one, a slot belongs to a marker, and a closed handle has none.  *)
TablesFit(nd, tb, sl) ==
  TableFits(There(nd), RootsOf(nd), tb) /\ SlotsFit(Marks(nd), tb, sl)

JsonIInv ==
  /\ NodesFit(node) /\ TablesFit(node, table, slots)
  /\ ~open => There(node) = {}

\* The operators of the codec in these terms.
LEMMA FreeIs == Json!Free = Json!Nodes \ There(node) /\ There(node) \subseteq Json!Nodes
  BY DEF Json!Free, There

LEMMA KidSetIs == \A n \in Json!Nodes : Json!KidSet(n) = Kids(node)[n]
  BY DEF Json!KidSet, Kids, KidsIn

LEMMA TreeIs ==
  ASSUME NEW n \in Json!Nodes
  PROVE  Json!Tree(n) = TreeIn(Json!Nodes, Kids(node), n)
<1>1. ASSUME NEW S \in SUBSET Json!Nodes
      PROVE  Json!Closed(S) <=> ClosedIn(Kids(node), S)
  BY KidSetIs DEF Json!Closed, ClosedIn
<1>2. QED
  BY <1>1 DEF Json!Tree, TreeIn

LEMMA RootIs ==
  ASSUME NEW n \in There(node)
  PROVE  n \in RootsOf(node) <=> ~Json!HasParent(n)
<1>1. Json!HasParent(n) <=> \E p \in Json!Nodes : n \in Kids(node)[p]
  BY KidSetIs DEF Json!HasParent, Json!Parents
<1>2. QED
  BY <1>1 DEF RootsOf, Roots

LEMMA TablesAre ==
  /\ \A D : Json!TableWithout(D) = Without(table, D)
  /\ \A D : Json!IdsOf(D) = IdsIn(table, D)
  /\ \A W : Json!SlotsWithout(W) = Cleared(slots, W)
  BY DEF Json!TableWithout, Without, Json!IdsOf, IdsIn, Json!SlotsWithout, Cleared

\* A number of a set has a least one.
LEMMA LeastExists ==
  ASSUME NEW U, U \subseteq Nat, U # {}
  PROVE  \E k \in U : \A m \in U : k <= m
<1>. DEFINE R == {p \in Nat \X Nat : p[1] < p[2]}
<1>1. IsWellFoundedOn(R, Nat)
  BY NatLessThanWellFounded, Zenon DEF OpToRel
<1>2. PICK k \in U : \A m \in U : ~ (<<m, k>> \in R)
  BY <1>1, WFMin
<1>3. \A a, b \in Nat : a < b => <<a, b>> \in R
  OBVIOUS
<1>. HIDE DEF R
<1>4. k \in Nat /\ \A m \in U : m \in Nat /\ ~(m < k)
  BY <1>2, <1>3, Zenon
<1>5. QED
  BY <1>4

LEMMA FreshIs ==
  ASSUME Json!Free # {}
  PROVE  Json!Fresh \in Json!Nodes \ There(node)
<1>1. Json!Free \subseteq Nat
  BY DEF Json!Free, Json!Nodes
<1>2. \E k \in Json!Free : \A m \in Json!Free : k <= m
  BY <1>1, LeastExists
<1>3. Json!Fresh \in Json!Free
  BY <1>2 DEF Json!Fresh
<1>4. QED
  BY <1>3, FreeIs

LEMMA FirstSlotIs ==
  ASSUME NEW v, Json!HasSlot(v)
  PROVE  /\ Json!FirstSlot(v) \in Json!SlotSet /\ slots[Json!FirstSlot(v)].id = v
<1>1. PICK U : U = {s \in Json!SlotSet : slots[s].id = v}
  OBVIOUS
<1>2. U \subseteq Nat /\ U # {}
  BY <1>1 DEF Json!HasSlot, Json!SlotSet
<1>3. PICK k \in U : \A m \in U : k <= m
  BY <1>2, LeastExists
<1>4. \E s \in Json!SlotSet :
         slots[s].id = v /\ \A r \in Json!SlotSet : slots[r].id = v => s <= r
  BY <1>1, <1>3
<1>5. QED
  BY <1>4 DEF Json!FirstSlot

\* A live id is a position, and its node exists and has no other id.
LEMMA LiveIs ==
  ASSUME TableFits(There(node), RootsOf(node), table), NEW v, Json!Live(v)
  PROVE  /\ v \in DOMAIN table /\ table[v] # Json!NoEntry /\ table[v].id = v
         /\ v \in Nat \ {0}
         /\ Json!NodeOf(v) = table[v].node /\ Json!NodeOf(v) \in There(node)
         /\ \A j \in DOMAIN table : table[j].node = Json!NodeOf(v) => j = v
<1>1. There(node) \in SUBSET Json!Nodes
  BY DEF There
<1>2. ASSUME NEW i \in DOMAIN table, table[i].id = v
      PROVE  table[i] # Json!NoEntry /\ i = v
  <2>1. table[i].id # 0
    BY <1>2 DEF Json!Live
  <2>2. table[i] # Json!NoEntry
    BY <1>1, <2>1, EntryInUse
  <2>3. QED
    BY <1>2, <2>2 DEF TableFits
<1>3. PICK i \in DOMAIN table : table[i].id = v
  BY DEF Json!Live
<1>4. v \in DOMAIN table /\ table[v].id = v /\ table[v] # Json!NoEntry
  BY <1>2, <1>3
<1>5. (CHOOSE j \in DOMAIN table : table[j].id = v) = v
  BY <1>2, <1>4
<1>6. Json!NodeOf(v) = table[v].node
  BY <1>5 DEF Json!NodeOf
<1>7. v \in Nat \ {0}
  BY <1>1, <1>4, EntryInUse
<1>8. QED
  BY <1>4, <1>6, <1>7 DEF TableFits

\* A node that is free has no id, and one that is not managed neither.
LEMMA NoIdIs ==
  ASSUME NEW A \in SUBSET Json!Nodes, NEW R, NEW tb, TableFits(A, R, tb),
         NEW x \in Json!Nodes \ A, NEW i \in DOMAIN tb
  PROVE  tb[i].node # x
<1>1. x \in Json!Nodes /\ 0 \notin Json!Nodes
  BY DEF Json!Nodes
<1>2. QED
  BY <1>1, NoEntryIs DEF TableFits

\* No root is below a node.
LEMMA RootNotBelow ==
  ASSUME NEW nd, NodesFit(nd), NEW g \in There(nd), NEW r \in RootsOf(nd), r # g
  PROVE  r \notin TreeIn(Json!Nodes, Kids(nd), g)
<1>1. g \in Json!Nodes /\ IsForest(Json!Nodes, There(nd), Kids(nd))
  BY DEF There, NodesFit
<1>2. SUFFICES ASSUME r \in TreeIn(Json!Nodes, Kids(nd), g) PROVE FALSE
  OBVIOUS
<1>3. PICK q \in TreeIn(Json!Nodes, Kids(nd), g) : r \in Kids(nd)[q]
  BY <1>1, <1>2, ParentIsInTree
<1>4. q \in Json!Nodes
  BY DEF TreeIn
<1>5. QED
  BY <1>3, <1>4 DEF RootsOf, Roots

\* A new node gets the next id.
LEMMA NewNode ==
  ASSUME NEW nd, NodesFit(nd), NEW tb, NEW sl, TablesFit(nd, tb, sl),
         NEW ne, NodesFit(ne), There(nd) \subseteq There(ne),
         NEW x \in There(ne) \ There(nd), RootsOf(ne) \subseteq RootsOf(nd) \cup {x},
         \A n \in There(nd) : Marks(ne)[n] = Marks(nd)[n],
         NEW tn, tn = Adding(tb, x)
  PROVE  /\ TablesFit(ne, tn, sl)
         /\ NextId(tb) \in DOMAIN tn /\ tn[NextId(tb)].node = x
         /\ tn[NextId(tb)] # Json!NoEntry
         /\ \A s \in Json!SlotSet : sl[s].id # NextId(tb)
         /\ NextId(tb) \in Nat \ {0}
<1>1. /\ TableFits(There(nd), RootsOf(nd), tb) /\ SlotsFit(Marks(nd), tb, sl)
      /\ There(nd) \in SUBSET Json!Nodes /\ There(ne) \in SUBSET Json!Nodes
  BY DEF TablesFit, There
<1>2. TableFits(There(ne), RootsOf(nd), tb) /\ SlotsFit(Marks(ne), tb, sl)
  BY <1>1, MoreNodes
<1>3. \A i \in DOMAIN tb : tb[i].node # x
  BY <1>1, NoIdIs
<1>4. /\ TableFits(There(ne), RootsOf(nd) \cup {x}, tn) /\ SlotsFit(Marks(ne), tn, sl)
      /\ NextId(tb) \in DOMAIN tn /\ NextId(tb) \in Nat \ {0}
      /\ tn[NextId(tb)].node = x
      /\ tn[NextId(tb)] # Json!NoEntry
      /\ \A s \in Json!SlotSet : sl[s].id # NextId(tb)
  <2>1. HasNoId(There(ne), RootsOf(nd), Marks(ne), tb, sl, x)
    BY <1>1, <1>2, <1>3 DEF HasNoId
  <2>2. QED
    BY <2>1, EntryAdded
<1>5. TableFits(There(ne), RootsOf(ne), tn)
  BY <1>4 DEF TableFits
<1>6. QED
  BY <1>4, <1>5 DEF TablesFit

\* The nodes D go, with their ids and slots.
LEMMA NodesGone ==
  ASSUME NEW nd, NodesFit(nd), NEW tb, NEW sl, TablesFit(nd, tb, sl), NEW D, NEW ne,
         There(nd) \ D \subseteq There(ne), RootsOf(ne) \subseteq RootsOf(nd) \ D,
         \A n \in There(nd) \ D : Marks(ne)[n] = Marks(nd)[n]
  PROVE  TablesFit(ne, Without(tb, D), Cleared(sl, IdsIn(tb, D)))
<1>1. /\ TableFits(There(nd), RootsOf(nd), tb) /\ SlotsFit(Marks(nd), tb, sl)
      /\ There(nd) \in SUBSET Json!Nodes /\ There(nd) \ D \in SUBSET Json!Nodes
      /\ IdsIn(tb, D) \subseteq IdsIn(tb, D)
  BY DEF TablesFit, There
<1>2. /\ TableFits(There(nd) \ D, RootsOf(nd) \ D, Without(tb, D))
      /\ SlotsFit(Marks(nd), Without(tb, D), Cleared(sl, IdsIn(tb, D)))
  BY <1>1, EntriesDropped
<1>3. QED
  BY <1>1, <1>2, MoreNodes DEF TablesFit

\* The node of id v is exchanged: what was below it goes, with ids and slots,
\* and v keeps its slot only when the new node is its marker.
Exchanging(nd, tb, sl, ne, tn, v, g, x, T, W) ==
  /\ NodesFit(nd) /\ TablesFit(nd, tb, sl)
  /\ v \in DOMAIN tb /\ tb[v] # Json!NoEntry /\ g = tb[v].node
  /\ T = TreeIn(Json!Nodes, Kids(nd), g) /\ x \in Json!Nodes \ There(nd)
  /\ IdsIn(tb, T \ {g}) \subseteq W
  /\ There(ne) = (There(nd) \ T) \cup {x}
  /\ RootsOf(ne) = InPlaceOf(RootsOf(nd), g, x)
  /\ \A n \in There(nd) \ T : Marks(ne)[n] = Marks(nd)[n]
  /\ v \in W \/ Marks(ne)[x] = v
  /\ tn = Moving(Without(tb, T \ {g}), v, x)

LEMMA NodeGone ==
  ASSUME NEW nd, NEW tb, NEW sl, NEW ne, NEW tn, NEW v, NEW g, NEW x, NEW T, NEW W,
         Exchanging(nd, tb, sl, ne, tn, v, g, x, T, W)
  PROVE  /\ TablesFit(ne, tn, Cleared(sl, W)) /\ v \in DOMAIN tn
         /\ tn[v] # Json!NoEntry /\ tn[v].node = x
<1>0. /\ NodesFit(nd) /\ TablesFit(nd, tb, sl)
      /\ v \in DOMAIN tb /\ tb[v] # Json!NoEntry /\ g = tb[v].node
      /\ T = TreeIn(Json!Nodes, Kids(nd), g) /\ x \in Json!Nodes \ There(nd)
      /\ IdsIn(tb, T \ {g}) \subseteq W
      /\ There(ne) = (There(nd) \ T) \cup {x}
      /\ RootsOf(ne) = InPlaceOf(RootsOf(nd), g, x)
      /\ \A n \in There(nd) \ T : Marks(ne)[n] = Marks(nd)[n]
      /\ v \in W \/ Marks(ne)[x] = v
      /\ tn = Moving(Without(tb, T \ {g}), v, x)
  BY DEF Exchanging
<1>1. /\ TableFits(There(nd), RootsOf(nd), tb) /\ SlotsFit(Marks(nd), tb, sl)
      /\ There(nd) \in SUBSET Json!Nodes
  BY <1>0 DEF TablesFit, There
<1>2. g \in There(nd) /\ v \in Nat \ {0}
  BY <1>0, <1>1, EntryInUse DEF TableFits
<1>3. PICK D : D = T \ {g}
  OBVIOUS
<1>4. PICK tw : tw = Without(tb, D)
  OBVIOUS
<1>5. PICK sw : sw = Cleared(sl, W)
  OBVIOUS
<1>6. /\ TableFits(There(nd) \ D, RootsOf(nd) \ D, tw) /\ SlotsFit(Marks(nd), tw, sw)
  BY <1>0, <1>1, <1>3, <1>4, <1>5, EntriesDropped
<1>7. RootsOf(nd) \ D = RootsOf(nd)
  BY <1>0, <1>2, <1>3, RootNotBelow
<1>8. g \in T /\ g \in Json!Nodes
  BY <1>0, <1>1, <1>2, TreeIsLeast DEF NodesFit
<1>9. PICK L : L = [n \in Json!Nodes |-> IF n = g THEN Marks(nd)[n] ELSE Marks(ne)[n]]
  OBVIOUS
<1>10. PICK B : B = (There(nd) \ D) \cup {x}
  OBVIOUS
<1>11. /\ There(nd) \ D \in SUBSET Json!Nodes /\ There(nd) \ D \subseteq B /\ x \in B
       /\ B \in SUBSET Json!Nodes /\ x # g /\ B \ {g} = There(ne)
  BY <1>0, <1>1, <1>2, <1>3, <1>8, <1>10
<1>12. /\ \A n \in There(nd) \ D : L[n] = Marks(nd)[n]
       /\ \A n \in B \ {g} : L[n] = Marks(ne)[n]
       /\ L[x] = Marks(ne)[x]
  BY <1>0, <1>1, <1>3, <1>9, <1>11
<1>13. TableFits(B, RootsOf(nd), tw) /\ SlotsFit(L, tw, sw)
  BY <1>0, <1>6, <1>7, <1>11, <1>12, MoreNodes
<1>14. /\ DOMAIN tw = DOMAIN tb /\ tw[v] = tb[v]
       /\ \A i \in DOMAIN tw : tw[i] = tb[i] \/ tw[i] = Json!NoEntry
  BY <1>0, <1>3, <1>4 DEF Without
<1>15. \A i \in DOMAIN tw : tw[i].node # x
  <2>1. x \in Json!Nodes /\ 0 \notin Json!Nodes
    BY <1>0 DEF Json!Nodes
  <2>2. \A i \in DOMAIN tb : tb[i].node # x
    BY <1>0, <1>1, NoIdIs
  <2>3. QED
    BY <1>0, <1>14, <2>1, <2>2, NoEntryIs
<1>16. \A s \in Json!SlotSet : sw[s].id = v => L[x] = v
  <2>1. CASE v \in W
    BY <1>0, <1>2, <1>5, <2>1, NoEntryIs DEF Cleared
  <2>2. CASE Marks(ne)[x] = v
    BY <1>0, <1>12, <2>2
  <2>3. QED
    BY <1>0, <2>1, <2>2
<1>17. tn = Moving(tw, v, x)
  BY <1>0, <1>3, <1>4
<1>18. PICK Q : Q = InPlaceOf(RootsOf(nd), g, x)
  OBVIOUS
<1>19. /\ TableFits(B \ {g}, Q, tn) /\ SlotsFit(L, tn, sw)
       /\ DOMAIN tn = DOMAIN tw /\ tn[v] # Json!NoEntry /\ tn[v].node = x
  <2>1. v \in DOMAIN tw /\ tw[v] # Json!NoEntry /\ tw[v].node = g
    BY <1>0, <1>14
  <2>2. QED
    <3>1. PICK R : R = RootsOf(nd)
      OBVIOUS
    <3>2. HasNoId(B, R, L, tw, sw, x)
      BY <1>0, <1>11, <1>13, <1>15, <3>1 DEF HasNoId
    <3>3. /\ TableFits(B \ {g}, IF g \in R THEN (R \ {g}) \cup {x} ELSE R, Moving(tw, v, x))
          /\ SlotsFit(L, Moving(tw, v, x), sw)
      BY <1>0, <1>16, <2>1, <3>2, EntryMoved
    <3>4. DOMAIN tn = DOMAIN tw
      BY <1>0, <1>17, <2>1 DEF Moving
    <3>5. tw[v] \in Entry
      BY <1>0, <1>13, <2>1 DEF TableFits
    <3>6. PICK e : e = [tw[v] EXCEPT !.node = x]
      OBVIOUS
    <3>7. e.node = x
      BY <1>0, <3>5, <3>6 DEF Entry
    <3>8. tn[v] = e
      BY <1>0, <1>17, <2>1, <3>6 DEF Moving
    <3>9. x # 0
      BY <1>0 DEF Json!Nodes
    <3>10. QED
      BY <1>0, <1>17, <1>18, <3>1, <3>3, <3>4, <3>7, <3>8, <3>9, NoEntryIs DEF InPlaceOf
<1>20. /\ TableFits(There(ne), RootsOf(ne), tn) /\ SlotsFit(Marks(ne), tn, sw)
  <2>1. B \ {g} \in SUBSET Json!Nodes /\ B \ {g} \subseteq There(ne) /\ RootsOf(ne) \subseteq Q
    BY <1>0, <1>11, <1>18
  <2>2. \A n \in B \ {g} : Marks(ne)[n] = L[n]
    BY <1>0, <1>12
  <2>3. QED
    BY <1>0, <1>19, <2>1, <2>2, MoreNodes
<1>21. QED
  BY <1>0, <1>5, <1>14, <1>19, <1>20 DEF TablesFit

-----------------------------------------------------------------------------
(* The calls. *)
LEMMA NothingThere ==
  ASSUME NEW nd, nd = [n \in Json!Nodes |-> Json!NoNode],
         NEW sl, sl = [s \in Json!SlotSet |-> Json!NoSlot]
  PROVE  NodesFit(nd) /\ TablesFit(nd, <<>>, sl) /\ There(nd) = {}
<1>1. /\ There(nd) = {} /\ \A n \in Json!Nodes : NodeFits(nd[n])
      /\ Kids(nd) = [n \in Json!Nodes |-> {}]
  BY NoNodeIs DEF There, Kids
<1>2. RootsOf(nd) = {} /\ IsForest(Json!Nodes, {}, Kids(nd))
  BY <1>1 DEF RootsOf, Roots, IsForest
<1>3. <<>> \in Seq(Entry) /\ DOMAIN <<>> = {}
  OBVIOUS
<1>4. TableFits({}, {}, <<>>)
  BY <1>3 DEF TableFits
<1>5. SlotsFit(Marks(nd), <<>>, sl)
  BY NoEntryIs DEF SlotsFit
<1>6. QED
  BY <1>1, <1>2, <1>4, <1>5 DEF NodesFit, TablesFit

LEMMA JsonInitOK == Json!JsonInit => JsonIInv
  BY NothingThere DEF Json!JsonInit, Json!EsfJsonValueContainerInit, JsonIInv

LEMMA JsonOpenKeeps ==
  ASSUME JsonIInv, Json!EsfJsonOpen
  PROVE  JsonIInv'
<1>1. NodesFit(node') /\ TablesFit(node', table', slots') /\ There(node') = {}
  BY NothingThere DEF Json!EsfJsonOpen
<1>2. QED
  BY <1>1 DEF JsonIInv

\* Every node is below a root, every root has an id: all of them are freed.
LEMMA JsonCloseKeeps ==
  ASSUME JsonIInv, Json!EsfJsonClose
  PROVE  JsonIInv'
<1>1. PICK roots : roots = {n \in Json!Nodes : Json!Managed(n) /\ ~Json!HasParent(n)}
  OBVIOUS
<1>2. PICK D : D = UNION {Json!Tree(n) : n \in roots}
  OBVIOUS
<1>3. /\ node' = Json!Freed(node, D) /\ table' = <<>>
      /\ slots' = [s \in Json!SlotSet |-> Json!NoSlot]
  BY <1>1, <1>2 DEF Json!EsfJsonClose, Json!EsfJsonValueContainerFree
<1>4. NodesFit(node) /\ TableFits(There(node), RootsOf(node), table)
  BY DEF JsonIInv, TablesFit
<1>5. There(node) \subseteq Json!Nodes /\ IsForest(Json!Nodes, There(node), Kids(node))
  BY <1>4 DEF There, NodesFit
<1>6. RootsOf(node) \subseteq roots
  <2>1. SUFFICES ASSUME NEW r \in RootsOf(node) PROVE r \in roots
    OBVIOUS
  <2>2. r \in There(node) /\ r \in Json!Nodes
    BY <1>5 DEF RootsOf, Roots
  <2>3. ~Json!HasParent(r)
    BY <2>2, RootIs
  <2>4. Json!Managed(r)
    BY <1>4 DEF Json!Managed, TableFits
  <2>5. QED
    BY <1>1, <2>2, <2>3, <2>4
<1>7. There(node) \subseteq D
  <2>1. SUFFICES ASSUME NEW n \in There(node) PROVE n \in D
    OBVIOUS
  <2>2. PICK r \in RootsOf(node) : n \in TreeIn(Json!Nodes, Kids(node), r)
    BY <1>5, HasRoot DEF RootsOf
  <2>3. r \in roots /\ r \in Json!Nodes
    BY <1>1, <1>6
  <2>4. n \in Json!Tree(r)
    BY <2>2, <2>3, TreeIs
  <2>5. QED
    BY <1>2, <2>3, <2>4
<1>8. node' = [n \in Json!Nodes |-> Json!NoNode]
  <2>1. /\ node' = [n \in Json!Nodes |-> node'[n]]
        /\ \A n \in Json!Nodes : n \in D => node'[n] = Json!NoNode
        /\ \A n \in Json!Nodes : n \notin D => node'[n] = node[n]
    BY <1>3 DEF Json!Freed
  <2>2. \A n \in Json!Nodes : node'[n] = Json!NoNode
    BY <1>4, <1>7, <2>1, NodeIs
  <2>3. QED
    BY <2>1, <2>2
<1>9. NodesFit(node') /\ TablesFit(node', table', slots') /\ There(node') = {}
  BY <1>3, <1>8, NothingThere
<1>10. QED
  BY <1>9 DEF JsonIInv

\* A new node without members gets the next id.
LEMMA ValueMade ==
  ASSUME JsonIInv, NEW x \in Json!Nodes \ There(node),
         NEW r, NodeFits(r), r.kind # "free", KidsIn(r.kids) = {},
         node' = WithNode(node, x, r), table' = Adding(table, x)
  PROVE  /\ NodesFit(node') /\ TablesFit(node', table', slots)
         /\ NextId(table) \in DOMAIN table' /\ table'[NextId(table)].node = x
         /\ table'[NextId(table)] # Json!NoEntry
         /\ \A s \in Json!SlotSet : slots[s].id # NextId(table)
         /\ NextId(table) \in Nat \ {0} /\ Marks(node')[x] = r.mark
<1>1. NodesFit(node) /\ TablesFit(node, table, slots)
  BY DEF JsonIInv
<1>2. /\ NodesFit(node') /\ There(node') = There(node) \cup {x}
      /\ RootsOf(node') = RootsOf(node) \cup {x}
      /\ \A n \in There(node) : Marks(node')[n] = Marks(node)[n]
      /\ Marks(node')[x] = r.mark
  BY <1>1, NodeMade
<1>3. /\ There(node) \subseteq There(node') /\ x \in There(node') \ There(node)
      /\ RootsOf(node') \subseteq RootsOf(node) \cup {x}
  BY <1>2
<1>4. /\ TablesFit(node', table', slots)
      /\ NextId(table) \in DOMAIN table' /\ table'[NextId(table)].node = x
      /\ table'[NextId(table)] # Json!NoEntry
      /\ \A s \in Json!SlotSet : slots[s].id # NextId(table)
      /\ NextId(table) \in Nat \ {0}
  BY <1>1, <1>2, <1>3, NewNode
<1>5. QED
  BY <1>2, <1>4

LEMMA AddIs ==
  ASSUME NEW x, Json!EsfJsonValueAdd(x)
  PROVE  table' = Adding(table, x)
  BY DEF Json!EsfJsonValueAdd, Json!NewId, Adding, NextId

LEMMA ValueInitKeeps ==
  ASSUME JsonIInv, NEW kind \in {"object", "array", "string", "scalar"}, Json!ValueInit(kind)
  PROVE  JsonIInv'
<1>1. PICK x : x = Json!Fresh /\ x \in Json!Nodes \ There(node)
  BY FreshIs DEF Json!ValueInit
<1>2. PICK r : r = Json!Leaf(kind)
  OBVIOUS
<1>3. NodeFits(r) /\ r.kind = kind /\ KidsIn(r.kids) = {} /\ kind # "free"
  BY <1>2, LeafIs
<1>4. node' = WithNode(node, x, r) /\ slots' = slots /\ open /\ open' = open
  BY <1>1, <1>2 DEF Json!ValueInit, WithNode
<1>5. table' = Adding(table, x)
  BY <1>1, AddIs DEF Json!ValueInit
<1>6. NodesFit(node') /\ TablesFit(node', table', slots)
  BY <1>1, <1>3, <1>4, <1>5, ValueMade
<1>7. QED
  BY <1>4, <1>6 DEF JsonIInv

LEMMA StringInitHandleKeeps ==
  ASSUME JsonIInv, NEW size, Json!EsfJsonStringInitHandleProcess(size)
  PROVE  JsonIInv'
<1>1. PICK x : x = Json!Fresh /\ x \in Json!Nodes \ There(node)
  BY FreshIs DEF Json!EsfJsonStringInitHandleProcess
<1>2. PICK v : v = NextId(table)
  OBVIOUS
<1>3. v \in Nat \ {0}
  BY <1>2 DEF JsonIInv, TablesFit, TableFits, NextId
<1>4. PICK r : r = Json!Marker(v)
  OBVIOUS
<1>5. NodeFits(r) /\ r.kind = "string" /\ KidsIn(r.kids) = {} /\ r.mark = v
  BY <1>3, <1>4, MarkerIs
<1>6. PICK f : f = Json!FirstSlot(0)
  OBVIOUS
<1>7. /\ node' = WithNode(node, x, r) /\ open /\ open' = open
      /\ slots' = [slots EXCEPT ![f] = [id |-> v, size |-> size]]
  BY <1>1, <1>2, <1>4, <1>6
     DEF Json!EsfJsonStringInitHandleProcess, WithNode, Json!NewId, NextId
<1>8. table' = Adding(table, x)
  BY <1>1, AddIs DEF Json!EsfJsonStringInitHandleProcess
<1>9. /\ NodesFit(node') /\ TablesFit(node', table', slots)
      /\ v \in DOMAIN table' /\ table'[v].node = x /\ table'[v] # Json!NoEntry
      /\ \A s \in Json!SlotSet : slots[s].id # v
      /\ Marks(node')[x] = v
  BY <1>1, <1>2, <1>5, <1>7, <1>8, ValueMade
<1>10. SlotsFit(Marks(node'), table', slots')
  <2>1. PICK M : M = Marks(node')
    OBVIOUS
  <2>2. /\ SlotsFit(M, table', slots) /\ M[table'[v].node] = v
        /\ \A s \in Json!SlotSet : slots[s].id = v => s = f
    BY <1>9, <2>1 DEF TablesFit
  <2>3. SlotsFit(M, table', [slots EXCEPT ![f] = [id |-> v, size |-> size]])
    BY <1>9, <2>2, SlotTaken
  <2>4. QED
    BY <1>7, <2>1, <2>3
<1>11. QED
  BY <1>7, <1>9, <1>10 DEF JsonIInv, TablesFit

LEMMA MarkerFailsKeeps ==
  ASSUME JsonIInv, Json!MarkerFails
  PROVE  JsonIInv'
<1>1. /\ TableFits(There(node), RootsOf(node), table) /\ SlotsFit(Marks(node), table, slots)
      /\ There(node) \in SUBSET Json!Nodes
  BY DEF JsonIInv, TablesFit, There
<1>2. /\ node' = node /\ slots' = slots /\ open' = open
      /\ table' = Append(table, Json!NoEntry)
  BY DEF Json!MarkerFails
<1>3. TableFits(There(node), RootsOf(node), table') /\ SlotsFit(Marks(node), table', slots)
  BY <1>1, <1>2, EntryLost
<1>4. QED
  BY <1>2, <1>3 DEF JsonIInv, TablesFit

LEMMA JsonCardinality == \A S : Json!Cardinality(S) = Cardinality(S)
  BY DEF Cardinality, Json!Cardinality

\* The root of what was parsed gets the id, its member none.
LEMMA DeserializeKeeps ==
  ASSUME JsonIInv, NEW kind \in {"object", "array"}, NEW key \in MemberKeys,
         Json!EsfJsonDeserialize(kind, key)
  PROVE  JsonIInv'
<1>1. PICK x : x = Json!Fresh
  OBVIOUS
<1>2. PICK y : y = CHOOSE n \in Json!Free \ {x} : TRUE
  OBVIOUS
<1>3. Json!Free # {} /\ Json!Free \ {x} # {}
  <2>1. Json!Cardinality(Json!Free) > 1
    BY DEF Json!EsfJsonDeserialize
  <2>4. Cardinality(Json!Free) > 1
    BY <2>1, JsonCardinality
  <2>5. Cardinality({}) = 0 /\ Cardinality({x}) = 1
    BY FS_EmptySet, FS_Singleton
  <2>2. Json!Free # {} /\ Json!Free # {x}
    BY <2>4, <2>5
  <2>3. QED
    BY <2>2
<1>4. x \in Json!Nodes \ There(node) /\ y \in Json!Nodes \ There(node) /\ y # x
  <2>1. x \in Json!Nodes \ There(node)
    BY <1>1, <1>3, FreshIs
  <2>2. y \in Json!Free \ {x}
    BY <1>2, <1>3
  <2>3. QED
    BY <2>1, <2>2, FreeIs
<1>5. PICK r : r = Json!Leaf(kind)
  OBVIOUS
<1>6. PICK s : s = Json!Leaf("string")
  OBVIOUS
<1>7. /\ NodeFits(r) /\ r.kind = kind /\ r.kids = <<>> /\ KidsIn(r.kids) = {}
      /\ NodeFits(s) /\ s.kind = "string" /\ KidsIn(s.kids) = {}
  BY <1>5, <1>6, LeafIs
<1>8. PICK k : k = [key |-> key, node |-> y]
  OBVIOUS
<1>9. PICK q : q = [r EXCEPT !.kids = <<k>>]
  OBVIOUS
<1>10. /\ node' = [node EXCEPT ![x] = q, ![y] = s]
       /\ open /\ open' = open /\ slots' = slots
  BY <1>1, <1>2, <1>5, <1>6, <1>8, <1>9 DEF Json!EsfJsonDeserialize
<1>11. table' = Adding(table, x)
  BY <1>1, AddIs DEF Json!EsfJsonDeserialize
<1>12. NodesFit(node) /\ TablesFit(node, table, slots)
  BY DEF JsonIInv
<1>13. PICK n1 : n1 = WithNode(node, x, r)
  OBVIOUS
<1>14. /\ NodesFit(n1) /\ There(n1) = There(node) \cup {x}
       /\ RootsOf(n1) = RootsOf(node) \cup {x} /\ Kids(n1) = Kids(node)
       /\ \A n \in There(node) : Marks(n1)[n] = Marks(node)[n]
  BY <1>4, <1>7, <1>12, <1>13, NodeMade
<1>15. PICK n2 : n2 = WithNode(n1, y, s)
  OBVIOUS
<1>16. /\ NodesFit(n2) /\ There(n2) = There(n1) \cup {y}
       /\ RootsOf(n2) = RootsOf(n1) \cup {y} /\ Kids(n2) = Kids(n1)
       /\ \A n \in There(n1) : Marks(n2)[n] = Marks(n1)[n]
  <2>1. y \in Json!Nodes \ There(n1)
    BY <1>4, <1>14
  <2>2. QED
    BY <1>7, <1>14, <1>15, <2>1, NodeMade
<1>17. /\ node = [n \in Json!Nodes |-> node[n]] /\ n2 = [n \in Json!Nodes |-> n2[n]]
       /\ n2[x] = r /\ n2[y] = s
       /\ \A n \in Json!Nodes : n # x /\ n # y => n2[n] = node[n]
  <2>1. node = [n \in Json!Nodes |-> node[n]]
    BY <1>12 DEF NodesFit
  <2>2. QED
    BY <1>4, <1>13, <1>15, <2>1 DEF WithNode
<1>18. x \notin TreeIn(Json!Nodes, Kids(n2), y)
  <2>1. Kids(n2)[y] = {}
    BY <1>4, <1>12, <1>14, <1>16, NodeIs, NoNodeIs
  <2>2. ClosedIn(Kids(n2), {y}) /\ {y} \in SUBSET Json!Nodes
    BY <1>4, <2>1 DEF ClosedIn
  <2>3. QED
    BY <1>4, <2>2 DEF TreeIn
<1>19. PICK n3 : n3 = WithMember(n2, x, key, y)
  OBVIOUS
<1>20. /\ NodesFit(n3) /\ There(n3) = There(n2) /\ RootsOf(n3) = RootsOf(n2) \ {y}
       /\ \A n \in There(n2) : Marks(n3)[n] = Marks(n2)[n]
  <2>1. x \in There(n2) /\ n2[x].kind \in {"object", "array"} /\ y \in RootsOf(n2)
    BY <1>7, <1>14, <1>16, <1>17
  <2>2. QED
    BY <1>16, <1>18, <1>19, <2>1, MemberAdded
<1>21. node' = n3
  <2>1. n3 = [n2 EXCEPT ![x].kids = Append(@, k)]
    BY <1>8, <1>19 DEF WithMember
  <2>2. n2[x].kids = <<>>
    BY <1>7, <1>17
  <2>3. Append(<<>>, k) = <<k>>
    OBVIOUS
  <2>4. n3 = [n2 EXCEPT ![x] = q]
    BY <1>9, <1>17, <2>1, <2>2, <2>3
  <2>5. \A n \in Json!Nodes : n3[n] = IF n = x THEN q ELSE n2[n]
    BY <1>4, <1>17, <2>4
  <2>6. \A n \in Json!Nodes : node'[n] = IF n = y THEN s ELSE IF n = x THEN q ELSE node[n]
    BY <1>4, <1>10, <1>17
  <2>7. n3 = [n \in Json!Nodes |-> n3[n]] /\ node' = [n \in Json!Nodes |-> node'[n]]
    BY <1>10, <1>17, <2>4
  <2>8. \A n \in Json!Nodes : node'[n] = n3[n]
    BY <1>4, <1>17, <2>5, <2>6
  <2>9. QED
    BY <2>7, <2>8
<1>22. TablesFit(node', table', slots)
  <2>1. PICK ne : ne = node'
    OBVIOUS
  <2>2. /\ NodesFit(ne) /\ There(node) \subseteq There(ne) /\ x \in There(ne) \ There(node)
        /\ RootsOf(ne) \subseteq RootsOf(node) \cup {x}
    BY <1>4, <1>14, <1>16, <1>20, <1>21, <2>1
  <2>3. \A n \in There(node) : Marks(ne)[n] = Marks(node)[n]
    BY <1>14, <1>16, <1>20, <1>21, <2>1
  <2>4. TablesFit(ne, table', slots)
    BY <1>11, <1>12, <2>2, <2>3, NewNode
  <2>5. QED
    BY <2>1, <2>4
<1>23. QED
  BY <1>10, <1>20, <1>21, <1>22 DEF JsonIInv

LEMMA CopyKeeps ==
  ASSUME JsonIInv, NEW v, Json!EsfJsonValueCopy(v)
  PROVE  JsonIInv'
<1>1. NodesFit(node) /\ TablesFit(node, table, slots)
      /\ TableFits(There(node), RootsOf(node), table)
  BY DEF JsonIInv, TablesFit
<1>2. PICK g : g = Json!NodeOf(v)
  OBVIOUS
<1>3. g \in There(node) /\ g \in Json!Nodes
  BY <1>1, <1>2, LiveIs DEF Json!EsfJsonValueCopy, There
<1>4. PICK T : T = Json!Tree(g)
  OBVIOUS
<1>5. T = TreeIn(Json!Nodes, Kids(node), g)
  BY <1>3, <1>4, TreeIs
<1>6. PICK f : f = CHOOSE h \in Json!Injection(T, Json!Free) : TRUE
  OBVIOUS
<1>7. f \in Json!Injection(T, Json!Free)
  BY <1>2, <1>4, <1>6 DEF Json!EsfJsonValueCopy
<1>8. /\ f \in [T -> Json!Nodes \ There(node)]
      /\ \A o, p \in T : f[o] = f[p] => o = p
  BY <1>7, FreeIs DEF Json!Injection, Json!IsInjective
<1>9. /\ node' = Deep(node, T, f) /\ open /\ open' = open /\ slots' = slots
  BY <1>2, <1>4, <1>6 DEF Json!EsfJsonValueCopy, Deep, Relink
<1>10. table' = Adding(table, f[g])
  BY <1>2, <1>4, <1>6, AddIs DEF Json!EsfJsonValueCopy
<1>11. PICK ne : ne = node'
  OBVIOUS
<1>12. /\ NodesFit(ne) /\ There(ne) = There(node) \cup {f[o] : o \in T}
       /\ RootsOf(ne) = RootsOf(node) \cup {f[g]}
       /\ \A n \in There(node) : Marks(ne)[n] = Marks(node)[n]
       /\ f[g] \in Json!Nodes \ There(node)
  BY <1>1, <1>3, <1>5, <1>8, <1>9, <1>11, NodeCopied
<1>13. g \in T
  BY <1>1, <1>3, <1>5, TreeIsLeast DEF NodesFit
<1>14. PICK x : x = f[g]
  OBVIOUS
<1>15. /\ There(node) \subseteq There(ne) /\ x \in There(ne) \ There(node)
       /\ RootsOf(ne) \subseteq RootsOf(node) \cup {x} /\ table' = Adding(table, x)
  BY <1>10, <1>12, <1>13, <1>14
<1>16. TablesFit(ne, table', slots)
  BY <1>1, <1>12, <1>15, NewNode
<1>17. QED
  BY <1>9, <1>11, <1>12, <1>16 DEF JsonIInv

-----------------------------------------------------------------------------
\* The ids below a node are dropped, the node is still there.
LEMMA BelowDropped ==
  ASSUME JsonIInv, NEW g \in There(node),
         Json!EsfJsonValueLookupRemove(Json!Below(g)), NEW ne, NodesFit(ne),
         There(node) \ Json!Below(g) \subseteq There(ne), RootsOf(ne) = RootsOf(node),
         \A n \in There(node) \ Json!Below(g) : Marks(ne)[n] = Marks(node)[n]
  PROVE  TablesFit(ne, table', slots')
<1>1. NodesFit(node) /\ TablesFit(node, table, slots) /\ g \in Json!Nodes
  BY DEF JsonIInv, There
<1>2. PICK D : D = Json!Below(g)
  OBVIOUS
<1>3. D = TreeIn(Json!Nodes, Kids(node), g) \ {g}
  BY <1>1, <1>2, TreeIs DEF Json!Below
<1>4. table' = Without(table, D) /\ slots' = Cleared(slots, IdsIn(table, D))
  BY <1>2, TablesAre DEF Json!EsfJsonValueLookupRemove
<1>5. RootsOf(ne) \subseteq RootsOf(node) \ D
  BY <1>1, <1>3, RootNotBelow
<1>6. TablesFit(ne, Without(table, D), Cleared(slots, IdsIn(table, D)))
  BY <1>1, <1>2, <1>5, NodesGone
<1>7. QED
  BY <1>4, <1>6

\* A value gets a new node, and its id goes with it.
LEMMA ValueReplaced ==
  ASSUME JsonIInv, NEW v, Json!Live(v), NEW x \in Json!Nodes \ There(node),
         NEW c, NodeFits(c), c.kind # "free", KidsIn(c.kids) = {},
         node' = Json!EsfJsonValueDataSet(Json!NodeOf(v), x, c),
         table' = Moving(Json!TableWithout(Json!Below(Json!NodeOf(v))), v, x),
         NEW W, Json!IdsOf(Json!Below(Json!NodeOf(v))) \subseteq W, v \in W \/ c.mark = v
  PROVE  /\ NodesFit(node') /\ TablesFit(node', table', Cleared(slots, W))
         /\ v \in DOMAIN table' /\ table'[v] # Json!NoEntry /\ table'[v].node = x
         /\ Marks(node')[x] = c.mark
<1>1. /\ NodesFit(node) /\ TablesFit(node, table, slots)
      /\ TableFits(There(node), RootsOf(node), table)
  BY DEF JsonIInv, TablesFit
<1>2. PICK g : g = Json!NodeOf(v)
  OBVIOUS
<1>3. /\ v \in DOMAIN table /\ table[v] # Json!NoEntry /\ g = table[v].node
      /\ g \in There(node) /\ g \in Json!Nodes
  BY <1>1, <1>2, LiveIs DEF There
<1>4. PICK T : T = TreeIn(Json!Nodes, Kids(node), g)
  OBVIOUS
<1>5. Json!Tree(g) = T /\ Json!Below(g) = T \ {g}
  BY <1>3, <1>4, TreeIs DEF Json!Below
<1>6. PICK ne : ne = node'
  OBVIOUS
<1>7. ne = DataSet(node, T, g, x, c)
  BY <1>2, <1>5, <1>6 DEF Json!EsfJsonValueDataSet, DataSet, Relink
<1>8. /\ NodesFit(ne) /\ There(ne) = (There(node) \ T) \cup {x}
      /\ RootsOf(ne) = InPlaceOf(RootsOf(node), g, x)
      /\ \A n \in There(node) \ T : Marks(ne)[n] = Marks(node)[n]
      /\ Marks(ne)[x] = c.mark
  BY <1>1, <1>3, <1>4, <1>7, NodeExchanged
<1>9. IdsIn(table, T \ {g}) \subseteq W /\ (v \in W \/ Marks(ne)[x] = v)
  BY <1>2, <1>5, <1>8, TablesAre
<1>10. table' = Moving(Without(table, T \ {g}), v, x)
  BY <1>2, <1>5, TablesAre
<1>11. /\ TablesFit(ne, table', Cleared(slots, W)) /\ v \in DOMAIN table'
       /\ table'[v] # Json!NoEntry /\ table'[v].node = x
  <2>1. Exchanging(node, table, slots, ne, table', v, g, x, T, W)
    BY <1>1, <1>3, <1>4, <1>8, <1>9, <1>10 DEF Exchanging
  <2>2. QED
    BY <2>1, NodeGone
<1>12. QED
  BY <1>6, <1>8, <1>11

LEMMA ValueSetKeeps ==
  ASSUME JsonIInv, NEW v, NEW kind \in {"object", "array", "string", "scalar"},
         Json!ValueSet(v, kind)
  PROVE  JsonIInv'
<1>1. /\ NodesFit(node) /\ TablesFit(node, table, slots)
      /\ TableFits(There(node), RootsOf(node), table)
  BY DEF JsonIInv, TablesFit
<1>2. Json!Live(v) /\ open /\ open' = open
  BY DEF Json!ValueSet
<1>3. PICK g : g = Json!NodeOf(v)
  OBVIOUS
<1>4. g \in There(node)
  BY <1>1, <1>2, <1>3, LiveIs
<1>5. CASE /\ Json!Free # {}
           /\ node' = Json!EsfJsonValueDataSet(g, Json!Fresh, Json!Leaf(kind))
           /\ Json!EsfJsonValueReplace(v, Json!Below(g), Json!Fresh)
  <2>1. PICK x : x = Json!Fresh /\ x \in Json!Nodes \ There(node)
    BY <1>5, FreshIs
  <2>2. PICK c : c = Json!Leaf(kind)
    OBVIOUS
  <2>3. NodeFits(c) /\ c.kind # "free" /\ KidsIn(c.kids) = {}
    BY <2>2, LeafIs
  <2>4. PICK W : W = Json!IdsOf(Json!Below(g)) \cup {v}
    OBVIOUS
  <2>5. /\ node' = Json!EsfJsonValueDataSet(Json!NodeOf(v), x, c)
        /\ table' = Moving(Json!TableWithout(Json!Below(Json!NodeOf(v))), v, x)
        /\ slots' = Json!SlotsWithout(W)
    BY <1>3, <1>5, <2>1, <2>2, <2>4 DEF Json!EsfJsonValueReplace, Moving
  <2>6. Json!IdsOf(Json!Below(Json!NodeOf(v))) \subseteq W /\ v \in W
    BY <1>3, <2>4
  <2>7. NodesFit(node') /\ TablesFit(node', table', Cleared(slots, W))
    BY <1>2, <2>1, <2>3, <2>5, <2>6, ValueReplaced
  <2>8. slots' = Cleared(slots, W)
    BY <2>5, TablesAre
  <2>9. QED
    BY <1>2, <2>7, <2>8 DEF JsonIInv
<1>6. CASE Json!EsfJsonValueLookupRemove(Json!Below(g)) /\ UNCHANGED node
  <2>1. TablesFit(node, table', slots')
    BY <1>1, <1>4, <1>6, BelowDropped
  <2>2. QED
    BY <1>1, <1>2, <1>6, <2>1 DEF JsonIInv
<1>7. QED
  BY <1>3, <1>5, <1>6 DEF Json!ValueSet

LEMMA ClearKeeps ==
  ASSUME JsonIInv, NEW v, NEW kind \in {"object", "array"}, Json!Clear(v, kind)
  PROVE  JsonIInv'
<1>1. /\ NodesFit(node) /\ TablesFit(node, table, slots)
      /\ TableFits(There(node), RootsOf(node), table)
  BY DEF JsonIInv, TablesFit
<1>2. PICK g : g = Json!NodeOf(v)
  OBVIOUS
<1>3. Json!Live(v) /\ open
  BY DEF Json!Clear
<1>4. g \in There(node) /\ g \in Json!Nodes
  BY <1>1, <1>2, <1>3, LiveIs DEF There
<1>5. CASE node[g].kind # kind /\ Json!ValueSet(v, kind)
  BY <1>5, ValueSetKeeps
<1>6. CASE /\ node[g].kind = kind
           /\ node' = [Json!Freed(node, Json!Below(g)) EXCEPT ![g].kids = <<>>]
           /\ Json!EsfJsonValueLookupRemove(Json!Below(g))
           /\ UNCHANGED open
  <2>1. PICK T : T = TreeIn(Json!Nodes, Kids(node), g)
    OBVIOUS
  <2>2. Json!Below(g) = T \ {g}
    BY <1>4, <2>1, TreeIs DEF Json!Below
  <2>3. PICK ne : ne = node'
    OBVIOUS
  <2>4. ne = WithKids(Json!Freed(node, T \ {g}), g, <<>>)
    BY <1>6, <2>2, <2>3 DEF WithKids
  <2>5. /\ NodesFit(ne) /\ There(ne) = There(node) \ (T \ {g}) /\ RootsOf(ne) = RootsOf(node)
        /\ \A n \in There(ne) : Marks(ne)[n] = Marks(node)[n]
    BY <1>1, <1>4, <1>6, <2>1, <2>4, NodeEmptied
  <2>6. TablesFit(ne, table', slots')
    BY <1>4, <1>6, <2>2, <2>5, BelowDropped
  <2>7. QED
    BY <1>3, <1>6, <2>3, <2>5, <2>6 DEF JsonIInv
<1>7. QED
  BY <1>2, <1>5, <1>6 DEF Json!Clear

\* A marker has nothing below it, and the new one is for the same id.
LEMMA SetHandleKeeps ==
  ASSUME JsonIInv, NEW v, NEW size, Json!EsfJsonStringSetHandleProcess(v, size)
  PROVE  JsonIInv'
<1>1. /\ NodesFit(node) /\ TablesFit(node, table, slots)
      /\ TableFits(There(node), RootsOf(node), table) /\ SlotsFit(Marks(node), table, slots)
  BY DEF JsonIInv, TablesFit
<1>2. /\ Json!Live(v) /\ Json!HasSlot(v) /\ open /\ open' = open
      /\ Json!EsfJsonStringSetHandleInternal(v)
  BY DEF Json!EsfJsonStringSetHandleProcess
<1>3. PICK x : x = Json!Fresh /\ x \in Json!Nodes \ There(node)
  BY <1>2, FreshIs DEF Json!EsfJsonStringSetHandleInternal
<1>4. PICK c : c = Json!Marker(v)
  OBVIOUS
<1>5. PICK g : g = Json!NodeOf(v)
  OBVIOUS
<1>6. /\ v \in DOMAIN table /\ table[v] # Json!NoEntry /\ v \in Nat \ {0}
      /\ g = table[v].node /\ g \in There(node) /\ g \in Json!Nodes
  BY <1>1, <1>2, <1>5, LiveIs DEF There
<1>7. NodeFits(c) /\ c.kind # "free" /\ KidsIn(c.kids) = {} /\ c.mark = v
  BY <1>4, <1>6, MarkerIs
<1>8. PICK f : f = Json!FirstSlot(v) /\ f \in Json!SlotSet /\ slots[f].id = v
  BY <1>2, FirstSlotIs
<1>9. Marks(node)[g] = v /\ \A s \in Json!SlotSet : slots[s].id = v => s = f
  BY <1>1, <1>6, <1>8 DEF SlotsFit
<1>10. Json!Below(g) = {}
  <2>1. node[g].kids = <<>>
    <3>1. node[g].mark # 0 /\ NodeFits(node[g])
      BY <1>1, <1>6, <1>9, NodeIs
    <3>2. QED
      BY <3>1 DEF NodeFits
  <2>2. Kids(node)[g] = {}
    BY <1>6, <2>1, NoNodeIs DEF Kids
  <2>3. ClosedIn(Kids(node), {g}) /\ {g} \in SUBSET Json!Nodes
    BY <1>6, <2>2 DEF ClosedIn
  <2>4. TreeIn(Json!Nodes, Kids(node), g) \subseteq {g}
    BY <2>3 DEF TreeIn
  <2>5. QED
    BY <1>6, <2>4, TreeIs DEF Json!Below
<1>11. /\ node' = Json!EsfJsonValueDataSet(Json!NodeOf(v), x, c)
       /\ table' = Moving(Json!TableWithout(Json!Below(Json!NodeOf(v))), v, x)
  BY <1>2, <1>3, <1>4 DEF Json!EsfJsonStringSetHandleInternal, Moving
<1>12. PICK W : W = Json!IdsOf({})
  OBVIOUS
<1>13. Json!IdsOf(Json!Below(Json!NodeOf(v))) \subseteq W /\ W = {}
  BY <1>5, <1>10, <1>12 DEF Json!IdsOf
<1>14. /\ NodesFit(node') /\ TablesFit(node', table', Cleared(slots, W))
       /\ v \in DOMAIN table' /\ table'[v] # Json!NoEntry /\ table'[v].node = x
       /\ Marks(node')[x] = v
  BY <1>2, <1>3, <1>7, <1>11, <1>13, ValueReplaced
<1>15. Cleared(slots, W) = slots
  <2>1. slots = [s \in Json!SlotSet |-> slots[s]]
    BY <1>1 DEF SlotsFit
  <2>2. QED
    BY <1>13, <2>1 DEF Cleared
<1>16. PICK M : M = Marks(node')
  OBVIOUS
<1>17. SlotsFit(M, table', slots) /\ M[table'[v].node] = v
  BY <1>14, <1>15, <1>16 DEF TablesFit
<1>18. SlotsFit(M, table', [slots EXCEPT ![f] = [id |-> v, size |-> size]])
  BY <1>9, <1>14, <1>17, SlotTaken
<1>19. slots' = [slots EXCEPT ![f] = [id |-> v, size |-> size]]
  BY <1>8 DEF Json!EsfJsonStringSetHandleProcess
<1>20. TablesFit(node', table', slots')
  BY <1>14, <1>16, <1>18, <1>19 DEF TablesFit
<1>21. QED
  BY <1>2, <1>14, <1>20 DEF JsonIInv

-----------------------------------------------------------------------------
LEMMA CanHoldIs ==
  ASSUME JsonIInv, NEW parent, NEW kind \in {"object", "array"}, NEW v,
         Json!CanHold(parent, kind, v)
  PROVE  /\ Json!NodeOf(parent) \in There(node) /\ Json!NodeOf(parent) \in Json!Nodes
         /\ node[Json!NodeOf(parent)].kind \in {"object", "array"}
         /\ Json!NodeOf(v) \in RootsOf(node)
         /\ Json!NodeOf(parent) \notin TreeIn(Json!Nodes, Kids(node), Json!NodeOf(v))
         /\ open
<1>1. PICK p : p = Json!NodeOf(parent)
  OBVIOUS
<1>2. PICK x : x = Json!NodeOf(v)
  OBVIOUS
<1>3. /\ open /\ Json!Live(parent) /\ Json!Live(v) /\ ~Json!HasParent(x)
      /\ x \notin Json!Above(p) /\ node[p].kind = kind
  BY <1>1, <1>2
     DEF Json!CanHold, Json!EsfJsonValueNotHaveParentGet, Json!EsfJsonCanJsonAddToJson
<1>4. TableFits(There(node), RootsOf(node), table)
  BY DEF JsonIInv, TablesFit
<1>5. p \in There(node) /\ x \in There(node) /\ p \in Json!Nodes /\ x \in Json!Nodes
  BY <1>1, <1>2, <1>3, <1>4, LiveIs DEF There
<1>6. x \in RootsOf(node)
  BY <1>3, <1>5, RootIs
<1>7. p \notin Json!Tree(x)
  BY <1>3, <1>5 DEF Json!Above
<1>8. p \notin TreeIn(Json!Nodes, Kids(node), x)
  BY <1>5, <1>7, TreeIs
<1>9. QED
  BY <1>1, <1>2, <1>3, <1>5, <1>6, <1>8

\* A member is added, and nothing freed.
LEMMA AppendKeeps ==
  ASSUME JsonIInv, NEW parent, NEW kind \in {"object", "array"}, NEW v,
         Json!CanHold(parent, kind, v), NEW key \in MemberKeys,
         node' = WithMember(node, Json!NodeOf(parent), key, Json!NodeOf(v)),
         UNCHANGED <<open, table, slots>>
  PROVE  JsonIInv'
<1>1. /\ NodesFit(node) /\ TablesFit(node, table, slots)
      /\ TableFits(There(node), RootsOf(node), table) /\ SlotsFit(Marks(node), table, slots)
      /\ There(node) \in SUBSET Json!Nodes
  BY DEF JsonIInv, TablesFit, There
<1>2. PICK p : p = Json!NodeOf(parent)
  OBVIOUS
<1>3. PICK x : x = Json!NodeOf(v)
  OBVIOUS
<1>4. /\ p \in There(node) /\ node[p].kind \in {"object", "array"}
      /\ x \in RootsOf(node) /\ p \notin TreeIn(Json!Nodes, Kids(node), x) /\ open
  BY <1>2, <1>3, CanHoldIs
<1>5. PICK ne : ne = node'
  OBVIOUS
<1>6. ne = WithMember(node, p, key, x)
  BY <1>2, <1>3, <1>5
<1>7. /\ NodesFit(ne) /\ There(ne) = There(node) /\ RootsOf(ne) = RootsOf(node) \ {x}
      /\ \A n \in There(node) : Marks(ne)[n] = Marks(node)[n]
  BY <1>1, <1>4, <1>6, MemberAdded
<1>8. TablesFit(ne, table, slots)
  <2>1. There(node) \subseteq There(ne) /\ RootsOf(ne) \subseteq RootsOf(node)
    BY <1>7
  <2>2. QED
    BY <1>1, <1>7, <2>1, MoreNodes DEF TablesFit
<1>9. QED
  BY <1>4, <1>5, <1>7, <1>8 DEF JsonIInv

\* A member and what is below it is freed, with its ids and slots.
LEMMA MemberGone ==
  ASSUME JsonIInv, NEW m \in Json!Nodes,
         Json!EsfJsonValueLookupRemove(Json!Tree(m)),
         NEW T, T = TreeIn(Json!Nodes, Kids(node), m),
         NEW ne, NodesFit(ne), There(ne) = There(node) \ T,
         RootsOf(ne) \subseteq RootsOf(node) \ T,
         \A n \in There(node) \ T : Marks(ne)[n] = Marks(node)[n]
  PROVE  TablesFit(ne, table', slots')
<1>1. NodesFit(node) /\ TablesFit(node, table, slots)
  BY DEF JsonIInv
<1>2. Json!Tree(m) = T
  BY TreeIs
<1>3. table' = Without(table, T) /\ slots' = Cleared(slots, IdsIn(table, T))
  BY <1>2, TablesAre DEF Json!EsfJsonValueLookupRemove
<1>4. There(node) \ T \subseteq There(ne)
  OBVIOUS
<1>5. TablesFit(ne, Without(table, T), Cleared(slots, IdsIn(table, T)))
  BY <1>1, <1>4, NodesGone
<1>6. QED
  BY <1>3, <1>5

LEMMA ReplaceKeeps ==
  ASSUME JsonIInv, NEW parent, NEW kind \in {"object", "array"}, NEW v,
         Json!CanHold(parent, kind, v),
         NEW i, i \in DOMAIN node[Json!NodeOf(parent)].kids,
         Json!ReplaceMember(Json!NodeOf(parent), i, v), UNCHANGED open
  PROVE  JsonIInv'
<1>1. NodesFit(node)
  BY DEF JsonIInv
<1>2. PICK p : p = Json!NodeOf(parent)
  OBVIOUS
<1>3. PICK x : x = Json!NodeOf(v)
  OBVIOUS
<1>4. /\ p \in There(node) /\ node[p].kind \in {"object", "array"} /\ p \in Json!Nodes
      /\ x \in RootsOf(node) /\ p \notin TreeIn(Json!Nodes, Kids(node), x) /\ open
  BY <1>2, <1>3, CanHoldIs
<1>5. PICK g : g = node[p].kids[i].node
  OBVIOUS
<1>6. i \in DOMAIN node[p].kids /\ g \in Json!Nodes
  <2>1. PICK ks : ks = node[p].kids
    OBVIOUS
  <2>2. ks \in Seq(Kid) /\ i \in DOMAIN ks /\ g = ks[i].node
    BY <1>1, <1>2, <1>4, <1>5, <2>1, NodeIs
  <2>3. ks[i] \in Kid
    BY <2>2
  <2>4. QED
    BY <2>1, <2>2, <2>3 DEF Kid
<1>7. PICK T : T = TreeIn(Json!Nodes, Kids(node), g)
  OBVIOUS
<1>8. PICK ne : ne = node'
  OBVIOUS
<1>9. /\ ne = [Json!Freed(node, Json!Tree(g)) EXCEPT ![p].kids[i].node = x]
      /\ Json!EsfJsonValueLookupRemove(Json!Tree(g))
  BY <1>2, <1>3, <1>5, <1>8 DEF Json!ReplaceMember
<1>10. ne = WithMemberAt(Json!Freed(node, T), p, i, x)
  BY <1>6, <1>7, <1>9, TreeIs DEF WithMemberAt
<1>11. T = TreeIn(Json!Nodes, Kids(node), node[p].kids[i].node)
  BY <1>5, <1>7
<1>12. /\ NodesFit(ne) /\ There(ne) = There(node) \ T
       /\ RootsOf(ne) \subseteq RootsOf(node) \ T
       /\ \A n \in There(node) \ T : Marks(ne)[n] = Marks(node)[n]
  BY <1>1, <1>4, <1>6, <1>10, <1>11, MemberReplaced
<1>13. TablesFit(ne, table', slots')
  BY <1>6, <1>7, <1>9, <1>12, MemberGone
<1>14. QED
  BY <1>4, <1>8, <1>12, <1>13 DEF JsonIInv

\* Member i of parent goes with T, what is below it, and the members qs are left.
MemberOut(parent, i, T, qs) ==
  /\ Json!Live(parent) /\ node[Json!NodeOf(parent)].kind \in {"object", "array"}
  /\ i \in DOMAIN node[Json!NodeOf(parent)].kids
  /\ T = Json!Tree(node[Json!NodeOf(parent)].kids[i].node)
  /\ qs \in Seq(Kid) /\ KidsDiffer(qs)
  /\ KidsIn(qs) = KidsIn(node[Json!NodeOf(parent)].kids)
                    \ {node[Json!NodeOf(parent)].kids[i].node}
  /\ node' = WithKids(Json!Freed(node, T), Json!NodeOf(parent), qs)
  /\ Json!EsfJsonValueLookupRemove(T) /\ open /\ open' = open

LEMMA RemoveKeeps ==
  ASSUME JsonIInv, NEW parent, NEW i, NEW T, NEW qs, MemberOut(parent, i, T, qs)
  PROVE  JsonIInv'
<1>0. /\ Json!Live(parent) /\ node[Json!NodeOf(parent)].kind \in {"object", "array"}
      /\ i \in DOMAIN node[Json!NodeOf(parent)].kids
      /\ T = Json!Tree(node[Json!NodeOf(parent)].kids[i].node)
      /\ qs \in Seq(Kid) /\ KidsDiffer(qs)
      /\ KidsIn(qs) = KidsIn(node[Json!NodeOf(parent)].kids)
                        \ {node[Json!NodeOf(parent)].kids[i].node}
      /\ node' = WithKids(Json!Freed(node, T), Json!NodeOf(parent), qs)
      /\ Json!EsfJsonValueLookupRemove(T) /\ open /\ open' = open
  BY DEF MemberOut
<1>1. NodesFit(node) /\ TableFits(There(node), RootsOf(node), table)
  BY DEF JsonIInv, TablesFit
<1>2. PICK p : p = Json!NodeOf(parent)
  OBVIOUS
<1>3. p \in There(node) /\ p \in Json!Nodes /\ node[p].kind \in {"object", "array"}
  BY <1>0, <1>1, <1>2, LiveIs DEF There
<1>4. PICK g : g = node[p].kids[i].node
  OBVIOUS
<1>5. g \in KidsIn(node[p].kids) /\ g \in Json!Nodes
  <2>1. PICK ks : ks = node[p].kids
    OBVIOUS
  <2>2. ks \in Seq(Kid) /\ i \in DOMAIN ks /\ g = ks[i].node
    BY <1>0, <1>1, <1>2, <1>3, <1>4, <2>1, NodeIs
  <2>3. ks[i] \in Kid
    BY <2>2
  <2>4. QED
    BY <2>1, <2>2, <2>3 DEF Kid, KidsIn
<1>6. T = TreeIn(Json!Nodes, Kids(node), g) /\ T = Json!Tree(g)
  BY <1>0, <1>2, <1>4, <1>5, TreeIs
<1>7. PICK ne : ne = node'
  OBVIOUS
<1>8. ne = WithKids(Json!Freed(node, T), p, qs) /\ KidsIn(qs) = KidsIn(node[p].kids) \ {g}
  BY <1>0, <1>2, <1>4, <1>7
<1>9. /\ NodesFit(ne) /\ There(ne) = There(node) \ T /\ RootsOf(ne) = RootsOf(node) \ T
      /\ \A n \in There(node) \ T : Marks(ne)[n] = Marks(node)[n]
  <2>1. PICK L : L = Cut(Json!Nodes, Kids(node), T, g)
    OBVIOUS
  <2>2. Freeing(node, p, g, qs, {}, T, L, ne)
    BY <1>0, <1>1, <1>3, <1>5, <1>6, <1>8, <2>1 DEF Freeing
  <2>3. QED
    BY <2>2, MemberRemoved
<1>10. TablesFit(ne, table', slots')
  BY <1>0, <1>5, <1>6, <1>9, MemberGone
<1>11. QED
  BY <1>0, <1>7, <1>9, <1>10 DEF JsonIInv

\* A member that is asked for gets an id.
LEMMA GetKeeps ==
  ASSUME JsonIInv, NEW parent, Json!Live(parent),
         NEW i, i \in DOMAIN node[Json!NodeOf(parent)].kids,
         Json!EsfJsonValueNotManagedAdd(node[Json!NodeOf(parent)].kids[i].node)
  PROVE  JsonIInv'
<1>1. /\ NodesFit(node) /\ TableFits(There(node), RootsOf(node), table)
      /\ SlotsFit(Marks(node), table, slots) /\ There(node) \in SUBSET Json!Nodes
  BY DEF JsonIInv, TablesFit, There
<1>2. PICK p : p = Json!NodeOf(parent)
  OBVIOUS
<1>3. p \in There(node) /\ p \in Json!Nodes
  BY <1>1, <1>2, LiveIs
<1>4. PICK x : x = node[p].kids[i].node
  OBVIOUS
<1>5. x \in There(node)
  <2>1. x \in Kids(node)[p]
    <3>1. x \in KidsIn(node[p].kids)
      BY <1>2, <1>4 DEF KidsIn
    <3>2. QED
      BY <1>1, <1>3, <3>1, NodeIs
  <2>2. QED
    BY <1>1, <1>3, <2>1 DEF NodesFit, IsForest
<1>6. /\ \A j \in DOMAIN table : table[j].node # x
      /\ table' = Adding(table, x)
      /\ node' = node /\ slots' = slots /\ open' = open
  BY <1>2, <1>4, AddIs DEF Json!EsfJsonValueNotManagedAdd, Json!Managed
<1>7. HasNoId(There(node), RootsOf(node), Marks(node), table, slots, x)
  BY <1>1, <1>5, <1>6 DEF HasNoId
<1>8. /\ TableFits(There(node), RootsOf(node) \cup {x}, table')
      /\ SlotsFit(Marks(node), table', slots)
  BY <1>6, <1>7, EntryAdded
<1>9. TablesFit(node, table', slots)
  BY <1>8 DEF TablesFit, TableFits
<1>10. QED
  BY <1>6, <1>9 DEF JsonIInv

-----------------------------------------------------------------------------
\* Values without a name: the member of a parsed array, and of any array.
LEMMA NoNameIs == "" \in MemberKeys
  BY Zenon DEF MemberKeys

LEMMA DeserializeArrayKeeps ==
  ASSUME JsonIInv, Json!EsfJsonDeserialize("array", "")
  PROVE  JsonIInv'
<1>1. PICK key : key = ""
  BY Zenon
<1>2. key \in MemberKeys
  BY <1>1, NoNameIs, Zenon
<1>3. Json!EsfJsonDeserialize("array", key)
  BY <1>1, Zenon
<1>4. \E name \in MemberKeys : Json!EsfJsonDeserialize("array", name)
  BY <1>2, <1>3, Zenon
<1>5. (\E name \in MemberKeys : Json!EsfJsonDeserialize("array", name)) => JsonIInv'
  <2>1. SUFFICES ASSUME NEW name \in MemberKeys, Json!EsfJsonDeserialize("array", name)
                 PROVE  JsonIInv'
    BY Zenon
  <2>2. PICK kind : kind = "array"
    OBVIOUS
  <2>3. kind \in {"object", "array"} /\ Json!EsfJsonDeserialize(kind, name)
    BY <2>1, <2>2, Zenon
  <2>4. QED
    BY <2>3, DeserializeKeeps, Zenon
<1>6. QED
  BY <1>4, <1>5, Zenon

LEMMA ArrayAppendKeeps ==
  ASSUME JsonIInv, NEW parent, NEW v, Json!EsfJsonArrayAppend(parent, v)
  PROVE  JsonIInv'
<1>1. PICK kind : kind = "array"
  OBVIOUS
<1>2. kind \in {"object", "array"}
  BY <1>1
<1>3. /\ Json!CanHold(parent, kind, v) /\ UNCHANGED <<open, table, slots>>
      /\ node' = [node EXCEPT ![Json!NodeOf(parent)].kids =
                    Append(@, [key |-> "", node |-> Json!NodeOf(v)])]
  BY <1>1, Zenon DEF Json!EsfJsonArrayAppend
<1>4. PICK key : key = ""
  BY Zenon
<1>5. key \in MemberKeys
  BY <1>4, NoNameIs, Zenon
<1>6. node' = WithMember(node, Json!NodeOf(parent), key, Json!NodeOf(v))
  BY <1>3, <1>4, Zenon DEF WithMember
<1>7. QED
  BY <1>2, <1>3, <1>5, <1>6, AppendKeeps, Zenon

LEMMA AtIs ==
  ASSUME NEW p, NEW key, Json!HasKey(p, key)
  PROVE  Json!At(p, key) \in DOMAIN node[p].kids
  BY DEF Json!HasKey, Json!At

LEMMA ObjectSetKeeps ==
  ASSUME JsonIInv, NEW parent, NEW v, NEW key \in Keys, Json!EsfJsonObjectSet(parent, key, v)
  PROVE  JsonIInv'
<1>1. PICK kind : kind = "object"
  OBVIOUS
<1>2. kind \in {"object", "array"} /\ key \in MemberKeys
  BY <1>1, Zenon DEF MemberKeys
<1>3. Json!CanHold(parent, kind, v) /\ UNCHANGED open
  BY <1>1 DEF Json!EsfJsonObjectSet
<1>4. PICK p : p = Json!NodeOf(parent)
  OBVIOUS
<1>5. CASE Json!HasKey(p, key) /\ Json!ReplaceMember(p, Json!At(p, key), v)
  <2>1. PICK i : i = Json!At(p, key)
    OBVIOUS
  <2>2. i \in DOMAIN node[p].kids
    BY <1>5, <2>1, AtIs
  <2>3. /\ i \in DOMAIN node[Json!NodeOf(parent)].kids
        /\ Json!ReplaceMember(Json!NodeOf(parent), i, v)
    BY <1>4, <1>5, <2>1, <2>2
  <2>4. QED
    BY <1>2, <1>3, <2>3, ReplaceKeeps, Zenon
<1>6. CASE /\ node' = [node EXCEPT ![p].kids =
                         Append(@, [key |-> key, node |-> Json!NodeOf(v)])]
           /\ UNCHANGED <<table, slots>>
  <2>1. /\ node' = WithMember(node, Json!NodeOf(parent), key, Json!NodeOf(v))
        /\ UNCHANGED <<open, table, slots>>
    BY <1>3, <1>4, <1>6, Zenon DEF WithMember
  <2>2. QED
    BY <1>2, <1>3, <2>1, AppendKeeps, Zenon
<1>7. QED
  BY <1>4, <1>5, <1>6 DEF Json!EsfJsonObjectSet

LEMMA ArrayReplaceKeeps ==
  ASSUME JsonIInv, NEW parent, NEW v, NEW i, Json!EsfJsonArrayReplace(parent, i, v)
  PROVE  JsonIInv'
<1>1. PICK kind : kind = "array"
  OBVIOUS
<1>2. kind \in {"object", "array"}
  BY <1>1
<1>3. /\ Json!CanHold(parent, kind, v) /\ UNCHANGED open
      /\ i \in DOMAIN node[Json!NodeOf(parent)].kids
      /\ Json!ReplaceMember(Json!NodeOf(parent), i, v)
  BY <1>1 DEF Json!EsfJsonArrayReplace
<1>4. QED
  BY <1>2, <1>3, ReplaceKeeps, Zenon

\* The members of p other than the one at i, in whatever order, are those p keeps.
LEMMA OthersKept ==
  ASSUME JsonIInv, NEW parent, Json!Live(parent),
         NEW p, p = Json!NodeOf(parent), node[p].kind \in {"object", "array"},
         NEW i \in DOMAIN node[p].kids, NEW T, T = Json!Tree(node[p].kids[i].node)
  PROVE  /\ node[p].kids \in Seq(Kid) /\ KidsDiffer(node[p].kids)
         /\ Json!Freed(node, T)[p] = node[p]
<1>1. NodesFit(node) /\ TableFits(There(node), RootsOf(node), table)
  BY DEF JsonIInv, TablesFit
<1>2. p \in Json!Nodes
  BY <1>1, LiveIs DEF There
<1>3. PICK ks : ks = node[p].kids
  OBVIOUS
<1>4. ks \in Seq(Kid) /\ KidsDiffer(ks) /\ Kids(node)[p] = KidsIn(ks)
  BY <1>1, <1>2, <1>3, NodeIs
<1>5. PICK g : g = ks[i].node
  OBVIOUS
<1>6. g \in Kids(node)[p] /\ g \in Json!Nodes
  <2>1. ks[i] \in Kid
    BY <1>3, <1>4
  <2>2. QED
    BY <1>3, <1>4, <1>5, <2>1 DEF Kid, KidsIn
<1>7. T = TreeIn(Json!Nodes, Kids(node), g)
  BY <1>3, <1>5, <1>6, TreeIs
<1>8. p \notin T
  BY <1>1, <1>2, <1>6, <1>7, NoCycle DEF NodesFit
<1>9. Json!Freed(node, T)[p] = node[p]
  BY <1>1, <1>2, <1>8, FreedIs
<1>10. QED
  BY <1>3, <1>4, <1>9

LEMMA ObjectRemoveKeeps ==
  ASSUME JsonIInv, NEW parent, NEW key, Json!EsfJsonObjectRemove(parent, key)
  PROVE  JsonIInv'
<1>1. PICK p : p = Json!NodeOf(parent)
  OBVIOUS
<1>2. PICK i : i = Json!At(p, key)
  OBVIOUS
<1>3. PICK T : T = Json!Tree(node[p].kids[i].node)
  OBVIOUS
<1>4. /\ open /\ open' = open /\ Json!Live(parent) /\ node[p].kind = "object"
      /\ Json!HasKey(p, key)
      /\ node' = [Json!Freed(node, T) EXCEPT ![p].kids = Json!Swapped(@, i)]
      /\ Json!EsfJsonValueLookupRemove(T)
  BY <1>1, <1>2, <1>3 DEF Json!EsfJsonObjectRemove
<1>5. i \in DOMAIN node[p].kids /\ node[p].kind \in {"object", "array"}
  BY <1>2, <1>4, AtIs
<1>6. PICK ks : ks = node[p].kids
  OBVIOUS
<1>7. ks \in Seq(Kid) /\ KidsDiffer(ks) /\ Json!Freed(node, T)[p] = node[p]
  BY <1>1, <1>3, <1>4, <1>5, <1>6, OthersKept
<1>8. PICK qs : qs = Json!Swapped(ks, i)
  OBVIOUS
<1>9. qs \in Seq(Kid) /\ KidsDiffer(qs) /\ KidsIn(qs) = KidsIn(ks) \ {ks[i].node}
  BY <1>5, <1>6, <1>7, <1>8, KidSwapped
<1>10. node' = WithKids(Json!Freed(node, T), p, qs)
  BY <1>4, <1>6, <1>7, <1>8 DEF WithKids
<1>11. MemberOut(parent, i, T, qs)
  BY <1>1, <1>3, <1>4, <1>5, <1>6, <1>9, <1>10 DEF MemberOut
<1>12. QED
  BY <1>11, RemoveKeeps

LEMMA ArrayRemoveKeeps ==
  ASSUME JsonIInv, NEW parent, NEW i, Json!EsfJsonArrayRemove(parent, i)
  PROVE  JsonIInv'
<1>1. PICK p : p = Json!NodeOf(parent)
  OBVIOUS
<1>3. PICK T : T = Json!Tree(node[p].kids[i].node)
  OBVIOUS
<1>4. /\ open /\ open' = open /\ Json!Live(parent) /\ node[p].kind = "array"
      /\ i \in DOMAIN node[p].kids
      /\ node' = [Json!Freed(node, T) EXCEPT ![p].kids = Json!RemoveAt(@, i)]
      /\ Json!EsfJsonValueLookupRemove(T)
  BY <1>1, <1>3 DEF Json!EsfJsonArrayRemove, Json!RemoveMember
<1>5. node[p].kind \in {"object", "array"}
  BY <1>4
<1>6. PICK ks : ks = node[p].kids
  OBVIOUS
<1>7. ks \in Seq(Kid) /\ KidsDiffer(ks) /\ Json!Freed(node, T)[p] = node[p]
  BY <1>1, <1>3, <1>4, <1>5, <1>6, OthersKept
<1>8. PICK qs : qs = Json!RemoveAt(ks, i)
  OBVIOUS
<1>9. qs \in Seq(Kid) /\ KidsDiffer(qs) /\ KidsIn(qs) = KidsIn(ks) \ {ks[i].node}
  BY <1>4, <1>6, <1>7, <1>8, KidRemoved
<1>10. node' = WithKids(Json!Freed(node, T), p, qs)
  BY <1>4, <1>6, <1>7, <1>8 DEF WithKids
<1>11. MemberOut(parent, i, T, qs)
  BY <1>1, <1>3, <1>4, <1>5, <1>6, <1>9, <1>10 DEF MemberOut
<1>12. QED
  BY <1>11, RemoveKeeps

LEMMA ObjectGetKeeps ==
  ASSUME JsonIInv, NEW parent, NEW key, Json!EsfJsonObjectGet(parent, key)
  PROVE  JsonIInv'
<1>1. PICK i : i = Json!At(Json!NodeOf(parent), key)
  OBVIOUS
<1>2. /\ Json!Live(parent) /\ Json!HasKey(Json!NodeOf(parent), key)
      /\ Json!EsfJsonValueNotManagedAdd(node[Json!NodeOf(parent)].kids[i].node)
  BY <1>1 DEF Json!EsfJsonObjectGet
<1>3. i \in DOMAIN node[Json!NodeOf(parent)].kids
  BY <1>1, <1>2, AtIs
<1>4. QED
  BY <1>2, <1>3, GetKeeps, Zenon

LEMMA GetAtKeeps ==
  ASSUME JsonIInv, NEW parent, NEW kind, NEW i, Json!GetAt(parent, kind, i)
  PROVE  JsonIInv'
<1>1. /\ Json!Live(parent) /\ i \in DOMAIN node[Json!NodeOf(parent)].kids
      /\ Json!EsfJsonValueNotManagedAdd(node[Json!NodeOf(parent)].kids[i].node)
  BY DEF Json!GetAt
<1>2. QED
  BY <1>1, GetKeeps, Zenon

-----------------------------------------------------------------------------
\* Every call keeps the trees and the tables together.
LEMMA JsonNextKeeps ==
  ASSUME JsonIInv, Json!JsonNext
  PROVE  JsonIInv'
<1>1. Json!EsfJsonOpen \/ Json!EsfJsonClose => JsonIInv'
  BY JsonOpenKeeps, JsonCloseKeeps
<1>2. ASSUME NEW kind \in {"object", "array", "string", "scalar"}
      PROVE  Json!ValueInit(kind) => JsonIInv'
  BY ValueInitKeeps
<1>3. /\ Json!EsfJsonObjectInit \/ Json!EsfJsonArrayInit \/ Json!EsfJsonStringInit => JsonIInv'
      /\ Json!EsfJsonIntegerInit \/ Json!EsfJsonRealInit => JsonIInv'
      /\ Json!EsfJsonBooleanInit \/ Json!EsfJsonNullInit => JsonIInv'
  BY <1>2
     DEF Json!EsfJsonObjectInit, Json!EsfJsonArrayInit, Json!EsfJsonStringInit,
         Json!EsfJsonIntegerInit, Json!EsfJsonRealInit, Json!EsfJsonBooleanInit,
         Json!EsfJsonNullInit
<1>4. ASSUME NEW key \in Keys
      PROVE  Json!EsfJsonDeserialize("object", key) => JsonIInv'
  <2>1. key \in MemberKeys
    BY Zenon DEF MemberKeys
  <2>2. PICK kind : kind = "object"
    OBVIOUS
  <2>3. kind \in {"object", "array"}
    BY <2>2
  <2>4. QED
    BY <2>1, <2>2, <2>3, DeserializeKeeps, Zenon
<1>5. Json!EsfJsonDeserialize("array", "") => JsonIInv'
  BY DeserializeArrayKeeps, Zenon
<1>6. ASSUME NEW size \in MemSizes
      PROVE  Json!EsfJsonStringInitHandle(size) \/ Json!EsfJsonStringInitFileIO(size)
               => JsonIInv'
  BY StringInitHandleKeeps, MarkerFailsKeeps
     DEF Json!EsfJsonStringInitHandle, Json!EsfJsonStringInitFileIO
<1>7. ASSUME NEW v \in Json!Ids
      PROVE  Json!EsfJsonValueCopy(v) => JsonIInv'
  BY CopyKeeps
<1>8. ASSUME NEW v \in Json!Ids
      PROVE  /\ Json!EsfJsonStringSet(v) \/ Json!EsfJsonIntegerSet(v) => JsonIInv'
             /\ Json!EsfJsonRealSet(v) \/ Json!EsfJsonBooleanSet(v) => JsonIInv'
             /\ Json!EsfJsonNullSet(v) => JsonIInv'
  <2>1. ASSUME NEW kind \in {"object", "array", "string", "scalar"}
        PROVE  Json!ValueSet(v, kind) => JsonIInv'
    BY ValueSetKeeps
  <2>2. QED
    BY <2>1
       DEF Json!EsfJsonStringSet, Json!EsfJsonIntegerSet, Json!EsfJsonRealSet,
           Json!EsfJsonBooleanSet, Json!EsfJsonNullSet
<1>9. ASSUME NEW v \in Json!Ids
      PROVE  Json!EsfJsonObjectClear(v) \/ Json!EsfJsonArrayClear(v) => JsonIInv'
  <2>1. ASSUME NEW kind \in {"object", "array"}
        PROVE  Json!Clear(v, kind) => JsonIInv'
    BY ClearKeeps
  <2>2. QED
    BY <2>1 DEF Json!EsfJsonObjectClear, Json!EsfJsonArrayClear
<1>10. ASSUME NEW v \in Json!Ids, NEW size \in MemSizes
       PROVE  Json!EsfJsonStringSetHandle(v, size) \/ Json!EsfJsonStringSetFileIO(v, size)
                => JsonIInv'
  BY SetHandleKeeps DEF Json!EsfJsonStringSetHandle, Json!EsfJsonStringSetFileIO
<1>11. ASSUME NEW v \in Json!Ids, NEW key \in Keys
       PROVE  Json!EsfJsonObjectRemove(v, key) \/ Json!EsfJsonObjectGet(v, key) => JsonIInv'
  BY ObjectRemoveKeeps, ObjectGetKeeps
<1>12. ASSUME NEW v \in Json!Ids, NEW i \in Json!Nodes
       PROVE  /\ Json!EsfJsonArrayRemove(v, i) => JsonIInv'
              /\ Json!EsfJsonObjectGetAt(v, i) \/ Json!EsfJsonArrayGet(v, i) => JsonIInv'
  BY ArrayRemoveKeeps, GetAtKeeps DEF Json!EsfJsonObjectGetAt, Json!EsfJsonArrayGet
<1>13. ASSUME NEW v \in Json!Ids, NEW w \in Json!Ids
       PROVE  Json!EsfJsonArrayAppend(v, w) => JsonIInv'
  BY ArrayAppendKeeps
<1>14. ASSUME NEW v \in Json!Ids, NEW w \in Json!Ids, NEW key \in Keys
       PROVE  Json!EsfJsonObjectSet(v, key, w) => JsonIInv'
  BY ObjectSetKeeps
<1>15. ASSUME NEW v \in Json!Ids, NEW w \in Json!Ids, NEW i \in Json!Nodes
       PROVE  Json!EsfJsonArrayReplace(v, i, w) => JsonIInv'
  BY ArrayReplaceKeeps
<1>16. ASSUME NEW v \in Json!Ids, NEW w \in Json!Ids
       PROVE  ( \/ Json!EsfJsonArrayAppend(v, w)
                \/ \E key \in Keys : Json!EsfJsonObjectSet(v, key, w)
                \/ \E i \in Json!Nodes : Json!EsfJsonArrayReplace(v, i, w) ) => JsonIInv'
  BY <1>13, <1>14, <1>15, Zenon
<1>17. ASSUME NEW v \in Json!Ids
       PROVE  ( \/ Json!EsfJsonValueCopy(v)
                \/ Json!EsfJsonStringSet(v) \/ Json!EsfJsonIntegerSet(v) \/ Json!EsfJsonRealSet(v)
                \/ Json!EsfJsonBooleanSet(v) \/ Json!EsfJsonNullSet(v)
                \/ Json!EsfJsonObjectClear(v) \/ Json!EsfJsonArrayClear(v)
                \/ \E size \in MemSizes :
                     Json!EsfJsonStringSetHandle(v, size) \/ Json!EsfJsonStringSetFileIO(v, size)
                \/ \E key \in Keys :
                     Json!EsfJsonObjectRemove(v, key) \/ Json!EsfJsonObjectGet(v, key)
                \/ \E i \in Json!Nodes :
                     \/ Json!EsfJsonArrayRemove(v, i) \/ Json!EsfJsonObjectGetAt(v, i)
                     \/ Json!EsfJsonArrayGet(v, i) ) => JsonIInv'
  BY <1>7, <1>8, <1>9, <1>10, <1>11, <1>12, Zenon
<1>18. CASE \E v \in Json!Ids :
       \/ Json!EsfJsonValueCopy(v)
       \/ Json!EsfJsonStringSet(v) \/ Json!EsfJsonIntegerSet(v) \/ Json!EsfJsonRealSet(v)
       \/ Json!EsfJsonBooleanSet(v) \/ Json!EsfJsonNullSet(v)
       \/ Json!EsfJsonObjectClear(v) \/ Json!EsfJsonArrayClear(v)
       \/ \E size \in MemSizes :
            Json!EsfJsonStringSetHandle(v, size) \/ Json!EsfJsonStringSetFileIO(v, size)
       \/ \E key \in Keys : Json!EsfJsonObjectRemove(v, key) \/ Json!EsfJsonObjectGet(v, key)
       \/ \E i \in Json!Nodes :
            \/ Json!EsfJsonArrayRemove(v, i) \/ Json!EsfJsonObjectGetAt(v, i)
            \/ Json!EsfJsonArrayGet(v, i)
       \/ \E w \in Json!Ids :
            \/ Json!EsfJsonArrayAppend(v, w)
            \/ \E key \in Keys : Json!EsfJsonObjectSet(v, key, w)
            \/ \E i \in Json!Nodes : Json!EsfJsonArrayReplace(v, i, w)
  BY <1>16, <1>17, <1>18, ZenonT(30)
<1>19. CASE \E size \in MemSizes :
              Json!EsfJsonStringInitHandle(size) \/ Json!EsfJsonStringInitFileIO(size)
  BY <1>6, <1>19, Zenon
<1>20. CASE \E key \in Keys : Json!EsfJsonDeserialize("object", key)
  BY <1>4, <1>20, Zenon
<1>21. QED
  BY <1>1, <1>3, <1>5, <1>18, <1>19, <1>20, ZenonT(60) DEF Json!JsonNext

\* Steps of the other components leave the codec alone.
LEMMA JsonUnchanged ==
  ASSUME JsonIInv, UNCHANGED Json!jsonVars
  PROVE  JsonIInv'
<1>1. node' = node /\ table' = table /\ slots' = slots /\ open' = open
  BY DEF Json!jsonVars
<1>2. QED
  BY <1>1 DEF JsonIInv

\* What the codec promises follows from the three parts of the state.
LEMMA IdsNameValuesIs == JsonIInv => Json!IdsNameValues
<1>1. SUFFICES ASSUME JsonIInv, NEW i \in DOMAIN table, table[i].id # 0
               PROVE  /\ table[i].id = i
                      /\ table[i].node \in Json!Nodes \ Json!Free
                      /\ \A j \in DOMAIN table : table[j].node = table[i].node => j = i
  BY DEF Json!IdsNameValues
<1>2. TableFits(There(node), RootsOf(node), table)
  BY <1>1 DEF JsonIInv, TablesFit
<1>3. Json!Live(table[i].id)
  BY <1>1 DEF Json!Live
<1>4. PICK v : v = table[i].id
  OBVIOUS
<1>5. There(node) \in SUBSET Json!Nodes
  BY DEF There
<1>6. table[i] # Json!NoEntry
  BY <1>1, <1>2, <1>5, EntryInUse
<1>7. v = i
  BY <1>2, <1>4, <1>6 DEF TableFits
<1>8. /\ Json!NodeOf(v) = table[v].node /\ Json!NodeOf(v) \in There(node)
      /\ \A j \in DOMAIN table : table[j].node = Json!NodeOf(v) => j = v
  BY <1>2, <1>3, <1>4, LiveIs
<1>9. QED
  BY <1>4, <1>5, <1>7, <1>8, FreeIs

LEMMA EveryTreeIsOwnedIs == JsonIInv => Json!EveryTreeIsOwned
<1>1. SUFFICES ASSUME JsonIInv PROVE Json!EveryTreeIsOwned
  OBVIOUS
<1>2. /\ NodesFit(node) /\ TableFits(There(node), RootsOf(node), table)
      /\ IsForest(Json!Nodes, There(node), Kids(node)) /\ There(node) \subseteq Json!Nodes
      /\ Json!Nodes \ Json!Free = There(node)
  BY <1>1, FreeIs DEF JsonIInv, TablesFit, NodesFit, There
<1>3. ASSUME NEW n \in There(node)
      PROVE  /\ Json!Cardinality(Json!Parents(n)) <= 1 /\ n \notin Json!Parents(n)
             /\ ~Json!HasParent(n) => open /\ Json!Managed(n)
             /\ Json!HasParent(n) =>
                  \E root \in Json!Nodes : ~Json!HasParent(root) /\ n \in Json!Tree(root)
  <2>1. n \in Json!Nodes
    BY <1>2
  <2>2. PICK P : P = Json!Parents(n)
    OBVIOUS
  <2>3. P = {p \in Json!Nodes : n \in Kids(node)[p]}
    BY <2>2, KidSetIs DEF Json!Parents
  <2>4. Cardinality(P) <= 1
    <3>1. CASE P = {}
      BY <3>1, FS_EmptySet
    <3>2. CASE P # {}
      <4>1. PICK p \in P : TRUE
        BY <3>2
      <4>2. P = {p}
        BY <1>2, <2>3, <4>1 DEF IsForest
      <4>3. Cardinality({p}) = 1
        BY FS_Singleton
      <4>4. QED
        BY <4>2, <4>3
    <3>3. QED
      BY <3>1, <3>2
  <2>5. n \notin P
    <3>1. SUFFICES ASSUME n \in Kids(node)[n] PROVE FALSE
      BY <2>3
    <3>2. n \notin TreeIn(Json!Nodes, Kids(node), n)
      BY <1>2, <2>1, <3>1, NoCycle
    <3>3. n \in TreeIn(Json!Nodes, Kids(node), n)
      BY <1>2, <2>1, TreeIsLeast
    <3>4. QED
      BY <3>2, <3>3
  <2>6. ASSUME ~Json!HasParent(n) PROVE open /\ Json!Managed(n)
    <3>1. n \in RootsOf(node)
      BY <2>6, RootIs
    <3>2. open
      BY <1>1 DEF JsonIInv
    <3>3. QED
      BY <1>2, <3>1, <3>2 DEF TableFits, Json!Managed
  <2>7. \E root \in Json!Nodes : ~Json!HasParent(root) /\ n \in Json!Tree(root)
    <3>1. PICK r \in RootsOf(node) : n \in TreeIn(Json!Nodes, Kids(node), r)
      BY <1>2, HasRoot DEF RootsOf
    <3>2. r \in There(node) /\ r \in Json!Nodes
      BY <1>2 DEF RootsOf, Roots
    <3>3. ~Json!HasParent(r) /\ n \in Json!Tree(r)
      BY <3>1, <3>2, RootIs, TreeIs
    <3>4. QED
      BY <3>2, <3>3
  <2>8. Json!Cardinality(Json!Parents(n)) <= 1 /\ n \notin Json!Parents(n)
    BY <2>2, <2>4, <2>5, JsonCardinality
  <2>9. QED
    BY <2>6, <2>7, <2>8
<1>4. ~open => Json!Free = Json!Nodes
  BY <1>1, FreeIs DEF JsonIInv
<1>5. QED
  BY <1>2, <1>3, <1>4 DEF Json!EveryTreeIsOwned

LEMMA SlotsHaveMarkersIs == JsonIInv => Json!SlotsHaveMarkers
<1>1. SUFFICES ASSUME JsonIInv, NEW s \in Json!SlotSet, slots[s].id # 0
               PROVE  /\ Json!Live(slots[s].id)
                      /\ node[Json!NodeOf(slots[s].id)].mark = slots[s].id
                      /\ \A r \in Json!SlotSet : slots[r].id = slots[s].id => r = s
  BY DEF Json!SlotsHaveMarkers
<1>2. /\ NodesFit(node) /\ TableFits(There(node), RootsOf(node), table)
      /\ SlotsFit(Marks(node), table, slots)
  BY <1>1 DEF JsonIInv, TablesFit
<1>3. PICK v : v = slots[s].id
  OBVIOUS
<1>4. /\ v \in DOMAIN table /\ table[v] # Json!NoEntry
      /\ Marks(node)[table[v].node] = v
      /\ \A r \in Json!SlotSet : slots[r].id = v => r = s
  BY <1>1, <1>2, <1>3, NoEntryIs DEF SlotsFit
<1>5. table[v].id = v
  BY <1>2, <1>4 DEF TableFits
<1>6. Json!Live(v)
  BY <1>1, <1>3, <1>4, <1>5 DEF Json!Live
<1>7. Json!NodeOf(v) = table[v].node /\ Json!NodeOf(v) \in Json!Nodes
  BY <1>2, <1>6, LiveIs DEF There
<1>8. node[Json!NodeOf(v)].mark = v
  BY <1>2, <1>4, <1>7, NodeIs
<1>9. QED
  BY <1>3, <1>4, <1>6, <1>8

-----------------------------------------------------------------------------
LEMMA JsonHolds == Spec => []JsonIInv
<1>1. Init => JsonIInv
  BY JsonInitOK DEF Init
<1>2. JsonIInv /\ [Next]_vars => JsonIInv'
  <2>1. SUFFICES ASSUME JsonIInv, [Next]_vars PROVE JsonIInv'
    OBVIOUS
  <2>2. CASE Json!JsonNext
    BY <2>1, <2>2, JsonNextKeeps
  <2>3. CASE UNCHANGED jsonVars
    BY <2>1, <2>3, JsonUnchanged DEF jsonVars, Json!jsonVars
  <2>4. QED
    BY <2>1, <2>2, <2>3 DEF Next, InButton, InClock, InHal, InJson, vars
<1>3. QED
  BY <1>1, <1>2, PTL DEF Spec

\* An id leads to a value that exists and to no other's, a value belongs to one
\* parent or has an id of its own and is never below itself, and a slot that is
\* taken belongs to a value that still is its marker: whatever values a program
\* makes, copies, puts into one another, replaces, clears and removes through
\* EsfJsonOpen .. EsfJsonClose (json.c, json_internal.c), however many nodes,
\* ids and slots there are, and also when a call fails half-way.
THEOREM SpecContainerIsSound == Spec => []ContainerIsSound
<1>1. JsonIInv => ContainerIsSound
  BY IdsNameValuesIs, EveryTreeIsOwnedIs, SlotsHaveMarkersIs
     DEF ContainerIsSound, Json!ContainerIsSound
<1>2. QED
  BY <1>1, JsonHolds, PTL

-----------------------------------------------------------------------------
(* What is computed by recursion.  A value that is computed from those of  *)
(* lower rank is there: step gives the value at each place from all the    *)
(* values, and looks at those of lower rank only.                          *)
IsRecursion(X, V, N, rank, step) ==
  /\ V # {} /\ N \in Nat /\ rank \in [X -> 0 .. N] /\ step \in [X -> [[X -> V] -> V]]
  /\ \A x \in X : \A g, h \in [X -> V] :
       (\A y \in X : rank[y] < rank[x] => g[y] = h[y]) => step[x][g] = step[x][h]

LEMMA RecursionIsSolved ==
  ASSUME NEW X, NEW V, NEW N, NEW rank, NEW step, IsRecursion(X, V, N, rank, step)
  PROVE  \E g \in [X -> V] : \A x \in X : g[x] = step[x][g]
<1>0. /\ V # {} /\ N \in Nat /\ rank \in [X -> 0 .. N] /\ step \in [X -> [[X -> V] -> V]]
      /\ \A x \in X : \A g, h \in [X -> V] :
           (\A y \in X : rank[y] < rank[x] => g[y] = h[y]) => step[x][g] = step[x][h]
  BY DEF IsRecursion
<1>. DEFINE UpTo(n) == \E g \in [X -> V] : \A x \in X : rank[x] < n => g[x] = step[x][g]
<1>1. UpTo(0)
  <2>1. PICK v \in V : TRUE
    BY <1>0
  <2>2. [x \in X |-> v] \in [X -> V]
    OBVIOUS
  <2>3. \A x \in X : ~(rank[x] < 0)
    BY <1>0
  <2>4. QED
    BY <2>2, <2>3
<1>2. ASSUME NEW n \in Nat, UpTo(n) PROVE UpTo(n + 1)
  <2>1. PICK g \in [X -> V] : \A x \in X : rank[x] < n => g[x] = step[x][g]
    BY <1>2
  <2>. DEFINE h == [x \in X |-> IF rank[x] = n THEN step[x][g] ELSE g[x]]
  <2>2. h \in [X -> V]
    BY <1>0
  <2>3. ASSUME NEW x \in X, rank[x] < n + 1 PROVE h[x] = step[x][h]
    <3>1. \A y \in X : rank[y] < rank[x] => g[y] = h[y]
      <4>1. SUFFICES ASSUME NEW y \in X, rank[y] < rank[x] PROVE g[y] = h[y]
        OBVIOUS
      <4>2. rank[x] \in Nat /\ rank[y] \in Nat
        BY <1>0
      <4>3. rank[y] # n
        <5>. HIDE DEF h
        <5>1. QED
          BY <2>3, <4>1, <4>2
      <4>4. QED
        BY <4>3
    <3>2. step[x][g] = step[x][h]
      BY <1>0, <2>2, <3>1
    <3>3. h[x] = step[x][g]
      <4>1. rank[x] \in Nat
        BY <1>0
      <4>2. rank[x] = n \/ rank[x] < n
        <5>1. PICK r \in Nat : r = rank[x]
          BY <4>1
        <5>2. r < n + 1
          BY <2>3, <5>1
        <5>3. r = n \/ r < n
          BY <5>2
        <5>4. QED
          BY <5>1, <5>3
      <4>3. CASE rank[x] = n
        BY <4>3
      <4>4. CASE rank[x] < n
        BY <2>1, <4>4
      <4>5. QED
        BY <4>2, <4>3, <4>4
    <3>4. QED
      BY <3>2, <3>3
  <2>4. QED
    BY <2>2, <2>3
<1>3. UpTo(N + 1)
  <2>1. SUFFICES ASSUME ~UpTo(N + 1) PROVE FALSE
    OBVIOUS
  <2>2. PICK U : U = {n \in Nat : ~UpTo(n)}
    OBVIOUS
  <2>. HIDE DEF UpTo
  <2>3. U \subseteq Nat /\ U # {}
    BY <1>0, <2>1, <2>2
  <2>4. PICK k \in U : \A m \in U : k <= m
    BY <2>3, LeastExists
  <2>5. k # 0
    BY <1>1, <2>2, <2>4
  <2>6. k - 1 \in Nat /\ k - 1 \notin U
    BY <2>2, <2>4, <2>5
  <2>7. UpTo(k)
    <3>1. UpTo((k - 1) + 1)
      BY <1>2, <2>2, <2>6
    <3>2. (k - 1) + 1 = k
      BY <2>2, <2>4
    <3>3. QED
      BY <3>1, <3>2
  <2>8. QED
    BY <2>2, <2>4, <2>7
<1>4. PICK g \in [X -> V] : \A x \in X : rank[x] < N + 1 => g[x] = step[x][g]
  BY <1>3
<1>5. \A x \in X : rank[x] < N + 1
  BY <1>0
<1>6. QED
  BY <1>4, <1>5

\* Among the places of a set one has the lowest rank.
LEMMA LowestExists ==
  ASSUME NEW X, NEW rank \in [X -> Nat], NEW B, B \subseteq X, B # {}
  PROVE  \E x \in B : \A y \in X : rank[y] < rank[x] => y \notin B
<1>1. PICK U : U = {rank[x] : x \in B}
  OBVIOUS
<1>2. U \subseteq Nat /\ U # {}
  BY <1>1
<1>3. PICK k \in U : \A m \in U : k <= m
  BY <1>2, LeastExists
<1>4. PICK x \in B : k = rank[x]
  BY <1>1, <1>3
<1>5. ASSUME NEW y \in X, rank[y] < rank[x], y \in B PROVE FALSE
  <2>1. rank[y] \in U
    BY <1>1, <1>5
  <2>2. k <= rank[y] /\ k \in Nat /\ rank[y] \in Nat
    BY <1>2, <1>3, <2>1
  <2>3. QED
    BY <1>4, <1>5, <2>2
<1>6. QED
  BY <1>5

-----------------------------------------------------------------------------
(* The strings of a tree are a sequence of its nodes.                      *)
Flat(seqs, g) ==
  g = [i \in 1 .. Len(seqs) |-> IF i = 1 THEN seqs[i] ELSE g[i - 1] \o seqs[i]]

LEMMA FlattenIs ==
  ASSUME NEW seqs
  PROVE  Json!FlattenSeq(seqs) =
           IF Len(seqs) = 0 THEN seqs ELSE (CHOOSE g : Flat(seqs, g))[Len(seqs)]
  BY DEF Json!FlattenSeq, Flat

LEMMA FlattenIsSeq ==
  ASSUME NEW S, NEW seqs \in Seq(Seq(S))
  PROVE  Json!FlattenSeq(seqs) \in Seq(S)
<1>1. CASE Len(seqs) = 0
  <2>1. seqs = <<>>
    BY <1>1
  <2>2. Json!FlattenSeq(seqs) = seqs
    BY <1>1, FlattenIs
  <2>3. <<>> \in Seq(S)
    OBVIOUS
  <2>4. QED
    BY <2>1, <2>2, <2>3, Zenon
<1>2. CASE Len(seqs) # 0
  <2>. DEFINE X == 1 .. Len(seqs)
              V == Seq(S)
              step == [i \in X |-> [g \in [X -> V] |-> IF i = 1 THEN seqs[i] ELSE g[i - 1] \o seqs[i]]]
              rank == [i \in X |-> i]
  <2>1. /\ Len(seqs) \in Nat /\ rank \in [X -> 0 .. Len(seqs)] /\ rank \in [X -> Nat]
        /\ \A i \in X : rank[i] = i /\ seqs[i] \in V
        /\ \A i \in X : i # 1 => i - 1 \in X /\ i - 1 < i
    OBVIOUS
  <2>2. V # {}
    <3>1. <<>> \in Seq(S)
      OBVIOUS
    <3>2. QED
      BY <3>1
  <2>3. \A a, b \in V : a \o b \in V
    OBVIOUS
  <2>. HIDE DEF V, X, rank
  <2>4. \A i \in X : \A g \in [X -> V] :
           step[i][g] = IF i = 1 THEN seqs[i] ELSE g[i - 1] \o seqs[i]
    OBVIOUS
  <2>5. \A i \in X : \A g \in [X -> V] :
           (IF i = 1 THEN seqs[i] ELSE g[i - 1] \o seqs[i]) \in V
    <3>1. SUFFICES ASSUME NEW i \in X, NEW g \in [X -> V]
                   PROVE  (IF i = 1 THEN seqs[i] ELSE g[i - 1] \o seqs[i]) \in V
      OBVIOUS
    <3>2. i # 1 => g[i - 1] \in V
      BY <2>1
    <3>3. QED
      BY <2>1, <2>3, <3>2
  <2>6. step \in [X -> [[X -> V] -> V]]
    BY <2>5
  <2>. HIDE DEF step
  <2>7. ASSUME NEW i \in X, NEW g \in [X -> V], NEW h \in [X -> V],
               \A y \in X : rank[y] < rank[i] => g[y] = h[y]
        PROVE  step[i][g] = step[i][h]
    <3>1. i # 1 => i - 1 \in X /\ rank[i - 1] < rank[i]
      BY <2>1
    <3>2. i # 1 => g[i - 1] = h[i - 1]
      BY <2>7, <3>1
    <3>3. QED
      BY <2>4, <3>2
  <2>8. PICK g \in [X -> V] : \A i \in X : g[i] = step[i][g]
    <3>1. IsRecursion(X, V, Len(seqs), rank, step)
      BY <2>1, <2>2, <2>6, <2>7 DEF IsRecursion
    <3>2. QED
      BY <3>1, RecursionIsSolved
  <2>9. Flat(seqs, g)
    BY <2>4, <2>8 DEF Flat, X
  <2>10. PICK h : h = CHOOSE k : Flat(seqs, k)
    OBVIOUS
  <2>11. Flat(seqs, h)
    BY <2>9, <2>10
  <2>12. \A i \in X : h[i] = IF i = 1 THEN seqs[i] ELSE h[i - 1] \o seqs[i]
    BY <2>11 DEF Flat, X
  <2>13. \A i \in X : h[i] \in V
    <3>1. PICK B : B = {i \in X : h[i] \notin V}
      OBVIOUS
    <3>2. SUFFICES ASSUME B # {} PROVE FALSE
      BY <3>1
    <3>3. PICK i \in B : \A y \in X : rank[y] < rank[i] => y \notin B
      <4>1. rank \in [X -> Nat] /\ B \subseteq X
        BY <2>1, <3>1
      <4>2. QED
        BY <3>2, <4>1, LowestExists
    <3>4. i # 1 => h[i - 1] \in V
      BY <2>1, <3>1, <3>3
    <3>5. h[i] \in V
      BY <2>1, <2>3, <2>12, <3>1, <3>4
    <3>6. QED
      BY <3>1, <3>3, <3>5
  <2>14. Len(seqs) \in X
    BY <1>2, <2>1 DEF X
  <2>15. QED
    BY <1>2, <2>10, <2>13, <2>14, FlattenIs DEF V
<1>3. QED
  BY <1>1, <1>2

TextOf(n, g) ==
  IF node[n].kind = "string" THEN <<n>>
  ELSE Json!FlattenSeq([i \in DOMAIN node[n].kids |-> g[node[n].kids[i].node]])
IsStrings(g) == g = [n \in Json!Nodes |-> TextOf(n, g)]

LEMMA StringsIs == Json!Strings = CHOOSE g : IsStrings(g)
  BY DEF Json!Strings, IsStrings, TextOf

\* A tree is larger than those of its kids.
TreeSize(n) == Cardinality(TreeIn(Json!Nodes, Kids(node), n))

LEMMA TreesShrink ==
  ASSUME NodesFit(node), NEW n \in Json!Nodes
  PROVE  /\ TreeSize(n) \in 0 .. MaxNodes
         /\ \A m \in Kids(node)[n] : m \in Json!Nodes /\ TreeSize(m) < TreeSize(n)
<1>. DEFINE N == Json!Nodes
            K == Kids(node)
            T(m) == TreeIn(N, K, m)
<1>1. IsForest(N, There(node), K)
  BY DEF NodesFit
<1>2. IsFiniteSet(N) /\ Cardinality(N) = MaxNodes
  BY JsonAssumption, FS_Interval DEF Json!Nodes
<1>3. ASSUME NEW m \in N
      PROVE  /\ m \in T(m) /\ T(m) \subseteq N /\ ClosedIn(K, T(m))
             /\ \A S \in SUBSET N : m \in S /\ ClosedIn(K, S) => T(m) \subseteq S
             /\ IsFiniteSet(T(m)) /\ TreeSize(m) \in 0 .. MaxNodes
  <2>1. /\ m \in T(m) /\ T(m) \subseteq N /\ ClosedIn(K, T(m))
        /\ \A S \in SUBSET N : m \in S /\ ClosedIn(K, S) => T(m) \subseteq S
    BY <1>1, TreeIsLeast
  <2>2. PICK U : U = T(m)
    OBVIOUS
  <2>3. IsFiniteSet(U) /\ Cardinality(U) <= MaxNodes
    BY <1>2, <2>1, <2>2, FS_Subset
  <2>4. Cardinality(U) \in Nat
    BY <2>3, FS_CardinalityType
  <2>5. TreeSize(m) = Cardinality(U)
    BY <2>2 DEF TreeSize
  <2>6. TreeSize(m) \in 0 .. MaxNodes
    BY <2>3, <2>4, <2>5, JsonAssumption
  <2>7. QED
    BY <2>1, <2>2, <2>3, <2>6
<1>4. ASSUME NEW m \in K[n] PROVE m \in N /\ TreeSize(m) < TreeSize(n)
  <2>1. m \in N /\ n \notin T(m)
    BY <1>1, NoCycle
  <2>2. m \in T(n)
    BY <1>3 DEF ClosedIn
  <2>3. T(m) \subseteq T(n)
    BY <1>3, <2>1, <2>2
  <2>4. PICK U, W : U = T(m) /\ W = T(n)
    OBVIOUS
  <2>5. IsFiniteSet(W) /\ U \subseteq W /\ U # W
    BY <1>3, <2>1, <2>3, <2>4
  <2>6. Cardinality(U) < Cardinality(W)
    <3>1. /\ IsFiniteSet(U) /\ Cardinality(U) <= Cardinality(W)
          /\ Cardinality(U) = Cardinality(W) => U = W
      BY <2>5, FS_Subset
    <3>2. Cardinality(U) \in Nat /\ Cardinality(W) \in Nat
      BY <2>5, <3>1, FS_CardinalityType
    <3>3. QED
      BY <2>5, <3>1, <3>2
  <2>7. QED
    BY <2>1, <2>4, <2>6 DEF TreeSize
<1>5. QED
  BY <1>3, <1>4

\* The strings of a node follow from those of its kids.
LEMMA TextIsSeq ==
  ASSUME NodesFit(node), NEW n \in Json!Nodes, NEW g,
         \A m \in Kids(node)[n] : g[m] \in Seq(Json!Nodes)
  PROVE  TextOf(n, g) \in Seq(Json!Nodes)
<1>1. NodeFits(node[n])
  BY DEF NodesFit
<1>2. PICK ks : ks = node[n].kids
  OBVIOUS
<1>3. ks \in Seq(Kid) /\ Kids(node)[n] = {ks[i].node : i \in DOMAIN ks}
  BY <1>1, <1>2 DEF NodeFits, NodeRec, Kids, KidsIn
<1>4. \A i \in DOMAIN ks : g[ks[i].node] \in Seq(Json!Nodes)
  BY <1>3
<1>5. PICK V : V = Seq(Json!Nodes)
  OBVIOUS
<1>6. PICK seqs : seqs = [i \in DOMAIN ks |-> g[ks[i].node]]
  OBVIOUS
<1>7. seqs \in Seq(V)
  <2>1. Len(ks) \in Nat /\ DOMAIN ks = 1 .. Len(ks)
    BY <1>3
  <2>2. \A i \in 1 .. Len(ks) : g[ks[i].node] \in V
    BY <1>4, <1>5, <2>1
  <2>3. seqs \in [1 .. Len(ks) -> V]
    BY <1>6, <2>1, <2>2
  <2>4. QED
    BY <2>1, <2>3
<1>8. Json!FlattenSeq(seqs) \in Seq(Json!Nodes)
  BY <1>5, <1>7, FlattenIsSeq
<1>9. <<n>> \in Seq(Json!Nodes)
  OBVIOUS
<1>10. TextOf(n, g) \in {<<n>>, Json!FlattenSeq(seqs)}
  BY <1>2, <1>6 DEF TextOf
<1>11. QED
  BY <1>8, <1>9, <1>10

LEMMA TextLooksBelow ==
  ASSUME NEW n \in Json!Nodes, NEW g, NEW h, \A m \in Kids(node)[n] : g[m] = h[m]
  PROVE  TextOf(n, g) = TextOf(n, h)
<1>1. \A i \in DOMAIN node[n].kids : node[n].kids[i].node \in Kids(node)[n]
  BY DEF Kids, KidsIn
<1>2. [i \in DOMAIN node[n].kids |-> g[node[n].kids[i].node]]
        = [i \in DOMAIN node[n].kids |-> h[node[n].kids[i].node]]
  BY <1>1
<1>3. QED
  BY <1>2 DEF TextOf

LEMMA StringsAreSeqs ==
  ASSUME NodesFit(node)
  PROVE  \A n \in Json!Nodes : Json!Strings[n] \in Seq(Json!Nodes)
<1>. DEFINE X == Json!Nodes
            V == Seq(Json!Nodes)
            step == [n \in X |-> [g \in [X -> V] |-> TextOf(n, g)]]
            rank == [n \in X |-> TreeSize(n)]
<1>1. \A n \in X : /\ rank[n] = TreeSize(n) /\ rank[n] \in 0 .. MaxNodes
                   /\ \A m \in Kids(node)[n] : m \in X /\ rank[m] < rank[n]
  BY TreesShrink
<1>2. rank \in [X -> 0 .. MaxNodes] /\ rank \in [X -> Nat]
  <2>1. rank \in [X -> 0 .. MaxNodes]
    BY TreesShrink
  <2>2. 0 .. MaxNodes \subseteq Nat
    BY JsonAssumption
  <2>3. QED
    BY <2>1, <2>2
<1>3. V # {}
  <2>1. <<>> \in Seq(Json!Nodes)
    OBVIOUS
  <2>2. QED
    BY <2>1
<1>. HIDE DEF V, X, rank
<1>4. ASSUME NEW n \in X, NEW g, \A m \in Kids(node)[n] : g[m] \in V PROVE TextOf(n, g) \in V
  BY <1>4, TextIsSeq DEF X, V
<1>5. ASSUME NEW n \in X, NEW g \in [X -> V] PROVE TextOf(n, g) \in V
  <2>1. \A m \in Kids(node)[n] : g[m] \in V
    BY <1>1
  <2>2. QED
    BY <1>4, <2>1
<1>6. step \in [X -> [[X -> V] -> V]] /\ \A n \in X, g \in [X -> V] : step[n][g] = TextOf(n, g)
  BY <1>5
<1>. HIDE DEF step
<1>7. ASSUME NEW n \in X, NEW g \in [X -> V], NEW h \in [X -> V],
             \A y \in X : rank[y] < rank[n] => g[y] = h[y]
      PROVE  step[n][g] = step[n][h]
  <2>1. \A m \in Kids(node)[n] : g[m] = h[m]
    BY <1>1, <1>7
  <2>2. TextOf(n, g) = TextOf(n, h)
    BY <2>1, TextLooksBelow DEF X
  <2>3. QED
    BY <1>6, <2>2
<1>8. IsRecursion(X, V, MaxNodes, rank, step)
  BY <1>2, <1>3, <1>6, <1>7, JsonAssumption DEF IsRecursion
<1>9. PICK g \in [X -> V] : \A n \in X : g[n] = step[n][g]
  BY <1>8, RecursionIsSolved
<1>10. IsStrings(g)
  BY <1>6, <1>9 DEF IsStrings, X
<1>11. PICK h : h = Json!Strings
  OBVIOUS
<1>12. IsStrings(h)
  BY <1>10, <1>11, StringsIs
<1>13. \A n \in X : h[n] = TextOf(n, h)
  BY <1>12 DEF IsStrings, X
<1>14. \A n \in X : h[n] \in V
  <2>1. PICK B : B = {n \in X : h[n] \notin V}
    OBVIOUS
  <2>2. SUFFICES ASSUME B # {} PROVE FALSE
    BY <2>1
  <2>3. PICK n \in B : \A y \in X : rank[y] < rank[n] => y \notin B
    <3>1. B \subseteq X
      BY <2>1
    <3>2. QED
      BY <1>2, <2>2, <3>1, LowestExists
  <2>4. n \in X /\ \A m \in Kids(node)[n] : h[m] \in V
    BY <1>1, <2>1, <2>3
  <2>5. TextOf(n, h) \in V
    BY <1>4, <2>4
  <2>6. QED
    BY <1>13, <2>1, <2>3, <2>4, <2>5
<1>15. QED
  BY <1>11, <1>14 DEF X, V

-----------------------------------------------------------------------------
(* The total of what is counted place by place.                            *)
Picked(s) == CHOOSE x \in s : TRUE
SumEq(f, g) ==
  g = [s \in SUBSET DOMAIN f |-> IF s = {} THEN 0 ELSE f[Picked(s)] + g[s \ {Picked(s)}]]
Sums(f) == CHOOSE g : SumEq(f, g)
SumsGoOn(D, f, F) ==
  /\ F \in [SUBSET D -> Int]
  /\ \A s \in SUBSET D : F[s] = IF s = {} THEN 0 ELSE f[Picked(s)] + F[s \ {Picked(s)}]

LEMMA TotalIs ==
  ASSUME NEW f
  PROVE  Json!Total(f) = Sums(f)[DOMAIN f]
  BY DEF Json!Total, Json!FoldSeq, Json!FoldFunction, Json!FoldFunctionOnSet,
         Json!MapThenFoldSet, Sums, SumEq, Picked

LEMMA SumsAre ==
  ASSUME NEW D, IsFiniteSet(D), NEW f \in [D -> Int]
  PROVE  SumsGoOn(D, f, Sums(f))
<1>. DEFINE X == SUBSET D
            rank == [s \in X |-> Cardinality(s)]
            N == Cardinality(D)
            SumAt(s, g) == IF s = {} THEN 0 ELSE f[Picked(s)] + g[s \ {Picked(s)}]
            step == [s \in X |-> [g \in [X -> Int] |-> SumAt(s, g)]]
<1>1. ASSUME NEW s \in X
      PROVE  /\ Cardinality(s) \in 0 .. N
             /\ s # {} => /\ Picked(s) \in D /\ s \ {Picked(s)} \in X
                          /\ Cardinality(s \ {Picked(s)}) < Cardinality(s)
  <2>1. IsFiniteSet(s) /\ Cardinality(s) <= N
    BY FS_Subset
  <2>2. Cardinality(s) \in Nat /\ N \in Nat
    BY <2>1, FS_CardinalityType
  <2>3. ASSUME s # {} PROVE Picked(s) \in s
    BY <2>3 DEF Picked
  <2>4. ASSUME s # {} PROVE Cardinality(s \ {Picked(s)}) < Cardinality(s)
    <3>1. PICK x \in s : x = Picked(s)
      BY <2>3, <2>4
    <3>2. Cardinality(s \ {x}) = Cardinality(s) - 1
      BY <2>1, FS_RemoveElement
    <3>3. QED
      BY <2>2, <3>1, <3>2
  <2>5. QED
    BY <2>1, <2>2, <2>3, <2>4
<1>2. /\ rank \in [X -> 0 .. N] /\ N \in Nat
      /\ \A s \in X : rank[s] = Cardinality(s)
  <2>1. N \in Nat
    BY FS_CardinalityType
  <2>2. QED
    BY <1>1, <2>1
<1>3. \A s \in X : \A g \in [X -> Int] : SumAt(s, g) \in Int
  <2>1. SUFFICES ASSUME NEW s \in X, NEW g \in [X -> Int] PROVE SumAt(s, g) \in Int
    OBVIOUS
  <2>2. ASSUME s # {} PROVE f[Picked(s)] \in Int /\ g[s \ {Picked(s)}] \in Int
    BY <1>1, <2>2
  <2>3. QED
    BY <2>2
<1>4. step \in [X -> [[X -> Int] -> Int]] /\ \A s \in X, g \in [X -> Int] : step[s][g] = SumAt(s, g)
  <2>. HIDE DEF X, SumAt
  <2>1. QED
    BY <1>3
<1>5. ASSUME NEW s \in X, NEW g \in [X -> Int], NEW h \in [X -> Int],
             \A y \in X : rank[y] < rank[s] => g[y] = h[y]
      PROVE  step[s][g] = step[s][h]
  <2>1. s # {} => g[s \ {Picked(s)}] = h[s \ {Picked(s)}]
    <3>1. SUFFICES ASSUME s # {} PROVE g[s \ {Picked(s)}] = h[s \ {Picked(s)}]
      OBVIOUS
    <3>2. PICK y \in X : y = s \ {Picked(s)}
      BY <1>1, <3>1
    <3>3. Cardinality(y) < Cardinality(s)
      BY <1>1, <3>1, <3>2
    <3>4. rank[y] < rank[s]
      BY <1>2, <3>3
    <3>5. QED
      BY <1>5, <3>2, <3>4
  <2>2. SumAt(s, g) = SumAt(s, h)
    BY <2>1
  <2>3. QED
    <3>. HIDE DEF X, SumAt, step
    <3>1. QED
      BY <1>4, <2>2
<1>. HIDE DEF X, rank, N, step
<1>6. PICK g \in [X -> Int] : \A s \in X : g[s] = step[s][g]
  <2>1. Int # {}
    BY 0 \in Int
  <2>2. IsRecursion(X, Int, N, rank, step)
    BY <1>2, <1>4, <1>5, <2>1 DEF IsRecursion
  <2>3. QED
    BY <2>2, RecursionIsSolved
<1>7. DOMAIN f = D
  OBVIOUS
<1>8. SumEq(f, g)
  <2>1. \A s \in X : g[s] = SumAt(s, g)
    <3>. HIDE DEF SumAt
    <3>1. QED
      BY <1>4, <1>6
  <2>2. g = [s \in SUBSET D |-> IF s = {} THEN 0 ELSE f[Picked(s)] + g[s \ {Picked(s)}]]
    BY <2>1 DEF X
  <2>3. QED
    BY <1>7, <2>2 DEF SumEq
<1>9. PICK h : h = Sums(f)
  OBVIOUS
<1>10. SumEq(f, h)
  BY <1>8, <1>9 DEF Sums
<1>11. /\ DOMAIN h = X /\ h = [s \in X |-> h[s]]
       /\ \A s \in X : h[s] = IF s = {} THEN 0 ELSE f[Picked(s)] + h[s \ {Picked(s)}]
  BY <1>7, <1>10 DEF SumEq, X
<1>12. \A s \in X : h[s] \in Int
  <2>1. PICK B : B = {s \in X : h[s] \notin Int}
    OBVIOUS
  <2>2. SUFFICES ASSUME B # {} PROVE FALSE
    BY <2>1
  <2>3. rank \in [X -> Nat] /\ B \subseteq X
    <3>1. 0 .. N \subseteq Nat
      BY <1>2
    <3>2. QED
      BY <1>2, <2>1, <3>1
  <2>4. PICK s \in B : \A y \in X : rank[y] < rank[s] => y \notin B
    BY <2>2, <2>3, LowestExists
  <2>5. s \in X /\ h[s] \notin Int
    BY <2>1, <2>4
  <2>6. s # {}
    <3>1. SUFFICES ASSUME s = {} PROVE FALSE
      OBVIOUS
    <3>2. h[s] = IF s = {} THEN 0 ELSE f[Picked(s)] + h[s \ {Picked(s)}]
      BY <1>11, <2>5
    <3>3. h[s] = 0
      BY <3>1, <3>2
    <3>4. QED
      BY <2>5, <3>3
  <2>7. PICK y : y = s \ {Picked(s)}
    OBVIOUS
  <2>8. y \in X /\ Picked(s) \in D /\ Cardinality(y) < Cardinality(s)
    BY <1>1, <2>5, <2>6, <2>7 DEF X
  <2>9. rank[y] < rank[s]
    BY <1>2, <2>5, <2>8
  <2>10. h[y] \in Int /\ f[Picked(s)] \in Int
    BY <2>1, <2>4, <2>8, <2>9
  <2>11. h[s] = f[Picked(s)] + h[y]
    BY <1>11, <2>5, <2>6, <2>7
  <2>12. QED
    BY <2>5, <2>10, <2>11
<1>13. h \in [X -> Int]
  BY <1>11, <1>12
<1>14. QED
  BY <1>9, <1>11, <1>13 DEF X, SumsGoOn

\* What is counted in two parts adds up.
AddUp(D, f, g, h) ==
  /\ IsFiniteSet(D) /\ f \in [D -> Int] /\ g \in [D -> Int] /\ h \in [D -> Int]
  /\ \A i \in D : h[i] = f[i] + g[i]

LEMMA TotalsAdd ==
  ASSUME NEW D, NEW f, NEW g, NEW h, AddUp(D, f, g, h)
  PROVE  Json!Total(h) = Json!Total(f) + Json!Total(g)
<1>. DEFINE X == SUBSET D
            rank == [s \in X |-> Cardinality(s)]
<1>0. /\ IsFiniteSet(D) /\ f \in [D -> Int] /\ g \in [D -> Int] /\ h \in [D -> Int]
      /\ \A i \in D : h[i] = f[i] + g[i]
  BY DEF AddUp
<1>1. PICK F, G, H : F = Sums(f) /\ G = Sums(g) /\ H = Sums(h)
  OBVIOUS
<1>2. /\ F \in [X -> Int] /\ G \in [X -> Int] /\ H \in [X -> Int]
      /\ \A s \in X : /\ F[s] = IF s = {} THEN 0 ELSE f[Picked(s)] + F[s \ {Picked(s)}]
                      /\ G[s] = IF s = {} THEN 0 ELSE g[Picked(s)] + G[s \ {Picked(s)}]
                      /\ H[s] = IF s = {} THEN 0 ELSE h[Picked(s)] + H[s \ {Picked(s)}]
  <2>1. /\ F \in [X -> Int]
        /\ \A s \in X : F[s] = IF s = {} THEN 0 ELSE f[Picked(s)] + F[s \ {Picked(s)}]
    <3>1. SumsGoOn(D, f, Sums(f))
      BY <1>0, SumsAre
    <3>2. QED
      BY <1>1, <3>1 DEF SumsGoOn
  <2>2. /\ G \in [X -> Int]
        /\ \A s \in X : G[s] = IF s = {} THEN 0 ELSE g[Picked(s)] + G[s \ {Picked(s)}]
    <3>1. SumsGoOn(D, g, Sums(g))
      BY <1>0, SumsAre
    <3>2. QED
      BY <1>1, <3>1 DEF SumsGoOn
  <2>3. /\ H \in [X -> Int]
        /\ \A s \in X : H[s] = IF s = {} THEN 0 ELSE h[Picked(s)] + H[s \ {Picked(s)}]
    <3>1. SumsGoOn(D, h, Sums(h))
      BY <1>0, SumsAre
    <3>2. QED
      BY <1>1, <3>1 DEF SumsGoOn
  <2>4. QED
    <3>. HIDE DEF X
    <3>1. QED
      BY <2>1, <2>2, <2>3
<1>3. ASSUME NEW s \in X
      PROVE  /\ Cardinality(s) \in Nat
             /\ s # {} => /\ Picked(s) \in D /\ s \ {Picked(s)} \in X
                          /\ Cardinality(s \ {Picked(s)}) < Cardinality(s)
  <2>1. IsFiniteSet(s)
    BY <1>0, FS_Subset
  <2>2. Cardinality(s) \in Nat
    BY <2>1, FS_CardinalityType
  <2>3. ASSUME s # {} PROVE Picked(s) \in s
    BY <2>3 DEF Picked
  <2>4. ASSUME s # {} PROVE Cardinality(s \ {Picked(s)}) < Cardinality(s)
    <3>1. PICK x \in s : x = Picked(s)
      BY <2>3, <2>4
    <3>2. Cardinality(s \ {x}) = Cardinality(s) - 1
      BY <2>1, FS_RemoveElement
    <3>3. QED
      BY <2>2, <3>1, <3>2
  <2>5. QED
    BY <2>2, <2>3, <2>4
<1>4. rank \in [X -> Nat] /\ \A s \in X : rank[s] = Cardinality(s)
  BY <1>3
<1>5. D \in X
  OBVIOUS
<1>. HIDE DEF X, rank
<1>6. \A s \in X : H[s] = F[s] + G[s]
  <2>1. PICK B : B = {s \in X : H[s] # F[s] + G[s]}
    OBVIOUS
  <2>2. SUFFICES ASSUME B # {} PROVE FALSE
    BY <2>1
  <2>3. B \subseteq X
    BY <2>1
  <2>4. PICK s \in B : \A y \in X : rank[y] < rank[s] => y \notin B
    BY <1>4, <2>2, <2>3, LowestExists
  <2>5. s \in X /\ H[s] # F[s] + G[s]
    BY <2>1, <2>4
  <2>6. s # {}
    <3>1. SUFFICES ASSUME s = {} PROVE FALSE
      OBVIOUS
    <3>2. F[s] = 0 /\ G[s] = 0 /\ H[s] = 0
      BY <1>2, <2>5, <3>1
    <3>3. QED
      BY <2>5, <3>2
  <2>7. PICK y, x : y = s \ {Picked(s)} /\ x = Picked(s)
    OBVIOUS
  <2>8. y \in X /\ x \in D /\ rank[y] < rank[s]
    BY <1>3, <1>4, <2>5, <2>6, <2>7 DEF X
  <2>9. H[y] = F[y] + G[y]
    BY <2>1, <2>4, <2>8
  <2>10. F[s] = f[x] + F[y] /\ G[s] = g[x] + G[y] /\ H[s] = h[x] + H[y]
    BY <1>2, <2>5, <2>6, <2>7
  <2>11. h[x] = f[x] + g[x] /\ f[x] \in Int /\ g[x] \in Int /\ F[y] \in Int /\ G[y] \in Int
    BY <1>0, <1>2, <2>8
  <2>12. QED
    BY <2>5, <2>9, <2>10, <2>11
<1>7. DOMAIN f = D /\ DOMAIN g = D /\ DOMAIN h = D
  BY <1>0
<1>8. Json!Total(f) = F[D] /\ Json!Total(g) = G[D] /\ Json!Total(h) = H[D]
  BY <1>1, <1>7, TotalIs
<1>9. QED
  BY <1>5, <1>6, <1>8

-----------------------------------------------------------------------------
(* Where the data of the slots is put in.                                  *)
Earliest(hits) == CHOOSE i \in hits : \A k \in hits : i <= k
Places(marks) == (1 .. MaxSlots + 1) \X (0 .. Len(marks))
PairsFrom(marks, s, at, g) ==
  IF s \notin Json!Slotted THEN {}
  ELSE IF Json!Hits(marks, s, at) = {} THEN g[<<s + 1, at>>]
  ELSE {<<Earliest(Json!Hits(marks, s, at)), s>>} \cup
         g[<<s + 1, Earliest(Json!Hits(marks, s, at))>>]
ArePairs(marks, g) == g = [p \in Places(marks) |-> PairsFrom(marks, p[1], p[2], g)]
PairsOf(marks) == CHOOSE g : ArePairs(marks, g)

LEMMA SubstitutedIs ==
  ASSUME NEW marks
  PROVE  Json!Substituted(marks) = PairsOf(marks)[<<1, 0>>]
  BY DEF Json!Substituted, PairsOf, ArePairs, PairsFrom, Earliest, Places

LEMMA HitsAre ==
  ASSUME NEW marks \in Seq(Nat), NEW s, NEW at \in 0 .. Len(marks)
  PROVE  /\ \A i : i \in Json!Hits(marks, s, at) <=>
               i \in DOMAIN marks /\ at < i /\ Json!Finds(s, marks[i])
         /\ Json!Hits(marks, s, at) # {} =>
              /\ Earliest(Json!Hits(marks, s, at)) \in Json!Hits(marks, s, at)
              /\ \A i \in Json!Hits(marks, s, at) : Earliest(Json!Hits(marks, s, at)) <= i
<1>1. PICK H : H = Json!Hits(marks, s, at)
  OBVIOUS
<1>2. H = {i \in at + 1 .. Len(marks) : Json!Finds(s, marks[i])}
  BY <1>1 DEF Json!Hits
<1>3. /\ Len(marks) \in Nat /\ DOMAIN marks = 1 .. Len(marks)
      /\ \A i : i \in at + 1 .. Len(marks) <=> i \in 1 .. Len(marks) /\ at < i
  OBVIOUS
<1>4. \A i : i \in H <=> i \in DOMAIN marks /\ at < i /\ Json!Finds(s, marks[i])
  BY <1>2, <1>3
<1>5. H \subseteq Nat
  BY <1>3, <1>4
<1>6. ASSUME H # {} PROVE Earliest(H) \in H /\ \A i \in H : Earliest(H) <= i
  <2>1. \E i \in H : \A k \in H : i <= k
    BY <1>5, <1>6, LeastExists
  <2>2. QED
    BY <2>1 DEF Earliest
<1>7. QED
  BY <1>1, <1>4, <1>6

LEMMA SlottedIs ==
  /\ Json!Slotted \subseteq Json!SlotSet
  /\ \A s \in Json!Slotted : slots[s].id # 0
  /\ \A s \in Json!Slotted : \A r \in 1 .. s : r \in Json!Slotted
  /\ \A s \in Json!Slotted : s \in 1 .. MaxSlots /\ s + 1 \in 1 .. MaxSlots + 1
<1>1. \A s : s \in Json!SlotSet <=> s \in 1 .. MaxSlots
  BY DEF Json!SlotSet
<1>2. \A s : s \in Json!Slotted <=> s \in 1 .. MaxSlots /\ \A r \in 1 .. s : slots[r].id # 0
  BY <1>1 DEF Json!Slotted
<1>3. \A s \in 1 .. MaxSlots : s \in 1 .. s /\ s + 1 \in 1 .. MaxSlots + 1
  BY JsonAssumption
<1>4. \A s \in 1 .. MaxSlots : \A r \in 1 .. s : r \in 1 .. MaxSlots /\ 1 .. r \subseteq 1 .. s
  BY JsonAssumption
<1>5. QED
  BY <1>1, <1>2, <1>3, <1>4

\* A pair is a string and a slot whose marker is found in it.
Pair(marks) == {q \in (DOMAIN marks) \X Json!Slotted : Json!Finds(q[2], marks[q[1]])}

LEMMA PairsAre ==
  ASSUME NEW marks \in Seq(Nat)
  PROVE  /\ <<1, 0>> \in Places(marks)
         /\ PairsOf(marks) \in [Places(marks) -> SUBSET Pair(marks)]
         /\ \A s \in 1 .. MaxSlots + 1, at \in 0 .. Len(marks) :
              PairsOf(marks)[<<s, at>>] = PairsFrom(marks, s, at, PairsOf(marks))
<1>. DEFINE X == Places(marks)
            V == SUBSET Pair(marks)
            S == 1 .. MaxSlots + 1
            A == 0 .. Len(marks)
            rank == [p \in X |-> MaxSlots + 1 - p[1]]
            step == [p \in X |-> [g \in [X -> V] |-> PairsFrom(marks, p[1], p[2], g)]]
<1>1. Len(marks) \in Nat /\ MaxSlots \in Nat /\ DOMAIN marks = 1 .. Len(marks)
  BY JsonAssumption
<1>2. /\ <<1, 0>> \in X
      /\ \A s \in S, at \in A : <<s, at>> \in X
      /\ \A p \in X : p[1] \in S /\ p[2] \in A /\ p = <<p[1], p[2]>>
  <2>1. 1 \in S /\ 0 \in A /\ X = S \X A
    BY <1>1 DEF Places
  <2>. HIDE DEF X, S, A
  <2>2. QED
    BY <2>1
<1>3. /\ rank \in [X -> 0 .. MaxSlots] /\ rank \in [X -> Nat]
      /\ \A s \in S, at \in A : rank[<<s, at>>] = MaxSlots + 1 - s
  <2>1. \A p \in X : MaxSlots + 1 - p[1] \in 0 .. MaxSlots /\ MaxSlots + 1 - p[1] \in Nat
    BY <1>1, <1>2
  <2>. HIDE DEF X
  <2>2. QED
    BY <1>2, <2>1
<1>4. ASSUME NEW s \in S, NEW at \in A, s \in Json!Slotted
      PROVE  /\ s + 1 \in S /\ <<s + 1, at>> \in X
             /\ rank[<<s + 1, at>>] < rank[<<s, at>>]
             /\ Json!Hits(marks, s, at) # {} =>
                  /\ Earliest(Json!Hits(marks, s, at)) \in A
                  /\ <<Earliest(Json!Hits(marks, s, at)), s>> \in Pair(marks)
                  /\ <<s + 1, Earliest(Json!Hits(marks, s, at))>> \in X
                  /\ rank[<<s + 1, Earliest(Json!Hits(marks, s, at))>>] < rank[<<s, at>>]
  <2>1. s + 1 \in S
    BY <1>4, SlottedIs
  <2>2. \A b \in A : <<s + 1, b>> \in X /\ rank[<<s + 1, b>>] < rank[<<s, at>>]
    <3>1. \A b \in A : <<s + 1, b>> \in X /\ rank[<<s + 1, b>>] = MaxSlots + 1 - (s + 1)
      BY <1>2, <1>3, <2>1
    <3>2. rank[<<s, at>>] = MaxSlots + 1 - s
      BY <1>3
    <3>3. MaxSlots + 1 - (s + 1) < MaxSlots + 1 - s
      BY <1>1
    <3>4. QED
      BY <3>1, <3>2, <3>3
  <2>3. ASSUME Json!Hits(marks, s, at) # {}
        PROVE  /\ Earliest(Json!Hits(marks, s, at)) \in A
               /\ <<Earliest(Json!Hits(marks, s, at)), s>> \in Pair(marks)
    <3>1. PICK e : e = Earliest(Json!Hits(marks, s, at))
      OBVIOUS
    <3>2. e \in DOMAIN marks /\ Json!Finds(s, marks[e])
      BY <2>3, <3>1, HitsAre DEF A
    <3>3. e \in A
      BY <1>1, <3>2
    <3>4. <<e, s>> \in Pair(marks)
      BY <1>4, <3>2 DEF Pair
    <3>5. QED
      BY <3>1, <3>3, <3>4
  <2>4. QED
    BY <2>1, <2>2, <2>3
<1>. HIDE DEF X, V, S, A, rank
<1>5. ASSUME NEW s \in S, NEW at \in A, NEW g,
             \A y \in X : rank[y] < rank[<<s, at>>] => g[y] \in V
      PROVE  PairsFrom(marks, s, at, g) \in V
  <2>1. CASE s \notin Json!Slotted
    <3>1. PairsFrom(marks, s, at, g) = {}
      BY <2>1 DEF PairsFrom
    <3>2. QED
      BY <3>1 DEF V
  <2>2. CASE s \in Json!Slotted /\ Json!Hits(marks, s, at) = {}
    <3>1. PairsFrom(marks, s, at, g) = g[<<s + 1, at>>]
      BY <2>2 DEF PairsFrom
    <3>2. QED
      BY <1>4, <1>5, <2>2, <3>1
  <2>3. CASE s \in Json!Slotted /\ Json!Hits(marks, s, at) # {}
    <3>1. PICK e : e = Earliest(Json!Hits(marks, s, at))
      OBVIOUS
    <3>2. PairsFrom(marks, s, at, g) = {<<e, s>>} \cup g[<<s + 1, e>>]
      BY <2>3, <3>1 DEF PairsFrom
    <3>3. g[<<s + 1, e>>] \in V
      <4>1. <<s + 1, e>> \in X /\ rank[<<s + 1, e>>] < rank[<<s, at>>]
        BY <1>4, <2>3, <3>1
      <4>2. QED
        BY <1>5, <4>1
    <3>4. <<e, s>> \in Pair(marks)
      BY <1>4, <2>3, <3>1
    <3>5. QED
      BY <3>2, <3>3, <3>4 DEF V
  <2>4. QED
    BY <2>1, <2>2, <2>3
<1>6. ASSUME NEW s \in S, NEW at \in A, NEW g, NEW h,
             \A y \in X : rank[y] < rank[<<s, at>>] => g[y] = h[y]
      PROVE  PairsFrom(marks, s, at, g) = PairsFrom(marks, s, at, h)
  <2>1. CASE s \notin Json!Slotted
    BY <2>1 DEF PairsFrom
  <2>2. CASE s \in Json!Slotted /\ Json!Hits(marks, s, at) = {}
    <3>1. g[<<s + 1, at>>] = h[<<s + 1, at>>]
      BY <1>4, <1>6, <2>2
    <3>2. QED
      BY <2>2, <3>1 DEF PairsFrom
  <2>3. CASE s \in Json!Slotted /\ Json!Hits(marks, s, at) # {}
    <3>1. PICK e : e = Earliest(Json!Hits(marks, s, at))
      OBVIOUS
    <3>2. <<s + 1, e>> \in X /\ rank[<<s + 1, e>>] < rank[<<s, at>>]
      BY <1>4, <2>3, <3>1
    <3>3. g[<<s + 1, e>>] = h[<<s + 1, e>>]
      BY <1>6, <3>2
    <3>4. QED
      BY <2>3, <3>1, <3>3 DEF PairsFrom
  <2>4. QED
    BY <2>1, <2>2, <2>3
<1>7. ASSUME NEW p \in X, NEW g \in [X -> V] PROVE PairsFrom(marks, p[1], p[2], g) \in V
  <2>1. p[1] \in S /\ p[2] \in A /\ \A y \in X : g[y] \in V
    BY <1>2
  <2>2. QED
    BY <1>5, <2>1
<1>8. /\ step \in [X -> [[X -> V] -> V]]
      /\ \A p \in X, g \in [X -> V] : step[p][g] = PairsFrom(marks, p[1], p[2], g)
  BY <1>7
<1>. HIDE DEF step
<1>9. ASSUME NEW p \in X, NEW g \in [X -> V], NEW h \in [X -> V],
             \A y \in X : rank[y] < rank[p] => g[y] = h[y]
      PROVE  step[p][g] = step[p][h]
  <2>1. PICK s \in S, at \in A : p = <<s, at>> /\ s = p[1] /\ at = p[2]
    BY <1>2
  <2>2. PairsFrom(marks, s, at, g) = PairsFrom(marks, s, at, h)
    BY <1>6, <1>9, <2>1
  <2>3. QED
    BY <1>8, <2>1, <2>2
<1>10. PICK g \in [X -> V] : \A p \in X : g[p] = step[p][g]
  <2>1. V # {}
    <3>1. {} \in V
      BY DEF V
    <3>2. QED
      BY <3>1
  <2>2. IsRecursion(X, V, MaxSlots, rank, step)
    BY <1>1, <1>3, <1>8, <1>9, <2>1 DEF IsRecursion
  <2>3. QED
    BY <2>2, RecursionIsSolved
<1>11. ArePairs(marks, g)
  <2>1. g = [p \in X |-> g[p]] /\ \A p \in X : g[p] = PairsFrom(marks, p[1], p[2], g)
    BY <1>8, <1>10
  <2>2. g = [p \in X |-> PairsFrom(marks, p[1], p[2], g)]
    BY <2>1
  <2>3. QED
    BY <2>2 DEF ArePairs, X
<1>12. PICK h : h = PairsOf(marks)
  OBVIOUS
<1>13. ArePairs(marks, h)
  BY <1>11, <1>12 DEF PairsOf
<1>14. h = [p \in X |-> PairsFrom(marks, p[1], p[2], h)]
  BY <1>13 DEF ArePairs, X
<1>15. \A s \in S, at \in A : h[<<s, at>>] = PairsFrom(marks, s, at, h)
  <2>1. SUFFICES ASSUME NEW s \in S, NEW at \in A
                 PROVE  h[<<s, at>>] = PairsFrom(marks, s, at, h)
    OBVIOUS
  <2>2. PICK p : p = <<s, at>>
    OBVIOUS
  <2>3. p \in X /\ p[1] = s /\ p[2] = at
    BY <1>2, <2>2
  <2>4. h[p] = PairsFrom(marks, p[1], p[2], h)
    BY <1>14, <2>3
  <2>5. QED
    BY <2>2, <2>3, <2>4
<1>16. \A p \in X : h[p] \in V
  <2>1. PICK B : B = {p \in X : h[p] \notin V}
    OBVIOUS
  <2>2. SUFFICES ASSUME B # {} PROVE FALSE
    BY <2>1
  <2>3. B \subseteq X
    BY <2>1
  <2>4. PICK p \in B : \A y \in X : rank[y] < rank[p] => y \notin B
    BY <1>3, <2>2, <2>3, LowestExists
  <2>5. p \in X /\ h[p] \notin V
    BY <2>1, <2>4
  <2>6. PICK s \in S, at \in A : p = <<s, at>>
    BY <1>2, <2>5
  <2>7. \A y \in X : rank[y] < rank[<<s, at>>] => h[y] \in V
    BY <2>1, <2>4, <2>6
  <2>8. h[p] \in V
    BY <1>5, <1>15, <2>6, <2>7
  <2>9. QED
    BY <2>5, <2>8
<1>17. h \in [X -> V]
  <2>1. DOMAIN h = X /\ h = [p \in X |-> h[p]]
    BY <1>14
  <2>2. QED
    BY <1>16, <2>1
<1>18. QED
  BY <1>2, <1>12, <1>15, <1>17 DEF X, V, S, A

\* When the markers come in the order of their slots, each is found.
InOrder(marks, so) ==
  /\ \A i \in DOMAIN marks : marks[i] # 0 =>
        /\ so[i] \in Json!Slotted /\ slots[so[i]].id = marks[i]
        /\ \A s \in Json!SlotSet : slots[s].id = marks[i] => s = so[i]
  /\ \A i, j \in DOMAIN marks : marks[i] # 0 /\ marks[j] # 0 /\ i < j => so[i] < so[j]
  /\ \A i \in DOMAIN marks : marks[i] # 0 =>
        \A s \in 1 .. so[i] - 1 : Json!Finds(s, marks[i]) =>
           \E j \in DOMAIN marks : marks[j] # 0 /\ so[j] = s

LEMMA SubstitutedHas ==
  ASSUME NEW marks \in Seq(Nat), NEW so, InOrder(marks, so), NEW i \in DOMAIN marks
  PROVE  {q[2] : q \in {p \in Json!Substituted(marks) : p[1] = i}} =
           IF marks[i] = 0 THEN {} ELSE {so[i]}
<1>. DEFINE X == Places(marks)
            S == 1 .. MaxSlots + 1
            A == 0 .. Len(marks)
            rank == [p \in X |-> MaxSlots + 1 - p[1]]
            Marked == {k \in DOMAIN marks : marks[k] # 0}
            Ahead(s, at) == \A k \in Marked : k <= at <=> so[k] < s
            Own == {<<k, so[k]>> : k \in Marked}
            Found(s, at, h) ==
              /\ \A k \in Marked : so[k] >= s => <<k, so[k]>> \in h[<<s, at>>]
              /\ h[<<s, at>>] \subseteq Own
<1>1. /\ MaxSlots \in Nat /\ Len(marks) \in Nat /\ DOMAIN marks = 1 .. Len(marks)
      /\ \A k \in DOMAIN marks : k \in Nat /\ k >= 1 /\ k \in A
  BY JsonAssumption
<1>2. /\ \A s \in S, at \in A : <<s, at>> \in X
      /\ \A p \in X : p[1] \in S /\ p[2] \in A /\ p = <<p[1], p[2]>>
  <2>1. X = S \X A
    BY DEF Places
  <2>. HIDE DEF X, S, A
  <2>2. QED
    BY <2>1
<1>3. /\ rank \in [X -> Nat]
      /\ \A s \in S, at \in A : rank[<<s, at>>] = MaxSlots + 1 - s
  <2>1. \A p \in X : MaxSlots + 1 - p[1] \in Nat
    BY <1>1, <1>2
  <2>. HIDE DEF X
  <2>2. QED
    BY <1>2, <2>1
<1>4. /\ \A k \in Marked : /\ so[k] \in Json!Slotted /\ slots[so[k]].id = marks[k]
                           /\ marks[k] # 0 /\ k \in DOMAIN marks
                           /\ \A s \in Json!SlotSet : slots[s].id = marks[k] => s = so[k]
      /\ \A k, m \in Marked : k < m => so[k] < so[m]
      /\ \A k \in Marked : \A s \in 1 .. so[k] - 1 :
           Json!Finds(s, marks[k]) => \E m \in Marked : so[m] = s
  BY DEF InOrder
<1>5. /\ \A s \in Json!Slotted : /\ s \in S /\ s + 1 \in S /\ s \in Nat /\ s >= 1
                                 /\ s \in Json!SlotSet /\ slots[s].id # 0
      /\ \A s \in Json!Slotted, r \in S : r <= s => r \in Json!Slotted
  <2>1. \A s \in Json!Slotted : s \in 1 .. MaxSlots /\ s \in Json!SlotSet /\ slots[s].id # 0
    BY SlottedIs
  <2>2. \A s \in 1 .. MaxSlots : s \in S /\ s + 1 \in S /\ s \in Nat /\ s >= 1
    BY <1>1
  <2>3. \A s \in Json!Slotted : \A r \in 1 .. s : r \in Json!Slotted
    BY SlottedIs
  <2>4. \A s \in 1 .. MaxSlots, r \in S : r <= s => r \in 1 .. s
    BY <1>1
  <2>5. QED
    BY <2>1, <2>2, <2>3, <2>4
<1>6. PICK h : h = PairsOf(marks)
  OBVIOUS
<1>7. /\ <<1, 0>> \in X /\ h \in [X -> SUBSET Pair(marks)]
      /\ \A s \in S, at \in A : h[<<s, at>>] = PairsFrom(marks, s, at, h)
  BY <1>6, PairsAre
<1>8. \A k \in Marked : so[k] \in Nat /\ k \in Nat /\ k \in A /\ k >= 1
  BY <1>1, <1>4, <1>5
<1>9. \A s \in S : s \in Nat /\ s >= 1
  BY <1>1
<1>10. \A at \in A : at \in Nat
  BY <1>1
<1>. HIDE DEF X, S, A, rank
<1>11. ASSUME NEW s \in S, NEW at \in A, Ahead(s, at),
              \A r \in S, b \in A : r > s /\ Ahead(r, b) => Found(r, b, h)
       PROVE  Found(s, at, h)
  <2>1. h[<<s, at>>] = PairsFrom(marks, s, at, h)
    BY <1>7
  <2>2. CASE s \notin Json!Slotted
    <3>1. h[<<s, at>>] = {}
      BY <2>1, <2>2 DEF PairsFrom
    <3>2. \A k \in Marked : ~(so[k] >= s)
      <4>1. SUFFICES ASSUME NEW k \in Marked, so[k] >= s PROVE FALSE
        OBVIOUS
      <4>2. so[k] \in Json!Slotted /\ so[k] \in Nat /\ s \in Nat
        BY <1>4, <1>8, <1>9
      <4>3. QED
        BY <1>5, <2>2, <4>1, <4>2
    <3>3. QED
      BY <3>1, <3>2
  <2>3. CASE s \in Json!Slotted
    <3>1. /\ s \in Nat /\ s + 1 \in S /\ s + 1 > s /\ s >= 1
          /\ s \in Json!SlotSet /\ slots[s].id # 0
      <4>1. s \in Nat /\ s + 1 \in S /\ s >= 1 /\ s \in Json!SlotSet /\ slots[s].id # 0
        BY <1>5, <2>3
      <4>2. QED
        BY <4>1
    <3>2. PICK H : H = Json!Hits(marks, s, at)
      OBVIOUS
    <3>3. /\ \A j : j \in H <=> j \in DOMAIN marks /\ at < j /\ Json!Finds(s, marks[j])
          /\ H # {} => Earliest(H) \in H /\ \A j \in H : Earliest(H) <= j
      BY <3>2, HitsAre DEF A
    <3>4. ASSUME NEW k \in Marked, so[k] = s PROVE k \in H
      <4>1. Json!Finds(s, marks[k]) /\ k \in DOMAIN marks
        BY <1>4, <3>4 DEF Json!Finds
      <4>2. ~(k <= at)
        BY <1>11, <3>1, <3>4
      <4>3. at < k
        BY <1>8, <1>10, <4>2
      <4>4. QED
        BY <3>3, <4>1, <4>3
    <3>5. CASE H = {}
      <4>1. h[<<s, at>>] = h[<<s + 1, at>>]
        BY <2>1, <2>3, <3>2, <3>5 DEF PairsFrom
      <4>2. \A m \in Marked : so[m] # s
        BY <3>4, <3>5
      <4>3. Ahead(s + 1, at)
        <5>1. SUFFICES ASSUME NEW m \in Marked PROVE m <= at <=> so[m] < s + 1
          OBVIOUS
        <5>2. so[m] \in Nat /\ so[m] # s /\ (m <= at <=> so[m] < s)
          BY <1>8, <1>11, <4>2
        <5>3. QED
          BY <3>1, <5>2
      <4>4. Found(s + 1, at, h)
        BY <1>11, <3>1, <4>3
      <4>5. \A k \in Marked : so[k] >= s => so[k] >= s + 1
        BY <1>8, <3>1, <4>2
      <4>6. QED
        BY <4>1, <4>4, <4>5
    <3>6. CASE H # {}
      <4>1. PICK e : e = Earliest(H)
        OBVIOUS
      <4>2. /\ e \in DOMAIN marks /\ at < e /\ Json!Finds(s, marks[e])
            /\ \A j \in H : e <= j
        BY <3>3, <3>6, <4>1
      <4>3. e \in Marked
        <5>1. SUFFICES ASSUME marks[e] = 0 PROVE FALSE
          BY <4>2
        <5>2. Json!Shortened(0) = {}
          BY DEF Json!Shortened
        <5>3. QED
          BY <3>1, <4>2, <5>1, <5>2 DEF Json!Finds
      <4>4. e \in A /\ e \in Nat /\ so[e] \in Nat
        BY <1>8, <4>3
      <4>5. ~(so[e] < s)
        BY <1>10, <1>11, <4>2, <4>3, <4>4
      <4>6. so[e] = s
        <5>1. SUFFICES ASSUME so[e] > s PROVE FALSE
          BY <3>1, <4>4, <4>5
        <5>2. s \in 1 .. so[e] - 1
          BY <3>1, <4>4, <5>1
        <5>3. PICK m \in Marked : so[m] = s
          BY <1>4, <4>2, <4>3, <5>2
        <5>4. e <= m
          BY <3>4, <4>2, <5>3
        <5>5. e = m \/ e < m
          BY <1>8, <4>4, <5>4
        <5>6. so[e] <= so[m]
          BY <1>4, <1>8, <4>3, <4>4, <5>5
        <5>7. QED
          BY <3>1, <4>4, <5>1, <5>3, <5>6
      <4>7. h[<<s, at>>] = {<<e, s>>} \cup h[<<s + 1, e>>]
        BY <2>1, <2>3, <3>2, <3>6, <4>1 DEF PairsFrom
      <4>8. Ahead(s + 1, e)
        <5>1. SUFFICES ASSUME NEW m \in Marked PROVE m <= e <=> so[m] < s + 1
          OBVIOUS
        <5>2. so[m] \in Nat /\ m \in Nat
          BY <1>8
        <5>3. m < e => so[m] < s
          BY <1>4, <4>3, <4>6
        <5>4. e < m => s < so[m]
          BY <1>4, <4>3, <4>6
        <5>5. m = e => so[m] = s
          BY <4>6
        <5>6. QED
          BY <3>1, <4>4, <5>2, <5>3, <5>4, <5>5
      <4>9. Found(s + 1, e, h)
        BY <1>11, <3>1, <4>4, <4>8
      <4>10. <<e, s>> \in Own
        BY <4>3, <4>6
      <4>11. ASSUME NEW k \in Marked, so[k] >= s PROVE <<k, so[k]>> \in h[<<s, at>>]
        <5>1. CASE so[k] = s
          <6>1. ~(k < e) /\ ~(e < k)
            <7>1. ~(so[k] < so[e]) /\ ~(so[e] < so[k])
              BY <3>1, <4>6, <5>1
            <7>2. QED
              BY <1>4, <4>3, <7>1
          <6>2. k = e
            BY <1>8, <4>4, <6>1
          <6>3. QED
            BY <4>7, <5>1, <6>2
        <5>2. CASE so[k] # s
          <6>1. so[k] >= s + 1
            BY <1>8, <3>1, <4>11, <5>2
          <6>2. QED
            BY <4>7, <4>9, <6>1
        <5>3. QED
          BY <5>1, <5>2
      <4>12. h[<<s, at>>] \subseteq Own
        BY <4>7, <4>9, <4>10
      <4>13. QED
        BY <4>11, <4>12
    <3>7. QED
      BY <3>5, <3>6
  <2>4. QED
    BY <2>2, <2>3
<1>12. \A s \in S, at \in A : Ahead(s, at) => Found(s, at, h)
  <2>. HIDE DEF Ahead, Found, Marked
  <2>1. PICK B : B = {p \in X : Ahead(p[1], p[2]) /\ ~Found(p[1], p[2], h)}
    OBVIOUS
  <2>2. ASSUME B # {} PROVE FALSE
    <3>1. B \subseteq X
      BY <2>1
    <3>2. PICK p \in B : \A y \in X : rank[y] < rank[p] => y \notin B
      BY <1>3, <2>2, <3>1, LowestExists
    <3>3. PICK s \in S, at \in A : p = <<s, at>> /\ Ahead(s, at) /\ ~Found(s, at, h)
      BY <1>2, <2>1, <3>2
    <3>4. ASSUME NEW r \in S, NEW b \in A, r > s, Ahead(r, b) PROVE Found(r, b, h)
      <4>1. PICK y : y = <<r, b>>
        OBVIOUS
      <4>2. y \in X /\ y[1] = r /\ y[2] = b
        BY <1>2, <4>1
      <4>3. rank[y] = MaxSlots + 1 - r /\ rank[p] = MaxSlots + 1 - s
        BY <1>3, <3>3, <4>1
      <4>4. rank[y] < rank[p]
        BY <1>1, <1>9, <3>4, <4>3
      <4>5. y \notin B
        BY <3>2, <4>2, <4>4
      <4>6. QED
        BY <2>1, <3>4, <4>2, <4>5
    <3>5. Found(s, at, h)
      BY <1>11, <3>3, <3>4
    <3>6. QED
      BY <3>3, <3>5
  <2>3. SUFFICES ASSUME NEW s \in S, NEW at \in A, Ahead(s, at) PROVE Found(s, at, h)
    OBVIOUS
  <2>4. PICK p : p = <<s, at>>
    OBVIOUS
  <2>5. p \in X /\ p[1] = s /\ p[2] = at
    BY <1>2, <2>4
  <2>6. QED
    BY <2>1, <2>2, <2>3, <2>5
<1>13. PICK pairs : pairs = Json!Substituted(marks)
  OBVIOUS
<1>14. pairs = h[<<1, 0>>] /\ pairs \subseteq Pair(marks)
  BY <1>6, <1>7, <1>13, SubstitutedIs
<1>15. (\A k \in Marked : <<k, so[k]>> \in pairs) /\ pairs \subseteq Own
  <2>1. 1 \in S /\ 0 \in A
    BY <1>1 DEF S, A
  <2>2. \A k \in Marked : so[k] >= 1 /\ so[k] \in Nat
    BY <1>4, <1>5, <1>8
  <2>3. \A k \in Marked : ~(k <= 0) /\ ~(so[k] < 1)
    BY <1>8, <2>2
  <2>4. Ahead(1, 0)
    BY <2>3
  <2>5. Found(1, 0, h)
    BY <1>12, <2>1, <2>4
  <2>6. QED
    BY <1>14, <2>2, <2>5
<1>16. \A q \in pairs : q[1] \in Marked /\ q[2] = so[q[1]]
  BY <1>15
<1>17. CASE marks[i] = 0
  <2>1. \A q \in pairs : q[1] # i
    BY <1>16, <1>17
  <2>2. QED
    BY <1>13, <1>17, <2>1
<1>18. CASE marks[i] # 0
  <2>1. i \in Marked
    BY <1>18
  <2>2. \A q \in pairs : q[1] = i => q[2] = so[i]
    BY <1>16
  <2>3. PICK t : t = <<i, so[i]>>
    OBVIOUS
  <2>4. t \in pairs /\ t[1] = i /\ t[2] = so[i]
    BY <1>15, <2>1, <2>3
  <2>5. PICK P : P = {p \in pairs : p[1] = i}
    OBVIOUS
  <2>6. t \in P /\ \A q \in P : q[2] = so[i]
    BY <2>2, <2>4, <2>5
  <2>7. {q[2] : q \in P} = {so[i]}
    BY <2>4, <2>6
  <2>8. QED
    BY <1>13, <1>18, <2>5, <2>7
<1>19. QED
  BY <1>17, <1>18

-----------------------------------------------------------------------------
(* The size of the data behind a slot is one that was given with it.       *)
SizesFit == \A s \in Json!SlotSet : slots[s].size \in Nat

LEMMA SizesInitOK == Json!JsonInit => SizesFit
  BY DEF Json!JsonInit, Json!EsfJsonValueContainerInit, Json!NoSlot, SizesFit

SlotsGoOn ==
  \A s \in Json!SlotSet :
     slots'[s] = slots[s] \/ slots'[s] = Json!NoSlot \/ slots'[s].size \in MemSizes

LEMMA SlotsGoOnWhen ==
  ASSUME JsonIInv,
         \/ slots' = slots
         \/ slots' = [s \in Json!SlotSet |-> Json!NoSlot]
         \/ \E W : slots' = Json!SlotsWithout(W)
         \/ \E x, i : \E z \in MemSizes : slots' = [slots EXCEPT ![x] = [id |-> i, size |-> z]]
  PROVE  SlotsGoOn
<1>1. slots = [s \in Json!SlotSet |-> slots[s]]
  BY DEF JsonIInv, TablesFit, SlotsFit
<1>2. CASE slots' = slots
  BY <1>2 DEF SlotsGoOn
<1>3. CASE slots' = [s \in Json!SlotSet |-> Json!NoSlot]
  BY <1>3 DEF SlotsGoOn
<1>4. ASSUME NEW W, slots' = Json!SlotsWithout(W) PROVE SlotsGoOn
  BY <1>4 DEF SlotsGoOn, Json!SlotsWithout
<1>5. ASSUME NEW x, NEW i, NEW z \in MemSizes, slots' = [slots EXCEPT ![x] = [id |-> i, size |-> z]]
      PROVE  SlotsGoOn
  <2>1. DOMAIN slots = Json!SlotSet
    BY <1>1
  <2>2. \A s \in Json!SlotSet : slots'[s] = IF s = x THEN [id |-> i, size |-> z] ELSE slots[s]
    BY <1>5, <2>1
  <2>3. [id |-> i, size |-> z].size = z
    OBVIOUS
  <2>4. QED
    BY <2>2, <2>3 DEF SlotsGoOn
<1>6. QED
  BY <1>2, <1>3, <1>4, <1>5

LEMMA SizesKeep ==
  ASSUME SizesFit, SlotsGoOn
  PROVE  SizesFit'
<1>1. Json!NoSlot.size = 0
  BY DEF Json!NoSlot
<1>2. SUFFICES ASSUME NEW s \in Json!SlotSet PROVE slots'[s].size \in Nat
  BY DEF SizesFit, Json!SlotSet
<1>3. slots'[s] = slots[s] \/ slots'[s] = Json!NoSlot \/ slots'[s].size \in MemSizes
  BY DEF SlotsGoOn
<1>4. slots[s].size \in Nat
  BY DEF SizesFit
<1>5. \A z \in MemSizes : z \in Nat
  BY SizesAssumption
<1>6. CASE slots'[s] = slots[s]
  BY <1>4, <1>6
<1>7. CASE slots'[s] = Json!NoSlot
  <2>1. slots'[s].size = 0
    BY <1>1, <1>7
  <2>2. QED
    BY <2>1
<1>8. CASE slots'[s].size \in MemSizes
  BY <1>5, <1>8
<1>9. QED
  BY <1>3, <1>6, <1>7, <1>8

\* Every call leaves the slots, gives some back, or takes one for a size.
LEMMA SizesNextKeeps ==
  ASSUME JsonIInv, SizesFit, Json!JsonNext
  PROVE  SizesFit'
<1>. DEFINE Kept == slots' = slots
            AllFree == slots' = [s \in Json!SlotSet |-> Json!NoSlot]
            Dropped == \E W : slots' = Json!SlotsWithout(W)
            Taken == \E x, i : \E z \in MemSizes : slots' = [slots EXCEPT ![x] = [id |-> i, size |-> z]]
<1>1. Json!EsfJsonOpen \/ Json!EsfJsonClose => AllFree
  BY DEF Json!EsfJsonOpen, Json!EsfJsonClose, Json!EsfJsonValueContainerFree
<1>2. ASSUME NEW kind, Json!ValueInit(kind) PROVE Kept
  BY <1>2 DEF Json!ValueInit
<1>3. ASSUME NEW kind, NEW key, Json!EsfJsonDeserialize(kind, key) PROVE Kept
  BY <1>3 DEF Json!EsfJsonDeserialize
<1>4. ASSUME NEW z \in MemSizes, Json!EsfJsonStringInitHandleProcess(z) PROVE Taken
  BY <1>4 DEF Json!EsfJsonStringInitHandleProcess
<1>5. Json!MarkerFails => Kept
  BY DEF Json!MarkerFails
<1>6. ASSUME NEW v, Json!EsfJsonValueCopy(v) PROVE Kept
  BY <1>6 DEF Json!EsfJsonValueCopy
<1>7. ASSUME NEW D, Json!EsfJsonValueLookupRemove(D) PROVE Dropped
  BY <1>7 DEF Json!EsfJsonValueLookupRemove
<1>8. ASSUME NEW v, NEW kind, Json!ValueSet(v, kind) PROVE Dropped
  BY <1>7, <1>8 DEF Json!ValueSet, Json!EsfJsonValueReplace
<1>9. ASSUME NEW v, NEW kind, Json!Clear(v, kind) PROVE Dropped
  BY <1>7, <1>8, <1>9 DEF Json!Clear
<1>10. ASSUME NEW v, NEW z \in MemSizes, Json!EsfJsonStringSetHandleProcess(v, z) PROVE Taken
  BY <1>10 DEF Json!EsfJsonStringSetHandleProcess
<1>11. ASSUME NEW p, NEW i, NEW v, Json!ReplaceMember(p, i, v) PROVE Dropped
  BY <1>7, <1>11 DEF Json!ReplaceMember
<1>12. ASSUME NEW v, NEW key, NEW w, Json!EsfJsonObjectSet(v, key, w) PROVE Kept \/ Dropped
  BY <1>11, <1>12 DEF Json!EsfJsonObjectSet
<1>13. ASSUME NEW v, NEW w, Json!EsfJsonArrayAppend(v, w) PROVE Kept
  BY <1>13 DEF Json!EsfJsonArrayAppend
<1>14. ASSUME NEW v, NEW i, NEW w, Json!EsfJsonArrayReplace(v, i, w) PROVE Dropped
  BY <1>11, <1>14 DEF Json!EsfJsonArrayReplace
<1>15. ASSUME NEW v, NEW key, Json!EsfJsonObjectRemove(v, key) PROVE Dropped
  BY <1>7, <1>15 DEF Json!EsfJsonObjectRemove
<1>16. ASSUME NEW v, NEW i, Json!EsfJsonArrayRemove(v, i) PROVE Dropped
  BY <1>7, <1>16 DEF Json!EsfJsonArrayRemove, Json!RemoveMember
<1>17. ASSUME NEW v, NEW key, Json!EsfJsonObjectGet(v, key) PROVE Kept
  BY <1>17 DEF Json!EsfJsonObjectGet, Json!EsfJsonValueNotManagedAdd
<1>18. ASSUME NEW v, NEW kind, NEW i, Json!GetAt(v, kind, i) PROVE Kept
  BY <1>18 DEF Json!GetAt, Json!EsfJsonValueNotManagedAdd
<1>. HIDE DEF Kept, AllFree, Dropped, Taken
<1>19. Kept \/ AllFree \/ Dropped \/ Taken
  <2>1. CASE \/ Json!EsfJsonObjectInit \/ Json!EsfJsonArrayInit \/ Json!EsfJsonStringInit
             \/ Json!EsfJsonIntegerInit \/ Json!EsfJsonRealInit \/ Json!EsfJsonBooleanInit
             \/ Json!EsfJsonNullInit
    BY <1>2, <2>1
       DEF Json!EsfJsonObjectInit, Json!EsfJsonArrayInit, Json!EsfJsonStringInit,
           Json!EsfJsonIntegerInit, Json!EsfJsonRealInit, Json!EsfJsonBooleanInit, Json!EsfJsonNullInit
  <2>2. CASE \/ \E key \in Keys : Json!EsfJsonDeserialize("object", key)
             \/ Json!EsfJsonDeserialize("array", "")
    BY <1>3, <2>2
  <2>3. ASSUME NEW z \in MemSizes, Json!EsfJsonStringInitHandle(z) \/ Json!EsfJsonStringInitFileIO(z)
        PROVE  Kept \/ Taken
    BY <1>4, <1>5, <2>3 DEF Json!EsfJsonStringInitHandle, Json!EsfJsonStringInitFileIO
  <2>4. ASSUME NEW v \in Json!Ids,
               \/ Json!EsfJsonValueCopy(v)
               \/ Json!EsfJsonStringSet(v) \/ Json!EsfJsonIntegerSet(v) \/ Json!EsfJsonRealSet(v)
               \/ Json!EsfJsonBooleanSet(v) \/ Json!EsfJsonNullSet(v)
               \/ Json!EsfJsonObjectClear(v) \/ Json!EsfJsonArrayClear(v)
        PROVE  Kept \/ Dropped
    BY <1>6, <1>8, <1>9, <2>4
       DEF Json!EsfJsonStringSet, Json!EsfJsonIntegerSet, Json!EsfJsonRealSet, Json!EsfJsonBooleanSet,
           Json!EsfJsonNullSet, Json!EsfJsonObjectClear, Json!EsfJsonArrayClear
  <2>5. ASSUME NEW v \in Json!Ids, NEW z \in MemSizes,
               Json!EsfJsonStringSetHandle(v, z) \/ Json!EsfJsonStringSetFileIO(v, z)
        PROVE  Taken
    BY <1>10, <2>5 DEF Json!EsfJsonStringSetHandle, Json!EsfJsonStringSetFileIO
  <2>6. ASSUME NEW v \in Json!Ids, NEW key \in Keys,
               Json!EsfJsonObjectRemove(v, key) \/ Json!EsfJsonObjectGet(v, key)
        PROVE  Kept \/ Dropped
    BY <1>15, <1>17, <2>6
  <2>7. ASSUME NEW v \in Json!Ids, NEW i \in Json!Nodes,
               \/ Json!EsfJsonArrayRemove(v, i)
               \/ Json!EsfJsonObjectGetAt(v, i) \/ Json!EsfJsonArrayGet(v, i)
        PROVE  Kept \/ Dropped
    BY <1>16, <1>18, <2>7 DEF Json!EsfJsonObjectGetAt, Json!EsfJsonArrayGet
  <2>8. ASSUME NEW v \in Json!Ids, NEW w \in Json!Ids,
               \/ Json!EsfJsonArrayAppend(v, w)
               \/ \E key \in Keys : Json!EsfJsonObjectSet(v, key, w)
               \/ \E i \in Json!Nodes : Json!EsfJsonArrayReplace(v, i, w)
        PROVE  Kept \/ Dropped
    BY <1>12, <1>13, <1>14, <2>8
  <2>9. QED
    BY <1>1, <2>1, <2>2, <2>3, <2>4, <2>5, <2>6, <2>7, <2>8 DEF Json!JsonNext
<1>20. SlotsGoOn
  BY <1>19, SlotsGoOnWhen DEF Kept, AllFree, Dropped, Taken
<1>21. QED
  BY <1>20, SizesKeep

LEMMA SizesHold == Spec => []SizesFit
<1>1. Init => SizesFit
  BY SizesInitOK DEF Init
<1>2. JsonIInv /\ SizesFit /\ [Next]_vars => SizesFit'
  <2>1. SUFFICES ASSUME JsonIInv, SizesFit, [Next]_vars PROVE SizesFit'
    OBVIOUS
  <2>2. CASE Json!JsonNext
    BY <2>1, <2>2, SizesNextKeeps
  <2>3. CASE UNCHANGED jsonVars
    BY <2>1, <2>3 DEF SizesFit, jsonVars, Json!SlotSet
  <2>4. QED
    BY <2>1, <2>2, <2>3 DEF Next, InButton, InClock, InHal, InJson, vars
<1>3. QED
  BY <1>1, <1>2, JsonHolds, PTL DEF Spec

-----------------------------------------------------------------------------
(* The text of a value.                                                    *)
MarksIn(strings) == [i \in DOMAIN strings |-> node[strings[i]].mark]
Parts(marks, i) == {q[2] : q \in {p \in Json!Substituted(marks) : p[1] = i}}
TextsOf(strings) == [i \in DOMAIN strings |-> Json!LengthOf(node[strings[i]].mark)]
ChangesOf(strings) == [i \in DOMAIN strings |-> Json!EsfJsonReplacementStringSizeGet(strings[i])]
WrittenOf(strings) ==
  [i \in DOMAIN strings |->
     IF Parts(MarksIn(strings), i) = {} THEN Json!LengthOf(MarksIn(strings)[i])
     ELSE Json!PutIn(CHOOSE s \in Parts(MarksIn(strings), i) : TRUE, MarksIn(strings)[i])]

LEMMA LengthsAre ==
  ASSUME NEW n
  PROVE  /\ Json!TextLength(n) = Json!Total(TextsOf(Json!Strings[n]))
         /\ Json!EsfJsonConvertedStringSizeGet(n) = Json!Total(ChangesOf(Json!Strings[n]))
         /\ Json!EsfJsonSerializeConversionString(n) = WrittenOf(Json!Strings[n])
<1>1. Json!TextLength(n) = Json!Total(TextsOf(Json!Strings[n]))
  BY DEF Json!TextLength, TextsOf
<1>2. Json!EsfJsonConvertedStringSizeGet(n) = Json!Total(ChangesOf(Json!Strings[n]))
  BY DEF Json!EsfJsonConvertedStringSizeGet, ChangesOf
<1>3. PICK m : m = MarksIn(Json!Strings[n])
  OBVIOUS
<1>4. m = [i \in DOMAIN Json!Strings[n] |-> node[Json!Strings[n][i]].mark]
  BY <1>3 DEF MarksIn
<1>5. DOMAIN m = DOMAIN Json!Strings[n]
  BY <1>4
<1>6. Json!EsfJsonSerializeConversionString(n)
        = [i \in DOMAIN m |-> IF Parts(m, i) = {} THEN Json!LengthOf(m[i])
                              ELSE Json!PutIn(CHOOSE s \in Parts(m, i) : TRUE, m[i])]
  BY <1>4 DEF Json!EsfJsonSerializeConversionString, Parts
<1>7. QED
  BY <1>1, <1>2, <1>3, <1>5, <1>6 DEF WrittenOf

\* The string that is its own marker has its slot, and no other has one.
LEMMA StringSlotIs ==
  ASSUME JsonIInv, NEW x \in Json!Nodes, Json!Managed(x), Json!HasSlot(Json!IdOf(x))
  PROVE  node[x].mark = Json!IdOf(x) /\ node[x].mark # 0
<1>1. TableFits(There(node), RootsOf(node), table)
  BY DEF JsonIInv, TablesFit
<1>2. PICK j \in DOMAIN table : table[j].node = x /\ Json!IdOf(x) = table[j].id
  BY DEF Json!Managed, Json!IdOf
<1>3. x # 0
  BY DEF Json!Nodes
<1>4. table[j] # Json!NoEntry
  BY <1>2, <1>3, NoEntryIs
<1>5. There(node) \in SUBSET Json!Nodes
  BY DEF There
<1>6. table[j].id # 0
  BY <1>1, <1>4, <1>5, EntryInUse
<1>7. PICK v : v = Json!IdOf(x)
  OBVIOUS
<1>8. v # 0 /\ table[j].id = v
  BY <1>2, <1>6, <1>7
<1>9. PICK s \in Json!SlotSet : slots[s].id = v
  BY <1>7 DEF Json!HasSlot
<1>10. Json!Live(v) /\ node[Json!NodeOf(v)].mark = v
  BY <1>8, <1>9, SlotsHaveMarkersIs DEF Json!SlotsHaveMarkers
<1>11. Json!NodeOf(v) = table[v].node /\ table[j].id = j
  BY <1>1, <1>4, <1>10, LiveIs DEF TableFits
<1>12. Json!NodeOf(v) = x
  BY <1>2, <1>8, <1>11
<1>13. QED
  BY <1>7, <1>8, <1>10, <1>12

\* What has to be known of the strings of a value to add it up.
InSlots(strings) ==
  /\ \A i \in DOMAIN strings : Json!Managed(strings[i])
  /\ \A i \in DOMAIN strings : node[strings[i]].mark # 0 =>
        /\ Json!IdOf(strings[i]) = node[strings[i]].mark
        /\ Json!HasSlot(node[strings[i]].mark)
        /\ Json!FirstSlot(node[strings[i]].mark) \in Json!Slotted
        /\ slots[Json!FirstSlot(node[strings[i]].mark)].size
             >= Json!MarkerLength(node[strings[i]].mark)
        /\ \A s \in 1 .. Json!FirstSlot(node[strings[i]].mark) - 1 :
             Json!Finds(s, node[strings[i]].mark) =>
               \E j \in DOMAIN strings :
                  node[strings[j]].mark # 0 /\ Json!FirstSlot(node[strings[j]].mark) = s
  /\ \A i, j \in DOMAIN strings :
        node[strings[i]].mark # 0 /\ node[strings[j]].mark # 0 /\ i < j =>
          Json!FirstSlot(node[strings[i]].mark) < Json!FirstSlot(node[strings[j]].mark)

\* A marker has a length.
LEMMA MarkerLengthIsNat ==
  ASSUME NEW v \in Nat
  PROVE  Json!MarkerLength(v) \in Nat
<1>1. Json!Shortened(v) \subseteq 1 .. v /\ IsFiniteSet(1 .. v)
  BY FS_Interval DEF Json!Shortened
<1>2. Cardinality(Json!Shortened(v)) \in Nat
  BY <1>1, FS_Subset, FS_CardinalityType
<1>3. QED
  BY <1>2, SizesAssumption, JsonCardinality DEF Json!MarkerLength

LEMMA LengthsAdd ==
  ASSUME JsonIInv, SizesFit, NEW strings \in Seq(Json!Nodes), InSlots(strings)
  PROVE  Json!Total(WrittenOf(strings)) = Json!Total(TextsOf(strings)) + Json!Total(ChangesOf(strings))
<1>. DEFINE D == DOMAIN strings
            marks == MarksIn(strings)
            so == [i \in D |-> Json!FirstSlot(marks[i])]
<1>1. D = 1 .. Len(strings) /\ Len(strings) \in Nat /\ IsFiniteSet(D)
  BY FS_Interval
<1>2. \A i \in D : strings[i] \in Json!Nodes
  OBVIOUS
<1>3. \A x \in Json!Nodes : node[x].mark \in Nat
  BY DEF JsonIInv, NodesFit, NodeFits, NodeRec
<1>4. /\ marks \in Seq(Nat) /\ DOMAIN marks = D
      /\ \A i \in D : marks[i] = node[strings[i]].mark
  <2>1. \A i \in D : node[strings[i]].mark \in Nat
    BY <1>2, <1>3
  <2>2. marks = [i \in 1 .. Len(strings) |-> node[strings[i]].mark]
    BY <1>1 DEF MarksIn
  <2>3. marks \in [1 .. Len(strings) -> Nat]
    BY <1>1, <2>1, <2>2
  <2>4. QED
    BY <1>1, <2>2, <2>3
<1>5. \A i \in D : so[i] = Json!FirstSlot(marks[i])
  OBVIOUS
<1>. HIDE DEF D, marks, so
<1>6. ASSUME NEW i \in D, marks[i] # 0
      PROVE  /\ so[i] \in Json!Slotted /\ so[i] \in Json!SlotSet /\ slots[so[i]].id = marks[i]
             /\ slots[so[i]].size \in Nat
             /\ slots[so[i]].size >= Json!MarkerLength(marks[i])
             /\ Json!IdOf(strings[i]) = marks[i] /\ Json!HasSlot(marks[i])
             /\ \A s \in 1 .. so[i] - 1 : Json!Finds(s, marks[i]) =>
                  \E j \in D : marks[j] # 0 /\ so[j] = s
             /\ \A s \in Json!SlotSet : slots[s].id = marks[i] => s = so[i]
  <2>1. PICK m : m = marks[i]
    OBVIOUS
  <2>2. m = node[strings[i]].mark /\ m # 0 /\ so[i] = Json!FirstSlot(m)
    BY <1>4, <1>5, <1>6, <2>1
  <2>3. /\ Json!IdOf(strings[i]) = m /\ Json!HasSlot(m)
        /\ so[i] \in Json!Slotted /\ slots[so[i]].size >= Json!MarkerLength(m)
    BY <2>2 DEF InSlots, D
  <2>4. so[i] \in Json!SlotSet /\ slots[so[i]].id = m
    BY <2>2, <2>3, FirstSlotIs
  <2>5. slots[so[i]].size \in Nat
    BY <2>4 DEF SizesFit
  <2>6. \A s \in Json!SlotSet : slots[s].id = m => s = so[i]
    <3>1. PICK r \in Json!SlotSet : r = so[i]
      BY <2>4
    <3>2. \A s \in Json!SlotSet : slots[s].id # 0 =>
             \A q \in Json!SlotSet : slots[q].id = slots[s].id => q = s
      BY SlotsHaveMarkersIs DEF Json!SlotsHaveMarkers
    <3>3. QED
      BY <2>2, <2>4, <3>1, <3>2
  <2>7. ASSUME NEW s \in 1 .. so[i] - 1, Json!Finds(s, m)
        PROVE  \E j \in D : marks[j] # 0 /\ so[j] = s
    <3>1. \E j \in D : node[strings[j]].mark # 0 /\ Json!FirstSlot(node[strings[j]].mark) = s
      BY <2>2, <2>7 DEF InSlots, D
    <3>2. QED
      BY <1>4, <1>5, <3>1
  <2>8. QED
    BY <2>1, <2>3, <2>4, <2>5, <2>6, <2>7
<1>7. InOrder(marks, so)
  <2>1. ASSUME NEW i \in D, NEW j \in D, marks[i] # 0, marks[j] # 0, i < j PROVE so[i] < so[j]
    <3>1. /\ node[strings[i]].mark # 0 /\ node[strings[j]].mark # 0
          /\ so[i] = Json!FirstSlot(node[strings[i]].mark)
          /\ so[j] = Json!FirstSlot(node[strings[j]].mark)
      BY <1>4, <1>5, <2>1
    <3>2. QED
      BY <2>1, <3>1 DEF InSlots, D
  <2>2. QED
    BY <1>4, <1>6, <2>1 DEF InOrder
<1>8. \A i \in D : Parts(marks, i) = IF marks[i] = 0 THEN {} ELSE {so[i]}
  BY <1>4, <1>7, SubstitutedHas DEF Parts
<1>9. TextSize \in Int /\ \A i \in D : Json!MarkerLength(marks[i]) \in Int
  <2>1. \A i \in D : marks[i] \in Nat
    BY <1>4
  <2>2. QED
    BY <2>1, SizesAssumption, MarkerLengthIsNat
<1>10. PICK f, g, h : f = TextsOf(strings) /\ g = ChangesOf(strings) /\ h = WrittenOf(strings)
  OBVIOUS
<1>11. /\ f = [i \in D |-> Json!LengthOf(marks[i])]
       /\ g = [i \in D |-> Json!EsfJsonReplacementStringSizeGet(strings[i])]
       /\ h = [i \in D |-> IF Parts(marks, i) = {} THEN Json!LengthOf(marks[i])
                           ELSE Json!PutIn(CHOOSE s \in Parts(marks, i) : TRUE, marks[i])]
  <2>1. f = [i \in D |-> Json!LengthOf(node[strings[i]].mark)]
    BY <1>10 DEF TextsOf, D
  <2>2. f = [i \in D |-> Json!LengthOf(marks[i])]
    BY <1>4, <2>1
  <2>3. g = [i \in D |-> Json!EsfJsonReplacementStringSizeGet(strings[i])]
    BY <1>10 DEF ChangesOf, D
  <2>4. h = [i \in D |-> IF Parts(marks, i) = {} THEN Json!LengthOf(marks[i])
                           ELSE Json!PutIn(CHOOSE s \in Parts(marks, i) : TRUE, marks[i])]
    BY <1>10 DEF WrittenOf, D, marks
  <2>5. QED
    BY <2>2, <2>3, <2>4
<1>12. ASSUME NEW i \in D
       PROVE  f[i] \in Int /\ g[i] \in Int /\ h[i] \in Int /\ h[i] = f[i] + g[i]
  <2>1. CASE marks[i] # 0
    <3>1. f[i] = Json!MarkerLength(marks[i])
      BY <1>11, <2>1 DEF Json!LengthOf
    <3>2. h[i] = slots[so[i]].size + Json!MarkerLength(marks[i]) - Json!MarkerLength(marks[i])
      <4>1. Parts(marks, i) = {so[i]}
        BY <1>8, <2>1
      <4>2. (CHOOSE s \in {so[i]} : TRUE) = so[i]
        OBVIOUS
      <4>3. h[i] = Json!PutIn(so[i], marks[i])
        BY <1>11, <4>1, <4>2
      <4>4. slots[so[i]].id = marks[i]
        BY <1>6, <2>1
      <4>5. QED
        BY <2>1, <4>3, <4>4 DEF Json!PutIn, Json!LengthOf
    <3>3. PICK z \in Nat : z = slots[so[i]].size
      BY <1>6, <2>1
    <3>4. z >= Json!MarkerLength(marks[i])
      BY <1>6, <2>1, <3>3
    <3>5. g[i] = Json!Distance(z, Json!MarkerLength(marks[i]))
      <4>1. g[i] = Json!EsfJsonReplacementStringSizeGet(strings[i])
        BY <1>11
      <4>2. Json!IdOf(strings[i]) = marks[i] /\ Json!HasSlot(marks[i]) /\ so[i] = Json!FirstSlot(marks[i])
        BY <1>5, <1>6, <2>1
      <4>3. QED
        BY <3>3, <4>1, <4>2 DEF Json!EsfJsonReplacementStringSizeGet
    <3>6. g[i] = z - Json!MarkerLength(marks[i])
      BY <3>4, <3>5 DEF Json!Distance
    <3>7. QED
      BY <1>9, <3>1, <3>2, <3>3, <3>6
  <2>2. CASE marks[i] = 0
    <3>1. f[i] = TextSize
      BY <1>11, <2>2 DEF Json!LengthOf
    <3>2. h[i] = TextSize
      BY <1>8, <1>11, <2>2 DEF Json!LengthOf
    <3>3. g[i] = 0
      <4>1. Json!Managed(strings[i]) /\ strings[i] \in Json!Nodes /\ node[strings[i]].mark = 0
        BY <1>2, <1>4, <2>2 DEF InSlots, D
      <4>2. ~Json!HasSlot(Json!IdOf(strings[i]))
        BY <4>1, StringSlotIs
      <4>3. QED
        BY <1>11, <4>2 DEF Json!EsfJsonReplacementStringSizeGet
    <3>4. QED
      BY <1>9, <3>1, <3>2, <3>3
  <2>3. QED
    BY <2>1, <2>2
<1>13. f \in [D -> Int] /\ g \in [D -> Int] /\ h \in [D -> Int]
  <2>1. /\ f = [i \in D |-> f[i]] /\ g = [i \in D |-> g[i]] /\ h = [i \in D |-> h[i]]
    BY <1>11
  <2>2. QED
    BY <1>12, <2>1
<1>14. AddUp(D, f, g, h)
  BY <1>1, <1>12, <1>13 DEF AddUp
<1>15. QED
  BY <1>10, <1>14, TotalsAdd

\* Without a slot there is nothing to add.
LEMMA NothingToAdd ==
  ASSUME JsonIInv, NEW strings \in Seq(Json!Nodes),
         \A i \in DOMAIN strings : ~Json!HasSlot(Json!IdOf(strings[i]))
  PROVE  Json!Total(TextsOf(strings)) = Json!Total(TextsOf(strings)) + Json!Total(ChangesOf(strings))
<1>. DEFINE D == DOMAIN strings
<1>1. IsFiniteSet(D)
  BY FS_Interval
<1>2. PICK f, g : f = TextsOf(strings) /\ g = ChangesOf(strings)
  OBVIOUS
<1>3. /\ f = [i \in D |-> Json!LengthOf(node[strings[i]].mark)]
      /\ g = [i \in D |-> Json!EsfJsonReplacementStringSizeGet(strings[i])]
  BY <1>2 DEF TextsOf, ChangesOf
<1>4. \A i \in D : g[i] = 0
  BY <1>3 DEF Json!EsfJsonReplacementStringSizeGet
<1>5. \A i \in D : Json!LengthOf(node[strings[i]].mark) \in Int
  <2>1. \A i \in D : node[strings[i]].mark \in Nat
    <3>1. \A i \in D : strings[i] \in Json!Nodes
      OBVIOUS
    <3>2. QED
      BY <3>1 DEF JsonIInv, NodesFit, NodeFits, NodeRec
  <2>2. QED
    BY <2>1, SizesAssumption, MarkerLengthIsNat DEF Json!LengthOf
<1>. HIDE DEF D
<1>6. f \in [D -> Int] /\ g \in [D -> Int] /\ \A i \in D : f[i] = f[i] + g[i]
  <2>1. f \in [D -> Int]
    BY <1>3, <1>5
  <2>2. g = [i \in D |-> g[i]]
    BY <1>3
  <2>3. g \in [D -> Int]
    BY <1>4, <2>2
  <2>4. \A i \in D : f[i] \in Int
    BY <2>1
  <2>5. QED
    BY <1>4, <2>1, <2>3, <2>4
<1>7. AddUp(D, f, g, f)
  BY <1>1, <1>6 DEF AddUp
<1>8. QED
  BY <1>2, <1>7, TotalsAdd

LEMMA SizeIsWritten ==
  ASSUME JsonIInv, SizesFit, NEW v \in Json!Ids, Json!Regular(v)
  PROVE  Json!EsfJsonSerializeSizeGet(v) = Json!Written(v)
<1>1. PICK n : n = Json!NodeOf(v)
  OBVIOUS
<1>2. n \in Json!Nodes /\ NodesFit(node)
  <2>1. Json!Live(v)
    BY DEF Json!Ids
  <2>2. QED
    BY <1>1, <2>1, LiveIs DEF JsonIInv, TablesFit, There
<1>3. PICK strings : strings = Json!Strings[n]
  OBVIOUS
<1>4. strings \in Seq(Json!Nodes)
  BY <1>2, <1>3, StringsAreSeqs
<1>5. PICK answer : answer = Json!EsfJsonCheckStringReplace(n)
  OBVIOUS
<1>6. /\ Json!EsfJsonSerializeSizeGet(v) =
           IF answer = "InternalError" THEN 0
           ELSE Json!Total(TextsOf(strings)) + Json!Total(ChangesOf(strings))
      /\ Json!Written(v) =
           IF answer = "InternalError" THEN 0
           ELSE IF answer = "plain" THEN Json!Total(TextsOf(strings))
           ELSE Json!Total(WrittenOf(strings))
  BY <1>1, <1>3, <1>5, LengthsAre
     DEF Json!EsfJsonSerializeSizeGet, Json!Written, Json!EsfJsonSerializeIncludesHandle
<1>7. Json!StringSet(n) = {strings[i] : i \in DOMAIN strings}
  BY <1>3 DEF Json!StringSet, Json!ToSet
<1>8. CASE \E x \in Json!StringSet(n) : ~Json!Managed(x)
  <2>1. answer = "InternalError"
    BY <1>5, <1>8 DEF Json!EsfJsonCheckStringReplace
  <2>2. QED
    BY <1>6, <2>1
<1>9. CASE \A x \in Json!StringSet(n) : Json!Managed(x)
  <2>1. \A i \in DOMAIN strings : Json!Managed(strings[i])
    BY <1>7, <1>9
  <2>2. CASE \E x \in Json!StringSet(n) : Json!HasSlot(Json!IdOf(x))
    <3>1. answer = "included"
      BY <1>5, <1>9, <2>2 DEF Json!EsfJsonCheckStringReplace
    <3>2. InSlots(strings)
      BY <1>1, <1>3, <2>1 DEF InSlots, Json!Regular
    <3>3. Json!Total(WrittenOf(strings)) = Json!Total(TextsOf(strings)) + Json!Total(ChangesOf(strings))
      BY <1>4, <3>2, LengthsAdd
    <3>4. "included" # "InternalError" /\ "included" # "plain"
      OBVIOUS
    <3>5. QED
      BY <1>6, <3>1, <3>3, <3>4
  <2>3. CASE \A x \in Json!StringSet(n) : ~Json!HasSlot(Json!IdOf(x))
    <3>1. answer = "plain"
      BY <1>5, <1>9, <2>3 DEF Json!EsfJsonCheckStringReplace
    <3>2. \A i \in DOMAIN strings : ~Json!HasSlot(Json!IdOf(strings[i]))
      BY <1>7, <2>3
    <3>3. Json!Total(TextsOf(strings)) = Json!Total(TextsOf(strings)) + Json!Total(ChangesOf(strings))
      BY <1>4, <3>2, NothingToAdd
    <3>4. "plain" # "InternalError"
      OBVIOUS
    <3>5. QED
      BY <1>6, <3>1, <3>3, <3>4
  <2>4. QED
    BY <2>2, <2>3
<1>10. QED
  BY <1>8, <1>9

\* The size that is answered is the size of the text that is written, for a
\* value whose markers come in the order of their slots and are found by no
\* other slot's (strstr, json_internal.c:1485): the walk that measures
\* and the walk that replaces (json_handle.c) agree, however many strings and
\* slots there are and whatever calls made them.
THEOREM SpecSizeIsText == Spec => []SizeIsText
<1>1. JsonIInv /\ SizesFit => SizeIsText
  <2>1. SUFFICES ASSUME JsonIInv, SizesFit PROVE Json!SizeIsText
    BY DEF SizeIsText
  <2>2. SUFFICES ASSUME NEW v \in Json!Ids, Json!Regular(v),
                        NEW length \in Json!EsfJsonSerializeHandle(v) \cup {Json!EsfJsonSerializeFileIO(v)}
                 PROVE  Json!EsfJsonSerializeSizeGet(v) = length
    BY DEF Json!SizeIsText
  <2>3. length = Json!Written(v)
    BY DEF Json!EsfJsonSerializeHandle, Json!EsfJsonSerializeHandleMemMap,
           Json!EsfJsonSerializeHandleFileIO, Json!EsfJsonSerializeFileIO
  <2>4. QED
    BY <2>1, <2>2, <2>3, SizeIsWritten
<1>2. QED
  BY <1>1, JsonHolds, SizesHold, PTL

=============================================================================
