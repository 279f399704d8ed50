-------------------------------- MODULE Hal --------------------------------
(***************************************************************************)
(* The hardware layer: the table of device drivers (hal_driver.c), the IO  *)
(* expander that opens every device once and shares it among its pins      *)
(* (hal_ioexp.c), and the LED pins that use it (pl_led_hw.c).              *)
(*                                                                         *)
(* Each layer holds its mutex for a whole call and calls only downwards,   *)
(* so a call is one action.  The devices themselves are external: any      *)
(* operation of theirs may fail, and one that fails to write or to change  *)
(* a direction may have done so.  A driver handle is the address of a list *)
(* entry, used again after free; 0 is NULL.                                *)
(***************************************************************************)
EXTENDS Naturals, FiniteSets

CONSTANTS
  NDevices,      \* devices 0 .. NDevices - 1 (s_dev_total_num)
  NPins,         \* CONFIG_EXTERNAL_HAL_IOEXP_NUM
  PinDevice,     \* external table: the device of a pin
  Reversed,      \* external table: the pins that are active low
  LedPins,       \* the pins of the LED
  NHandles,      \* bound: addresses of driver handles
  MaxHalFails    \* bound: device operations that fail

VARIABLES
  up,       \* the layers that are initialised: "driver", "ioexp", "led"
  drivers,  \* s_drivers_list
  entries,  \* s_handle_list: address -> device + 1, 0 when free
  stuck,    \* the entries whose device refused to be closed
  devInfo,  \* s_dev_info[].driver_handle
  pin,      \* IoexpData, with what the hardware holds: irq, dir and level
  held,     \* the LED pins whose ioexp_handle is not NULL
  written,  \* the value a pin was last given as the output it still is;
            \* "none" before, and after a write that failed
  halFails

halVars == <<up, drivers, entries, stuck, devInfo, pin, held, written, halFails>>

Devices == 0 .. NDevices - 1
Pins == 1 .. NPins
HalHandles == 1 .. NHandles
Levels == {"low", "high"}

HalInit ==
  /\ up = {}
  /\ drivers = {}
  /\ entries = [h \in HalHandles |-> 0]
  /\ stuck = {}
  /\ devInfo = [d \in Devices |-> 0]
  /\ pin = [p \in Pins |-> [opened |-> FALSE, handler |-> FALSE,
                            irq |-> FALSE, dir |-> "in", level |-> "low"]]
  /\ held = {}
  /\ written = [p \in Pins |-> "none"]
  /\ halFails = 0

Used == {h \in HalHandles : entries[h] # 0}

\* n operations of a device fail.
Failing(n) == halFails + n <= MaxHalFails /\ halFails' = halFails + n

-----------------------------------------------------------------------------
(* The drivers. *)

\* The drivers come before the expander (main.c:521-541).
\* HalDriverAddDriver_ may fail for lack of memory, and nobody looks.
HalDriverInitialize ==
  /\ "driver" \notin up /\ "ioexp" \notin up
  /\ up' = up \cup {"driver"}
  /\ entries' = [h \in HalHandles |-> 0]
  /\ stuck' = {}
  /\ \E lost \in SUBSET Devices :
        drivers' = Devices \ lost /\ Failing(Cardinality(lost))
  /\ UNCHANGED <<devInfo, pin, held, written>>

HalDriverAddDriver(d) ==
  /\ "driver" \in up /\ d \notin drivers
  /\ drivers' = drivers \cup {d}
  /\ UNCHANGED <<up, entries, stuck, devInfo, pin, held, written, halFails>>

\* The entries are freed, the devices are not closed.
HalDriverFinalize ==
  /\ "driver" \in up
  /\ up' = up \ {"driver"}
  /\ drivers' = {}
  /\ entries' = [h \in HalHandles |-> 0]
  /\ stuck' = {}
  /\ UNCHANGED <<devInfo, pin, held, written, halFails>>

\* What HalDriverOpen can open, and the addresses n calls get: free ones, each
\* its own.
CanOpen(d) == "driver" \in up /\ d \in drivers
HalDriverOpen(n) ==
  {at \in [0 .. n - 1 -> HalHandles \ Used] :
     \A c, d \in 0 .. n - 1 : at[c] = at[d] => c = d}

\* HalDriverClose of the entries hs, of which bad are refused by their device.
HalDriverClose(table, hs, bad) ==
  [h \in HalHandles |-> IF h \in hs \ bad THEN 0 ELSE table[h]]

\* A device is reached through an entry of the list only.
HalDriverIoctl(d) ==
  "driver" \in up /\ devInfo[d] \in HalHandles /\ entries[devInfo[d]] # 0

-----------------------------------------------------------------------------
(* The IO expander. *)

\* Mutant: the interrupt is not unregistered.
ClosedWithInterrupt(p) == [p EXCEPT !.opened = FALSE, !.handler = FALSE]

Closed(p) == [p EXCEPT !.opened = FALSE, !.handler = FALSE, !.irq = FALSE]

\* The list is made of closed pins; the hardware keeps direction and level.
IoexpList == [p \in Pins |-> [pin[p] EXCEPT !.opened = FALSE, !.handler = FALSE]]

\* Mutant: the memory is freed and the drivers stay open.
DevInfoForgotten(table, hs) ==
  /\ entries' = table
  /\ devInfo' = [d \in Devices |-> 0]
  /\ UNCHANGED <<stuck, halFails>>

\* The handles given to HalDriverClose: those of the devices that were opened,
\* and for the others whatever the memory of s_dev_info held.
DeleteAllDevInfo(table, hs) ==
  /\ \E bad \in SUBSET {h \in hs : table[h] # 0} :
       /\ Failing(Cardinality(bad))
       /\ entries' = HalDriverClose(table, hs, bad)
       /\ stuck' = {h \in stuck \cup bad : entries'[h] # 0}
  /\ devInfo' = [d \in Devices |-> 0]

\* n devices were opened; then they are all there, or one operation failed.
InitDeviceInfoAndList(n) ==
  \E opened \in HalDriverOpen(n) :
    LET mine == {opened[d] : d \in 0 .. n - 1}
        table == [h \in HalHandles |->
                    IF h \in mine THEN (CHOOSE d \in 0 .. n - 1 : opened[d] = h) + 1
                    ELSE entries[h]]
    IN  /\ \A d \in 0 .. n - 1 : CanOpen(d)
        /\ \/ /\ n = NDevices
              /\ entries' = table /\ devInfo' = opened
              /\ up' = up \cup {"ioexp"}
              /\ UNCHANGED <<stuck, halFails>>
           \/ /\ halFails < MaxHalFails \/ (n < NDevices /\ ~CanOpen(n))
              /\ \E garbage \in SUBSET Used :
                    /\ Cardinality(garbage) <= NDevices - n
                    /\ DeleteAllDevInfo(table, mine \cup garbage)
              /\ UNCHANGED up

HalIoexpInitialize ==
  /\ "ioexp" \notin up
  /\ \E n \in 0 .. NDevices : NDevices <= NHandles - Cardinality(Used)
                              /\ InitDeviceInfoAndList(n)
  /\ pin' = IoexpList
  /\ UNCHANGED <<drivers, held, written>>

\* Open pins are closed in their order, up to one that keeps its interrupt.
HalIoexpFinalize ==
  /\ "ioexp" \in up
  /\ \/ /\ \A p \in Pins : pin[p].handler => HalDriverIoctl(PinDevice[p])
        /\ up' = up \ {"ioexp"}
        /\ pin' = [p \in Pins |-> Closed(pin[p])]
        /\ DeleteAllDevInfo(entries, {devInfo[d] : d \in Devices})
     \/ \E stop \in Pins :
        /\ pin[stop].handler
        /\ \A p \in 1 .. stop - 1 : pin[p].handler => HalDriverIoctl(PinDevice[p])
        /\ IF HalDriverIoctl(PinDevice[stop]) THEN Failing(1) ELSE UNCHANGED halFails
        /\ pin' = [p \in Pins |-> IF p < stop THEN Closed(pin[p]) ELSE pin[p]]
        /\ UNCHANGED <<up, entries, stuck, devInfo>>
  /\ UNCHANGED <<drivers, held, written>>

\* IsValidHandle: a handle leads to a pin of the list.
IsValidHandle(p) == "ioexp" \in up /\ pin[p].opened

\* A call that changes pin p and nothing but it.
OnPin(p, new) ==
  /\ pin' = [pin EXCEPT ![p] = new]
  /\ UNCHANGED <<up, drivers, entries, stuck, devInfo, held>>

HalIoexpOpen(p) ==
  /\ "ioexp" \in up /\ ~pin[p].opened
  /\ OnPin(p, [pin[p] EXCEPT !.opened = TRUE])
  /\ UNCHANGED <<written, halFails>>

\* HalIoexpClose_: a pin that keeps its interrupt stays open.
HalIoexpClose_(p) ==
  /\ IsValidHandle(p)
  /\ pin[p].handler => HalDriverIoctl(PinDevice[p])

HalIoexpClose(p) ==
  /\ HalIoexpClose_(p)
  /\ OnPin(p, Closed(pin[p]))
  /\ UNCHANGED <<written, halFails>>

\* Neither the direction nor the level of a pin with a handler is changed.
Changes(p) ==
  IsValidHandle(p) /\ ~pin[p].handler /\ HalDriverIoctl(PinDevice[p])

\* A change of direction that fails leaves the pin in either.
HalIoexpSetConfigure(p, dir) ==
  /\ Changes(p)
  /\ \E d \in {"in", "out"} :
       /\ (d = dir /\ UNCHANGED halFails) \/ Failing(1)
       /\ OnPin(p, [pin[p] EXCEPT !.dir = d])
       /\ written' = [written EXCEPT ![p] = IF d = "in" THEN "none" ELSE @]

HalIoexpGetConfigure(p) == pin[p].dir

\* Mutant: the polarity of the pin is forgotten.
PlainLevel(p, value) == value

\* The level of the hardware for a value.
Level(p, value) ==
  IF p \in Reversed THEN CHOOSE l \in Levels : l # value ELSE value

\* All the pins are looked at before the driver is handed the first value.  It
\* gives those of reached their level; what becomes of the others, and of all
\* when it fails, is its affair.
Gives(values, reached) ==
  /\ \A p \in DOMAIN values : Changes(p) /\ HalIoexpGetConfigure(p) = "out"
  /\ \E done \in {reached, {}}, level \in [DOMAIN values -> Levels] :
       /\ IF done = reached THEN UNCHANGED halFails ELSE Failing(1)
       /\ \A p \in done : level[p] = Level(p, values[p])
       /\ pin' = [p \in Pins |-> IF p \in DOMAIN values
                                 THEN [pin[p] EXCEPT !.level = level[p]] ELSE pin[p]]
       /\ written' = [p \in Pins |-> IF p \in done THEN values[p]
                                     ELSE IF p \in DOMAIN values THEN "none"
                                     ELSE written[p]]
  /\ UNCHANGED <<up, drivers, entries, stuck, devInfo, held>>

HalIoexpWrite(p, value) == Gives([q \in {p} |-> value], {p})

\* The driver of the first handle is handed the whole array, whatever device
\* the other pins are on.
HalIoexpWriteMulti(values) ==
  LET first == CHOOSE p \in DOMAIN values : \A q \in DOMAIN values : p <= q
  IN  Gives(values, {p \in DOMAIN values : PinDevice[p] = PinDevice[first]})

\* What a read may answer: of an output what the pin was given, of an input
\* whatever there is outside.
HalIoexpRead(p) ==
  {v \in Levels : pin[p].dir = "out" =>
     v = IF p \in Reversed THEN CHOOSE l \in Levels : l # pin[p].level
         ELSE pin[p].level}

HalIoexpRegisterIrqHandler(p) ==
  /\ Changes(p)
  /\ OnPin(p, [pin[p] EXCEPT !.irq = TRUE, !.handler = TRUE])
  /\ UNCHANGED <<written, halFails>>

HalIoexpUnregisterIrqHandler(p) ==
  /\ IsValidHandle(p) /\ pin[p].handler /\ HalDriverIoctl(PinDevice[p])
  /\ OnPin(p, [pin[p] EXCEPT !.irq = FALSE, !.handler = FALSE])
  /\ UNCHANGED <<written, halFails>>

-----------------------------------------------------------------------------
(* The pins of the LED. *)

\* The pins are opened and made outputs in their order; the first that cannot
\* be, n, ends the call, and what was opened before stays open.
PlLedHwInitialize ==
  /\ "led" \notin up
  /\ \E ready \in SUBSET LedPins, last \in SUBSET LedPins : \E outs \in SUBSET last :
       LET CanBe(p) == "ioexp" \in up /\ ~pin[p].opened
       IN  /\ Cardinality(last) <= 1 /\ last \cap ready = {}
           /\ \A p \in LedPins, q \in ready \cup last : p < q => p \in ready
           /\ \A p \in last, q \in ready : q < p
           /\ \A p \in ready \cup last : CanBe(p)
           /\ \A p \in ready \cup outs : HalDriverIoctl(PinDevice[p])
           /\ \/ /\ ready = LedPins
                 /\ up' = up \cup {"led"}
                 /\ UNCHANGED halFails
              \/ /\ ready # LedPins
                 /\ \/ last = {} /\ \E p \in LedPins \ ready :
                         (\A q \in LedPins \ ready : p <= q) /\ ~CanBe(p)
                       /\ UNCHANGED halFails
                    \/ \E p \in last :
                         IF HalDriverIoctl(PinDevice[p]) THEN Failing(1)
                         ELSE UNCHANGED halFails
                 /\ UNCHANGED up
           /\ held' = ready \cup last
           /\ pin' = [p \in Pins |->
                        IF p \in ready \cup outs
                        THEN [pin[p] EXCEPT !.opened = TRUE, !.dir = "out"]
                        ELSE IF p \in last THEN [pin[p] EXCEPT !.opened = TRUE]
                        ELSE pin[p]]
  /\ UNCHANGED <<drivers, entries, stuck, devInfo, written>>

\* A colour is a level for each pin; nobody asks whether the LED is initialised.
PlLedHwOn(color) ==
  /\ held = LedPins
  /\ HalIoexpWriteMulti(color)

PlLedHwOff == PlLedHwOn([p \in LedPins |-> "low"])

PlLedHwFinalize ==
  /\ "led" \in up
  /\ up' = up \ {"led"}
  /\ pin' = [p \in Pins |->
               IF p \in held /\ HalIoexpClose_(p) THEN Closed(pin[p]) ELSE pin[p]]
  /\ held' = {}
  /\ UNCHANGED <<drivers, entries, stuck, devInfo, written, halFails>>

-----------------------------------------------------------------------------
\* The other users of the expander have the pins the LED has not.
HalNext ==
  \/ HalDriverInitialize \/ HalDriverFinalize
  \/ \E d \in Devices : HalDriverAddDriver(d)
  \/ HalIoexpInitialize \/ HalIoexpFinalize
  \/ \E p \in Pins \ LedPins :
       \/ HalIoexpOpen(p) \/ HalIoexpClose(p)
       \/ HalIoexpRegisterIrqHandler(p) \/ HalIoexpUnregisterIrqHandler(p)
       \/ \E dir \in {"in", "out"} : HalIoexpSetConfigure(p, dir)
       \/ \E value \in Levels : HalIoexpWrite(p, value)
  \/ PlLedHwInitialize \/ PlLedHwFinalize \/ PlLedHwOff
  \/ \E color \in [LedPins -> Levels] : PlLedHwOn(color)

HalSpec == HalInit /\ [][HalNext]_halVars

-----------------------------------------------------------------------------
\* While both layers are up each device is reached through an entry of its own;
\* without the expander no entry is left but one its device refused to close,
\* however far a failed initialisation came.
EntriesAreTheDevices ==
  /\ {"driver", "ioexp"} \subseteq up =>
       \A d \in Devices : /\ devInfo[d] \in HalHandles
                          /\ entries[devInfo[d]] = d + 1
  /\ "ioexp" \notin up => Used \subseteq stuck

\* A pin that is closed raises no interrupt: what Unregister could not take
\* back keeps its pin open, through Close and Finalize alike.
ClosedPinsAreQuiet ==
  \A p \in Pins : pin[p].irq => pin[p].opened /\ pin[p].handler /\ "ioexp" \in up

\* A read of an output answers the value the pin was last given, and no other,
\* whatever its polarity and whichever of the two writes gave it.  Of an input,
\* after a write that failed, and of a pin that is not on the device of the
\* first of its array it promises nothing.
ReadsBackWhatWasWritten ==
  \A p \in Pins : written[p] # "none" => HalIoexpRead(p) = {written[p]}

\* The tables of the two layers agree with the pins, whatever failed half-way
\* (hal_driver.c, hal_ioexp.c).
TablesAgree == EntriesAreTheDevices /\ ClosedPinsAreQuiet

=============================================================================
