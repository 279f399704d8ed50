------------------------------ MODULE MCInputs ------------------------------
(***************************************************************************)
(* The button and clock managers, the hardware layer and the JSON codec    *)
(* share no variable, so their interleavings say nothing new: each         *)
(* behaviour is one of the part in focus, and the run explores the sum of  *)
(* their state spaces.                                                     *)
(***************************************************************************)
EXTENDS Integers, Sequences, FiniteSets

CONSTANTS
  Handles, ButtonQueue, MaxSeconds, MaxEdges, MaxFaults, Clients,
  ParamValues, MaxClockFails, NDevices, NPins, LedPins, Reversed, NHandles,
  MaxHalFails, MaxNodes, MaxValues, MaxSlots, Keys, MemSizes, Base,
  PrefixSize, TextSize

\* Nobody is no client.
ASSUME ClientsAssumption == "no one" \notin Clients

\* How much there is room for.
ASSUME JsonAssumption == MaxNodes \in Nat /\ MaxValues \in Nat /\ MaxSlots \in Nat

\* Lengths of text and data are counted in characters and bytes.
ASSUME SizesAssumption == PrefixSize \in Nat /\ TextSize \in Nat /\ MemSizes \subseteq Nat

\* A number has no more digits than its base gives it.
ASSUME BaseAssumption == Base \in Nat /\ Base > 1

VARIABLES
  focus,
  bopen, bcall, handles, bqueue, bstate, btimer, bfired, bthread, pin,
  edges, pl, plcallback, plthread, astray, edgeCount, faults,
  cstate, cstep, insync, barrier, rw, client, volatile, psm, registered,
  ntpCb, monitor, finReq, posted, notifier, notes, ntp, missed, overrun,
  joinedNone, clockFails,
  up, drivers, entries, stuck, devInfo, pins, held, written, halFails,
  open, node, table, slots

\* The last pin is on the second device.
PinDevice == [p \in 1 .. NPins |-> IF p = NPins THEN 1 ELSE 0]

Button == INSTANCE ButtonManager
Clock == INSTANCE ClockManager
Hal == INSTANCE Hal WITH pin <- pins
Json == INSTANCE Json

buttonVars ==
  <<bopen, bcall, handles, bqueue, bstate, btimer, bfired, bthread, pin,
    edges, pl, plcallback, plthread, astray, edgeCount, faults>>
clockVars ==
  <<cstate, cstep, insync, barrier, rw, client, volatile, psm, registered,
    ntpCb, monitor, finReq, posted, notifier, notes, ntp, missed, overrun,
    joinedNone, clockFails>>
halVars ==
  <<up, drivers, entries, stuck, devInfo, pins, held, written, halFails>>
jsonVars ==
  <<open, node, table, slots>>
vars == <<focus, buttonVars, clockVars, halVars, jsonVars>>

Init ==
  /\ focus \in {"button", "clock", "hal", "json"}
  /\ Button!Init
  /\ Clock!Init
  /\ Hal!HalInit
  /\ Json!JsonInit
  \* a choice of Init that only the part in focus has to make
  /\ focus # "button" => pin = "Released"
  /\ focus # "clock" => psm = Clock!Default

Only(part) == focus = part /\ UNCHANGED focus
InButton == Only("button") /\ UNCHANGED <<clockVars, halVars, jsonVars>>
InClock == Only("clock") /\ UNCHANGED <<buttonVars, halVars, jsonVars>>
InHal == Only("hal") /\ UNCHANGED <<buttonVars, clockVars, jsonVars>>
InJson == Only("json") /\ UNCHANGED <<buttonVars, clockVars, halVars>>

Next ==
  \/ InButton /\ Button!Next
  \/ InClock /\ Clock!Next
  \/ InHal /\ Hal!HalNext
  \/ InJson /\ Json!JsonNext

Spec ==
  /\ Init /\ [][Next]_vars
  /\ WF_clockVars(focus = "clock" /\ Clock!MonitorThread /\ ~joinedNone)
  /\ WF_clockVars(focus = "clock" /\ Clock!NotifierThread /\ ~joinedNone)
  /\ WF_clockVars(focus = "clock" /\ Clock!Synchronized /\ ~joinedNone)
  /\ \A c \in Clients : WF_clockVars(focus = "clock" /\ Clock!ClientGoesOn(c) /\ ~joinedNone)

(* Driver, timer, queue and handles agree (button_manager.c). *)
ButtonPartsAgree == Button!ButtonPartsAgree

(* No writer between Start and the synchronized time (clock_manager.c). *)
ParamsStandStill == Clock!ParamsStandStill

(* The writers come back (clock_manager_monitor.c). *)
WritersComeBack == Clock!WritersComeBack

(* The tables of both layers agree with the pins (hal_ioexp.c). *)
TablesAgree == Hal!TablesAgree

(* A pin reads what it was given (hal_ioexp.c). *)
ReadsBackWhatWasWritten == Hal!ReadsBackWhatWasWritten

(* Container, slots and trees agree (json_internal.c). *)
ContainerIsSound == focus = "json" => Json!ContainerIsSound

(* The size that is answered is the size of the text (json_handle.c). *)
SizeIsText == focus = "json" => Json!SizeIsText

=============================================================================
