------------------------- MODULE SupervisionProofs --------------------------
(***************************************************************************)
(* Proofs about the power, LED, main and system managers, for the one run  *)
(* that model-checks them all.  The parts share no variable, so each has   *)
(* an inductive invariant of its own: a step of the part keeps it, and a   *)
(* step of another part leaves its variables alone.                        *)
(***************************************************************************)
EXTENDS MCSupervision, FiniteSetTheorems, TLAPS

-----------------------------------------------------------------------------
(* The power manager, its watchdogs and the software watchdog. *)

(* Nothing of the watchdogs, and nothing at all, is left. *)
WdtIsDown ==
  /\ wdt = "Ready" /\ ~lib /\ ~wopen /\ low = "none" /\ high = "none"
  /\ \A d \in Dogs : dog[d] = "Close"
StorageIsBack == storage => "storage" \in refused
TimerIsBack == timer => "timer" \in refused
IsDown == StorageIsBack /\ TimerIsBack /\ swthread = "none" /\ WdtIsDown

(* What each place of a call on its way up or down finds, as long as no    *)
(* initialisation failed halfway.                                          *)
PlacesAreKnown ==
  /\ aim \in {"Stop", "WaitWDTIgnition"}
  /\ call = "idle" /\ status = "Stop" => IsDown
  /\ call = "wdtInit" => IsDown /\ status = "Stop"
  /\ call \in {"wdtRegister", "wdtStart", "plInit", "wdtStop", "wdtUnregister", "wdtFinal", "wdtJoin"}
       => StorageIsBack /\ TimerIsBack /\ swthread = "none"
  /\ call \in {"storage", "plFinal"} => StorageIsBack /\ TimerIsBack
  /\ call \in {"meter", "storageClose"} => TimerIsBack
  /\ call = "wdtJoin" => wdt = "Ready" /\ ~lib /\ \A d \in Dogs : dog[d] = "Close"
  /\ \/ call \in {"wdtRegister", "wdtStart", "plInit", "storage", "meter", "meterStop", "storageClose",
                  "plFinal", "wdtStop", "wdtUnregister", "wdtFinal"}
     \/ call = "idle" /\ status \in Power!Running
     => wdt # "Ready" /\ lib

(* An id that is enabled and whose time is too old, or was when the thread *)
(* looked, was silent; the one that is being enabled is fresh.             *)
LateAreSilent ==
  /\ enabled \cap (late \cup seen) \subseteq silent
  /\ enabling \cap (late \cup seen) = {}

PowerIInv == (~halfway => PlacesAreKnown) /\ LateAreSilent

\* The invariant of the power manager holds at first.
LEMMA PowerInitOK == Power!Init => PowerIInv
  BY DEF Power!Init, Power!PwrInit, Power!WdtInit, Power!AllDogs, PowerIInv, PlacesAreKnown,
     LateAreSilent, IsDown, StorageIsBack, TimerIsBack, WdtIsDown, Power!Running

\* The software watchdog aborts for a silent id only.
AbortsForSilent == aborted' /\ ~aborted => enabled \cap silent # {}

(* Every step of the power manager keeps its invariant, and aborts only when
   it should. *)
LEMMA PowerStep == PowerIInv /\ Power!Next => PowerIInv' /\ AbortsForSilent
<1> SUFFICES ASSUME PowerIInv, Power!Next PROVE PowerIInv' /\ AbortsForSilent
  OBVIOUS
<1> USE DEF PowerIInv, PlacesAreKnown, LateAreSilent, IsDown, StorageIsBack, TimerIsBack, WdtIsDown, AbortsForSilent,
   Power!callVars, Power!handleVars, Power!meterVars, Power!swVars, Power!wdtVars, Power!pwrVars, Power!Step, Power!Free, Power!Running
<1>1. CASE Power!Start
  BY <1>1 DEF Power!Start
<1>2. CASE Power!Stop
  BY <1>2 DEF Power!Stop
<1>3. CASE Power!StopForReboot
  BY <1>3 DEF Power!StopForReboot, Power!Terminate
<1>4. CASE Power!Prepare
  BY <1>4 DEF Power!Prepare
<1>5. CASE Power!KeepAlive \/ Power!EsfPwrMgrWdtTerminate
  BY <1>5 DEF Power!KeepAlive, Power!WdtKeepAlive, Power!EsfPwrMgrWdtTerminate, Power!Terminate
<1>6. CASE Power!ExecuteReboot
  BY <1>6 DEF Power!ExecuteReboot, Power!AllDogs
<1>7. CASE Power!InitWdt
  BY <1>7 DEF Power!InitWdt, Power!InitializeOk, Power!InitializeFails, Power!RegisterIrqHandler,
     Power!StartOk, Power!StartFails, Power!LibRegisterIrqHandler, Power!LibInitialize
<1>8. CASE Power!PlPowerMgrInitialize
  BY <1>8 DEF Power!PlPowerMgrInitialize
<1>9. CASE Power!InitStorage
  BY <1>9 DEF Power!InitStorage, Power!Taken
<1>10. CASE Power!InitHoursMeter
  BY <1>10 DEF Power!InitHoursMeter, Power!DeleteTimer, Power!Refused
<1>11. CASE Power!DeinitHoursMeter
  BY <1>11 DEF Power!DeinitHoursMeter, Power!DeleteTimer, Power!Refused
<1>12. CASE Power!DeinitStorage
  BY <1>12 DEF Power!DeinitStorage, Power!Taken, Power!Refused
<1>13. CASE Power!PlPowerMgrFinalize
  BY <1>13 DEF Power!PlPowerMgrFinalize, Power!Taken, Power!Refused
<1>14. CASE Power!DeinitWdt
  <2>1. CASE Power!Step("wdtStop", "wdtUnregister") /\ Power!StopWdt
    <3>1. /\ call = "wdtStop" /\ call' = "wdtUnregister" /\ wdt' \in {wdt, "Stop"}
          /\ UNCHANGED <<status, aim, storage, timer, refused, swthread, lib, wopen, low, high>>
          /\ UNCHANGED <<enabled, late, seen, silent, enabling, aborted>>
      BY <1>14, <2>1 DEF Power!DeinitWdt, Power!StopWdt, Power!wdtVars
    <3>2. ~halfway' => ~halfway
      BY <1>14, <2>1, <3>1 DEF Power!DeinitWdt
    <3>3. ~halfway' => PlacesAreKnown'
      BY <3>1, <3>2
    <3> QED BY <3>1, <3>3
  <2>2. CASE Power!Step("wdtUnregister", "wdtFinal") /\ Power!UnregisterIrqHandler
    BY <1>14, <2>2 DEF Power!DeinitWdt, Power!UnregisterIrqHandler
  <2>3. CASE Power!Step("wdtFinal", "wdtJoin") /\ Power!FinalizeBegins
    <3>1. /\ call = "wdtFinal" /\ call' = "wdtJoin" /\ wdt' = "Ready" /\ lib' = FALSE
          /\ UNCHANGED <<status, aim, storage, timer, refused, swthread, enabled, late, seen, silent, enabling, aborted>>
      BY <1>14, <2>3 DEF Power!DeinitWdt, Power!FinalizeBegins, Power!LibFinalize
    <3>2. ~halfway' => ~halfway /\ (lib => \A d \in Dogs : dog'[d] = "Close")
      BY <1>14, <2>3, <3>1 DEF Power!DeinitWdt
    <3>3. ~halfway => lib
      BY <3>1
    <3>4. ~halfway' => PlacesAreKnown'
      BY <3>1, <3>2, <3>3
    <3> QED BY <3>1, <3>4
  <2>4. CASE Power!Step("wdtJoin", "idle") /\ Power!FinalizeEnds
    BY <1>14, <2>4 DEF Power!DeinitWdt, Power!FinalizeEnds
  <2> QED BY <1>14, <2>1, <2>2, <2>3, <2>4 DEF Power!DeinitWdt
<1>15. CASE Power!CountHour \/ Power!SaveHour \/ Power!ExecMigration
  BY <1>15 DEF Power!CountHour, Power!SaveHour, Power!ExecMigration
<1>16. CASE Power!Enabling
  BY <1>16 DEF Power!Enabling, Power!EnableFlag
<1>17. CASE Power!SwCalls
  BY <1>17 DEF Power!SwCalls, Power!EnableTime, Power!DisableSwWdt, Power!SwWdtKeepalive
<1>18. CASE Power!Timeout
  BY <1>18 DEF Power!Timeout
<1>19. CASE Power!SwThread
  <2>1. CASE Power!SwWdtClock
    BY <1>19, <2>1 DEF Power!SwWdtClock
  <2>2. CASE Power!SwWdtLook
    <3>1. aborted' => enabled \cap seen # {}
      BY <2>2 DEF Power!SwWdtLook
    <3>2. seen' = {} /\ UNCHANGED <<status, call, aim, storage, timer, refused, halfway, enabled, late, silent, enabling>>
          /\ UNCHANGED <<wdt, lib, wopen, low, high, dog>> /\ swthread = "look" /\ swthread' = "loop"
      BY <2>2 DEF Power!SwWdtLook
    <3> QED BY <3>1, <3>2
  <2> QED BY <1>19, <2>1, <2>2 DEF Power!SwThread
<1>20. CASE Power!Threads
  BY <1>20 DEF Power!Threads, Power!LowThread, Power!HighThread, Power!LowLoop, Power!LowSend,
     Power!HighLoop, Power!HighReceive
<1> QED
  BY <1>1, <1>2, <1>3, <1>4, <1>5, <1>6, <1>7, <1>8, <1>9, <1>10, <1>11, <1>12, <1>13, <1>14,
     <1>15, <1>16, <1>17, <1>18, <1>19, <1>20 DEF Power!Next, Power!Calls, Power!CallGoesOn

\* The same of every step of the whole.
LEMMA PowerKeeps == PowerIInv /\ [Next]_vars => PowerIInv' /\ (AbortsForSilent \/ UNCHANGED Power!vars)
<1> SUFFICES ASSUME PowerIInv, [Next]_vars PROVE PowerIInv' /\ (AbortsForSilent \/ UNCHANGED Power!vars)
  OBVIOUS
<1>1. CASE InPower /\ Power!Next
  BY <1>1, PowerStep
<1>2. CASE UNCHANGED powerVars
  BY <1>2 DEF powerVars, PowerIInv, PlacesAreKnown, LateAreSilent, IsDown, StorageIsBack, TimerIsBack, WdtIsDown,
     Power!Running,
     Power!vars, Power!pwrVars, Power!callVars, Power!handleVars, Power!meterVars, Power!swVars, Power!wdtVars
<1> QED BY <1>1, <1>2 DEF Next, vars, InLed, InMigration, InMain, InSystem, InReset

(* The software watchdog ends the process only for an id that was silent
   (pl_power_mgr_impl_sw_wdt.c). *)
THEOREM SpecAbortIsDeserved == Spec => AbortIsDeserved
<1>1. Init => PowerIInv
  BY PowerInitOK DEF Init
<1>2. PowerIInv /\ [Next]_vars => PowerIInv'
  BY PowerKeeps
<1>3. PowerIInv /\ [Next]_vars => [AbortsForSilent]_Power!vars
  BY PowerKeeps
<1> QED BY <1>1, <1>2, <1>3, PTL DEF Spec, AbortIsDeserved, Power!AbortIsDeserved, AbortsForSilent

(* A stopped power manager holds no thread or watchdog, and a storage or a
   timer only when that would not be given back (power_manager.c). *)
THEOREM SpecStoppedHoldsNothing == Spec => []StoppedHoldsNothing
<1>1. Init => PowerIInv
  BY PowerInitOK DEF Init
<1>2. PowerIInv /\ [Next]_vars => PowerIInv'
  BY PowerKeeps
<1>3. PowerIInv => StoppedHoldsNothing
  BY DEF PowerIInv, PlacesAreKnown, IsDown, StorageIsBack, TimerIsBack, WdtIsDown, StoppedHoldsNothing,
     Power!StoppedHoldsNothing, Power!Free
<1> QED BY <1>1, <1>2, <1>3, PTL DEF Spec

(* What the announced reboot finds at each place: the watchdogs were       *)
(* started on the way up and are not stopped on the way down of            *)
(* StopForReboot, which has one way to end.                                *)
ArmedInv ==
  /\ aim \in {"Stop", "WaitWDTIgnition"}
  /\ wdt = "Start" => \A d \in Dogs : dog[d] = "Start"
  /\ call \in {"wdtInit", "wdtRegister", "wdtStart", "plInit", "storage", "meter"}
       => status = "Stop" /\ aim = "Stop"
  /\ call \in {"wdtStop", "wdtUnregister", "wdtFinal", "wdtJoin"} => aim = "Stop"
  /\ status = "WaitWDTIgnition" => call = "idle"
  /\ Power!WaitingIsArmed

\* The same invariant holds at first.
LEMMA ArmedInitOK == Power!Init => ArmedInv
  BY DEF Power!Init, Power!PwrInit, Power!WdtInit, Power!AllDogs, ArmedInv, Power!WaitingIsArmed

(* Every step of the power manager keeps the dogs of an announced reboot
   armed. *)
LEMMA ArmedStep == ArmedInv /\ Power!Next => ArmedInv'
<1> SUFFICES ASSUME ArmedInv, Power!Next PROVE ArmedInv'
  OBVIOUS
<1> USE DEF ArmedInv, Power!WaitingIsArmed,
   Power!callVars, Power!handleVars, Power!meterVars, Power!swVars, Power!wdtVars, Power!pwrVars, Power!Step, Power!Free, Power!Running
<1>1. CASE Power!Start
  BY <1>1 DEF Power!Start
<1>2. CASE Power!Stop
  BY <1>2 DEF Power!Stop
<1>3. CASE Power!StopForReboot
  BY <1>3 DEF Power!StopForReboot, Power!Terminate
<1>4. CASE Power!Prepare
  BY <1>4 DEF Power!Prepare
<1>5. CASE Power!KeepAlive \/ Power!EsfPwrMgrWdtTerminate
  BY <1>5 DEF Power!KeepAlive, Power!WdtKeepAlive, Power!EsfPwrMgrWdtTerminate, Power!Terminate
<1>6. CASE Power!ExecuteReboot
  BY <1>6 DEF Power!ExecuteReboot, Power!AllDogs
<1>7. CASE Power!InitWdt
  BY <1>7 DEF Power!InitWdt, Power!InitializeOk, Power!InitializeFails, Power!RegisterIrqHandler,
     Power!StartOk, Power!StartFails, Power!LibRegisterIrqHandler, Power!LibInitialize, Power!LibStart,
     Power!AllDogs
<1>8. CASE Power!PlPowerMgrInitialize \/ Power!InitStorage \/ Power!InitHoursMeter
  BY <1>8 DEF Power!PlPowerMgrInitialize, Power!InitStorage, Power!InitHoursMeter
<1>9. CASE Power!DeinitHoursMeter \/ Power!DeinitStorage
  BY <1>9 DEF Power!DeinitHoursMeter, Power!DeinitStorage
<1>10. CASE Power!PlPowerMgrFinalize
  BY <1>10 DEF Power!PlPowerMgrFinalize
<1>11. CASE Power!DeinitWdt
  BY <1>11 DEF Power!DeinitWdt, Power!StopWdt, Power!UnregisterIrqHandler, Power!FinalizeBegins,
     Power!FinalizeEnds, Power!LibFinalize, Power!Joined
<1>12. CASE Power!CountHour \/ Power!SaveHour \/ Power!ExecMigration
  BY <1>12 DEF Power!CountHour, Power!SaveHour, Power!ExecMigration
<1>13. CASE Power!Enabling \/ Power!SwCalls \/ Power!Timeout \/ Power!SwThread
  BY <1>13 DEF Power!Enabling, Power!EnableFlag, Power!SwCalls, Power!EnableTime, Power!DisableSwWdt,
     Power!SwWdtKeepalive, Power!Timeout, Power!SwThread, Power!SwWdtClock, Power!SwWdtLook
<1>14. CASE Power!Threads
  BY <1>14 DEF Power!Threads, Power!LowThread, Power!HighThread, Power!LowLoop, Power!LowSend,
     Power!HighLoop, Power!HighReceive
<1> QED
  BY <1>1, <1>2, <1>3, <1>4, <1>5, <1>6, <1>7, <1>8, <1>9, <1>10, <1>11, <1>12, <1>13, <1>14
     DEF Power!Next, Power!Calls, Power!CallGoesOn

\* And so does every step of the whole.
LEMMA ArmedKeeps == ArmedInv /\ [Next]_vars => ArmedInv'
<1> SUFFICES ASSUME ArmedInv, [Next]_vars PROVE ArmedInv'
  OBVIOUS
<1>1. CASE InPower /\ Power!Next
  BY <1>1, ArmedStep
<1>2. CASE UNCHANGED powerVars
  BY <1>2 DEF powerVars, ArmedInv, Power!WaitingIsArmed
<1> QED BY <1>1, <1>2 DEF Next, vars, InLed, InMigration, InMain, InSystem, InReset

(* What the status of the power manager says is so: stopped, it holds
   nothing but what would not be given back; waiting for its reset, every dog is armed and the feeding was
   told to end (power_manager.c, pl_wdt.c). *)
THEOREM SpecStatusIsTrue == Spec => []StatusIsTrue
<1>1. Init => ArmedInv
  BY ArmedInitOK DEF Init
<1>2. ArmedInv /\ [Next]_vars => ArmedInv'
  BY ArmedKeeps
<1>3. ArmedInv /\ StoppedHoldsNothing => StatusIsTrue
  BY DEF ArmedInv, StoppedHoldsNothing, StatusIsTrue, Power!StatusIsTrue
<1> QED BY <1>1, <1>2, <1>3, SpecStoppedHoldsNothing, PTL DEF Spec

-----------------------------------------------------------------------------
(* The LED manager. *)

(* What a task of the LED manager looks like: the LEDs it has still to do. *)
TaskIsKnown ==
  \/ task = Led!NoTask
  \/ task = [op |-> "light", todo |-> task.todo, new |-> task.new]
  \/ task = [op |-> "stop", todo |-> task.todo]

LedIInv ==
  /\ TaskIsKnown /\ (task # Led!NoTask => ~sure)
  /\ seq = [l \in Leds |-> seq[l]]
  /\ \A l \in Leds \ running : seq[l] = Led!Dark
  /\ task.op = "light" => \A l \in Leds \ (keep \cup task.todo) : seq[l] = Led!Wanted(task.new[l])
  /\ LedPlaysItsStatus

\* A LED with no enabled status is dark.
LEMMA NothingWanted == Led!Wanted({}) = Led!Dark
  BY DEF Led!Wanted, Led!ControlTable

\* The invariant of the LED manager holds at first.
LEMMA LedInitOK == Led!Init => LedIInv
<1> SUFFICES ASSUME Led!Init PROVE LedIInv
  OBVIOUS
<1>1. /\ task = Led!NoTask /\ sure = TRUE /\ running = {} /\ seq = [l \in Leds |-> Led!Dark]
      /\ statuses = [l \in Leds |-> {}]
  BY Zenon DEF Led!Init, Led!Each
<1> QED BY <1>1, NothingWanted
   DEF LedIInv, TaskIsKnown, Led!NoTask, LedPlaysItsStatus, Led!LedPlaysItsStatus

\* Every step of the LED manager keeps its invariant.
LEMMA LedStep == LedIInv /\ Led!Next => LedIInv'
<1> SUFFICES ASSUME LedIInv, Led!Next PROVE LedIInv'
  OBVIOUS
<1> USE DEF LedIInv, TaskIsKnown, Led!NoTask, LedPlaysItsStatus, Led!LedPlaysItsStatus, Led!Each
<1>1. CASE Led!EsfLedManagerInit
  BY <1>1, NothingWanted
     DEF Led!EsfLedManagerInit, Led!InitResource, Led!PlLedInitialize, Led!LedCtrlInfoInit
<1>2. CASE Led!Deinit
  BY <1>2 DEF Led!Deinit, Led!ctrlVars
<1>3. ASSUME NEW l \in Leds, Led!SetLightingPersistence(l) PROVE LedIInv'
  BY <1>3 DEF Led!SetLightingPersistence, Led!ctrlVars
<1>4. ASSUME NEW l \in Leds, NEW s \in Led!Statuses, Led!SetStatus(l, s) PROVE LedIInv'
  BY <1>4 DEF Led!SetStatus, Led!ctrlVars
<1>5. ASSUME NEW l \in Leds, Led!Lighting(l) PROVE LedIInv'
  BY <1>5 DEF Led!Lighting, Led!ctrlVars, Led!PlLedStopSeq, Led!PlLedStartSeq,
     Led!UnregisterSeq, Led!RegisterSeq
<1>6. ASSUME NEW l \in Leds, Led!LedStop(l) PROVE LedIInv'
  BY <1>6 DEF Led!LedStop, Led!PlLedStopSeq, Led!UnregisterSeq
<1>7. CASE Led!LightingDone
  BY <1>7 DEF Led!LightingDone, Led!ctrlVars
<1>8. CASE Led!PlLedFinalize
  BY <1>8 DEF Led!PlLedFinalize, Led!Finalizing
<1>9. CASE Led!Stuck
  BY <1>9 DEF Led!Stuck, Led!ctrlVars
<1>10. CASE Led!Timer
  BY <1>10 DEF Led!Timer, Led!Tick, Led!TimerCallback, Led!managerVars, Led!ctrlVars
<1> QED
  BY <1>1, <1>2, <1>3, <1>4, <1>5, <1>6, <1>7, <1>8, <1>9, <1>10
     DEF Led!Next, Led!Call, Led!CallGoesOn

(* After a call that succeeded every LED that is not kept plays the sequence of
   its first enabled status (led_manager.c). *)
THEOREM SpecLedPlaysItsStatus == Spec => []LedPlaysItsStatus
<1>1. Init => LedIInv
  BY LedInitOK DEF Init
<1>2. LedIInv /\ [Next]_vars => LedIInv'
  <2> SUFFICES ASSUME LedIInv, [Next]_vars PROVE LedIInv'
    OBVIOUS
  <2>1. CASE InLed /\ Led!Next
    BY <2>1, LedStep
  <2>2. CASE UNCHANGED ledVars
    BY <2>2 DEF ledVars, LedIInv, TaskIsKnown, LedPlaysItsStatus, Led!LedPlaysItsStatus
  <2> QED BY <2>1, <2>2 DEF Next, vars, InPower, InMigration, InMain, InSystem, InReset
<1>3. LedIInv => LedPlaysItsStatus
  BY DEF LedIInv
<1> QED BY <1>1, <1>2, <1>3, PTL DEF Spec

-----------------------------------------------------------------------------
(* Main: what a boot brings up and what the way down takes. *)

(* Names of what a boot brings up before and after the exception information. *)
EarlyParts == {"Msg", "Timer", "LogManager", "UtilityLog", "I2c", "Driver",
               "Ioexp", "Memory", "Psm", "Led", "Power"}
LateParts == {"Network", "Clock", "FwMgr", "Sensor", "SystemApp"}

(* What is left to bring up, and where the list ends. *)
BootIsListed ==
  mpc = "boot" =>
    /\ boot # <<>> /\ boot[Len(boot)] \in {"Power", "Sensor", "SystemApp"}
    /\ \/ boot \in Seq(EarlyParts) /\ up \subseteq EarlyParts
       \/ boot \in Seq(LateParts)

(* What may be up at each stage of the way down. *)
UpIsKnown ==
  /\ up \subseteq EarlyParts \cup LateParts
  /\ mpc = "exception" => up \subseteq EarlyParts
  /\ mpc \in {"format", "finishled"} => up \subseteq Main!LedStays \cup stuck \/ gaveUp
  /\ mpc = "off" => up \subseteq stuck \/ gaveUp

MainIInv ==
  /\ BootIsListed
  /\ UpIsKnown
  /\ migrated \subseteq Main!Parts
  /\ mpc \in {"migrated", "erase"} \/ sourceGone => migrated = Main!Parts

\* What Head and Tail make of a list.
LEMMA ListTail ==
  ASSUME NEW S, NEW s \in Seq(S), s # <<>>
  PROVE  /\ Head(s) \in S /\ Tail(s) \in Seq(S)
         /\ Tail(s) # <<>> => Tail(s)[Len(Tail(s))] = s[Len(s)]
         /\ Tail(s) = <<>> => Head(s) = s[Len(s)]
<1>1. Len(s) \in Nat /\ Len(s) > 0 /\ Head(s) = s[1] /\ Head(s) \in S /\ Tail(s) \in Seq(S)
  OBVIOUS
<1>2. Len(Tail(s)) = Len(s) - 1 /\ \A i \in 1..Len(s) - 1 : Tail(s)[i] = s[i + 1]
  BY <1>1
<1>3. Tail(s) # <<>> => Len(Tail(s)) > 0
  BY <1>1
<1>4. \A t \in Seq(S) : t = <<>> => Len(t) = 0
  OBVIOUS
<1> QED
  BY <1>1, <1>2, <1>3, <1>4

\* The lists of what a boot brings up.
LEMMA Lists ==
  /\ Main!EarlyBoot \in Seq(EarlyParts) /\ Main!EarlyBoot # <<>>
  /\ Main!EarlyBoot[Len(Main!EarlyBoot)] = "Power"
  /\ Main!LateBoot \in Seq(LateParts) /\ Main!LateBoot # <<>>
  /\ Main!LateBoot[Len(Main!LateBoot)] = "Sensor"
  /\ <<"SystemApp">> \in Seq(LateParts) /\ <<"SystemApp">> # <<>>
  /\ <<"SystemApp">>[Len(<<"SystemApp">>)] = "SystemApp"
  BY DEF EarlyParts, LateParts, Main!EarlyBoot, Main!LateBoot

\* The invariant of Main holds at first.
LEMMA MainInitOK == Main!Init => MainIInv
  BY Lists DEF Main!Init, MainIInv, BootIsListed, UpIsKnown, Main!Parts

(* What a way down leaves up was not to be taken down, or refused. *)
LEMMA DownLeaves ==
  ASSUME NEW S, Main!TakeDown(S)
  PROVE  up' \subseteq up /\ stuck \subseteq stuck' /\ \A p \in up' : p \notin S \/ p \in stuck'
  BY DEF Main!TakeDown

\* The parts that a boot brings up are those that the ways down take.
LEMMA PartsAreTaken ==
  /\ EarlyParts \cup LateParts \subseteq Main!FinishTakes \cup Main!LedStays
  /\ EarlyParts \subseteq Main!HwRebootTakes
  BY DEF EarlyParts, LateParts, Main!FinishTakes, Main!LedStays, Main!HwRebootTakes

\* Every step of Main keeps its invariant.
LEMMA MainStep == MainIInv /\ Main!Next => MainIInv'
<1> SUFFICES ASSUME MainIInv, Main!Next PROVE MainIInv'
  OBVIOUS
<1> USE Lists DEF MainIInv, BootIsListed, UpIsKnown, Main!mainVars, Main!savedVars
<1>1. CASE Main!BringUp
  <2>1. boot # <<>> /\ (boot \in Seq(EarlyParts) \/ boot \in Seq(LateParts))
    BY <1>1 DEF Main!BringUp
  <2>2. /\ Head(boot) \in EarlyParts \cup LateParts
        /\ Tail(boot) # <<>> => Tail(boot)[Len(Tail(boot))] = boot[Len(boot)]
        /\ Tail(boot) = <<>> => Head(boot) \in {"Power", "Sensor", "SystemApp"}
        /\ boot \in Seq(EarlyParts) => Head(boot) \in EarlyParts /\ Tail(boot) \in Seq(EarlyParts)
        /\ boot \in Seq(LateParts) => Head(boot) \in LateParts /\ Tail(boot) \in Seq(LateParts)
    BY <1>1, <2>1, ListTail DEF Main!BringUp
  <2>3. /\ up' = up \cup {Head(boot)} /\ boot' = Tail(boot)
        /\ UNCHANGED <<migrated, sourceGone, gaveUp>> /\ mpc = "boot"
    BY <1>1 DEF Main!BringUp
  <2>4. /\ Tail(boot) # <<>> => mpc' = "boot"
        /\ Tail(boot) = <<>> => /\ mpc' \in {"exception", "migration", "open"}
                                /\ mpc' = "exception" => up' \subseteq EarlyParts
    <3>1. CASE Tail(boot) # <<>>
      BY <1>1, <3>1 DEF Main!BringUp
    <3>2. CASE Tail(boot) = <<>>
      BY <1>1, <2>1, <2>2, <3>2 DEF Main!BringUp, EarlyParts, LateParts
    <3> QED
      BY <3>1, <3>2
  <2>5. BootIsListed'
    BY <2>1, <2>2, <2>3, <2>4
  <2>6. UpIsKnown'
    BY <2>1, <2>2, <2>3, <2>4
  <2> QED
    BY <2>3, <2>4, <2>5, <2>6
<1>2. CASE Main!BringUpFails
  BY <1>2 DEF Main!BringUpFails
<1>3. CASE Main!BootFailed
  BY <1>3 DEF Main!BootFailed
<1>4. CASE Main!ExceptionInfo
  BY <1>4 DEF Main!ExceptionInfo
<1>5. CASE Main!EsfMainHwReboot
  <2>1. /\ mpc = "exception" /\ mpc' = "off" /\ Main!TakeDown(Main!HwRebootTakes)
        /\ UNCHANGED <<migrated, sourceGone, gaveUp>>
    BY <1>5 DEF Main!EsfMainHwReboot
  <2>2. up' \subseteq up /\ up' \subseteq stuck'
    BY <2>1, DownLeaves, PartsAreTaken
  <2> QED BY <2>1, <2>2
<1>6. CASE Main!IsNeedMigration
  BY <1>6 DEF Main!IsNeedMigration
<1>7. CASE Main!ExecMigration
  BY <1>7 DEF Main!ExecMigration, Main!Parts
<1>8. CASE Main!GiveUpMigration
  BY <1>8 DEF Main!GiveUpMigration
<1>9. CASE Main!DisableMigrationFlag
  BY <1>9 DEF Main!DisableMigrationFlag
<1>10. CASE Main!EraseMigrationSrcData
  BY <1>10 DEF Main!EraseMigrationSrcData
<1>11. CASE Main!OpenMessages
  BY <1>11 DEF Main!OpenMessages
<1>12. CASE Main!Receive
  BY <1>12 DEF Main!Receive
<1>13. CASE Main!FactoryReset
  BY <1>13 DEF Main!FactoryReset
<1>14. CASE Main!Finish
  <2> DEFINE S == Main!FinishTakes \cup IF Main!FinishLed THEN Main!LedStays ELSE {}
  <2>1. /\ Main!TakeDown(S) /\ UNCHANGED <<migrated, sourceGone, gaveUp>>
        /\ mpc' = IF request = "end" THEN "ended" ELSE IF Main!FinishLed THEN "off" ELSE "format"
    BY <1>14 DEF Main!Finish
  <2>2. up' \subseteq up /\ \A p \in up' : p \notin S \/ p \in stuck'
    <3> HIDE DEF S
    <3> QED BY <2>1, DownLeaves
  <2>3. Main!FinishLed => up' \subseteq stuck'
    BY <2>2, PartsAreTaken
  <2>4. ~Main!FinishLed => up' \subseteq Main!LedStays \cup stuck'
    BY <2>2, PartsAreTaken
  <2>5. mpc' \in {"ended", "off", "format"} /\ (mpc' = "off" => Main!FinishLed)
        /\ (mpc' = "format" => ~Main!FinishLed)
    BY <2>1
  <2> QED BY <2>1, <2>2, <2>3, <2>4, <2>5
<1>15. CASE Main!FinishTimesOut
  BY <1>15 DEF Main!FinishTimesOut
<1>16. CASE Main!FormatAndSwitch
  BY <1>16 DEF Main!FormatAndSwitch
<1>17. CASE Main!FinishTheLed
  <2>1. /\ mpc = "finishled" /\ mpc' = "off" /\ Main!TakeDown(Main!LedStays)
        /\ UNCHANGED <<migrated, sourceGone, gaveUp>>
    BY <1>17 DEF Main!FinishTheLed
  <2>2. /\ up' \subseteq up /\ stuck \subseteq stuck'
        /\ \A p \in up' : p \notin Main!LedStays \/ p \in stuck'
    BY <2>1, DownLeaves
  <2> QED BY <2>1, <2>2
<1>18. CASE Main!FinishLedTimesOut
  BY <1>18 DEF Main!FinishLedTimesOut
<1>19. CASE Main!Signalled
  BY <1>19 DEF Main!Signalled
<1>20. ASSUME NEW c \in Callers, (\E r \in Main!Requests : Main!NotifyMsg(c, r)) \/ Main!Sent(c)
       PROVE  MainIInv'
  BY <1>20 DEF Main!NotifyMsg, Main!Sent
<1>21. CASE Main!PowerFails
  BY <1>21 DEF Main!PowerFails
<1>22. CASE Main!StartsAgain
  BY <1>22 DEF Main!StartsAgain
<1> QED
  BY <1>1, <1>2, <1>3, <1>4, <1>5, <1>6, <1>7, <1>8, <1>9, <1>10, <1>11, <1>12, <1>13, <1>14,
     <1>15, <1>16, <1>17, <1>18, <1>19, <1>20, <1>21, <1>22 DEF Main!Next, Main!MainThread

(* The migration source outlives every part that was migrated, and the power
   goes off when all that was brought up is down, but for what itself refused
   to go down (main.c). *)
THEOREM SpecPartsGoInOrder == Spec => []PartsGoInOrder
<1>1. Init => MainIInv
  BY MainInitOK DEF Init
<1>2. MainIInv /\ [Next]_vars => MainIInv'
  <2> SUFFICES ASSUME MainIInv, [Next]_vars PROVE MainIInv'
    OBVIOUS
  <2>1. CASE InMain /\ Main!Next
    BY <2>1, MainStep
  <2>2. CASE UNCHANGED mainVars
    BY <2>2 DEF mainVars, MainIInv, BootIsListed, UpIsKnown
  <2> QED BY <2>1, <2>2 DEF Next, vars, InPower, InLed, InMigration, InSystem, InReset
<1>3. MainIInv => PartsGoInOrder
  BY DEF MainIInv, UpIsKnown, PartsGoInOrder, Main!PartsGoInOrder,
     Main!SourceOutlivesMigration, Main!OffMeansDown
<1> QED BY <1>1, <1>2, <1>3, PTL DEF Spec

(* Who holds state_mutex: the boot, nobody, or the caller that is sending; and
   when there may be requests. *)
HolderIsSender == \A c \in Callers : mutex = c <=> sending[c] # "none"

SomethingIsAsked ==
  is_initialized \/ messages # <<>> \/ \E c \in Callers : sending[c] # "none"

HeardIInv ==
  /\ messages \in Seq(Main!Requests) /\ Len(messages) <= MainQueue
  /\ sending \in [Callers -> Main!Requests \cup {"none"}]
  /\ HolderIsSender
  /\ SomethingIsAsked => mpc \in Main!Attending
  /\ mpc = "failed" => mutex = "none"
  /\ mpc \in Main!Attending \ {"off"} => mutex = "none" \/ mutex \in Callers

\* Where a boot goes from one of its components.
LEMMA BootGoesOn ==
  ASSUME MainIInv, Main!BringUp
  PROVE  mpc = "boot" /\ mpc' \in {"boot", "exception", "migration", "open"}
<1>1. mpc = "boot" /\ boot # <<>> /\ boot[Len(boot)] \in {"Power", "Sensor", "SystemApp"}
  BY DEF Main!BringUp, MainIInv, BootIsListed
<1>2. PICK S : boot \in Seq(S)
  BY <1>1 DEF MainIInv, BootIsListed
<1>3. Tail(boot) = <<>> => Head(boot) \in {"Power", "Sensor", "SystemApp"}
  BY <1>1, <1>2, ListTail
<1>4. CASE Tail(boot) # <<>>
  BY <1>1, <1>4 DEF Main!BringUp
<1>5. CASE Tail(boot) = <<>>
  <2>1. mpc' = CASE Head(boot) = "Power" -> "exception"
                 [] Head(boot) = "Sensor" -> "migration"
                 [] Head(boot) = "SystemApp" -> "open"
    BY <1>5 DEF Main!BringUp
  <2> QED BY <1>1, <1>3, <1>5, <2>1
<1> QED BY <1>4, <1>5

\* A step that leaves the requests alone, and is not one into the dark.
LEMMA HeardKept ==
  ASSUME HeardIInv, UNCHANGED <<is_initialized, messages, sending, mutex>>,
         mpc \in Main!Attending => mpc' \in Main!Attending,
         mpc' = "failed" => mutex = "none",
         mpc' \in Main!Attending \ {"off"} => mutex = "none" \/ mutex \in Callers
  PROVE  HeardIInv'
  BY DEF HeardIInv, HolderIsSender, SomethingIsAsked

\* A caller that begins to send, or has sent.
LEMMA HeardCalls ==
  ASSUME HeardIInv, NEW c \in Callers,
         (\E r \in Main!Requests : Main!NotifyMsg(c, r)) \/ Main!Sent(c)
  PROVE  HeardIInv'
<1> USE MainAssumption
<1>1. CASE \E r \in Main!Requests : Main!NotifyMsg(c, r)
  <2>1. PICK r \in Main!Requests : Main!NotifyMsg(c, r)
    BY <1>1
  <2>2. r # "none"
    BY DEF Main!Requests
  <2>3. sending' = [sending EXCEPT ![c] = r] /\ mutex' = c /\ mutex = "none"
        /\ UNCHANGED <<mpc, messages, is_initialized>> /\ is_initialized
    BY <2>1 DEF Main!NotifyMsg
  <2>4. mpc \in Main!Attending /\ mpc # "failed"
    BY <2>3 DEF HeardIInv, SomethingIsAsked, Main!Attending
  <2>5. HolderIsSender'
    BY <2>2, <2>3 DEF HeardIInv, HolderIsSender
  <2> QED BY <2>3, <2>4, <2>5 DEF HeardIInv
<1>2. CASE Main!Sent(c)
  <2>1. /\ sending[c] # "none" /\ Len(messages) < MainQueue
        /\ messages' = Append(messages, sending[c])
        /\ sending' = [sending EXCEPT ![c] = "none"] /\ mutex' = "none"
        /\ UNCHANGED <<mpc, is_initialized>>
    BY <1>2 DEF Main!Sent
  <2>2. mutex = c /\ mpc \in Main!Attending /\ mpc # "failed"
    BY <2>1 DEF HeardIInv, HolderIsSender, SomethingIsAsked, Main!Attending
  <2>3. messages' \in Seq(Main!Requests) /\ Len(messages') = Len(messages) + 1
    BY <2>1 DEF HeardIInv
  <2>4. Len(messages') <= MainQueue
    BY <2>1, <2>3 DEF HeardIInv
  <2>5. HolderIsSender'
    BY <2>1, <2>2 DEF HeardIInv, HolderIsSender
  <2> QED BY <2>1, <2>2, <2>3, <2>4, <2>5 DEF HeardIInv
<1> QED BY <1>1, <1>2

\* Every step of Main keeps what is known of the requests.
LEMMA HeardStep == MainIInv /\ HeardIInv /\ Main!Next => HeardIInv'
<1> SUFFICES ASSUME MainIInv, HeardIInv, Main!Next PROVE HeardIInv'
  OBVIOUS
<1> USE MainAssumption DEF Main!mainVars, Main!savedVars, Main!Attending
<1>0. mpc \notin Main!Attending =>
        messages = <<>> /\ ~is_initialized /\ \A c \in Callers : sending[c] = "none" /\ mutex # c
  BY DEF HeardIInv, SomethingIsAsked, HolderIsSender
<1>1. CASE Main!BringUp
  BY <1>1, BootGoesOn, HeardKept DEF Main!BringUp
<1>2. CASE Main!BringUpFails
  <2>1. mpc = "boot" /\ UNCHANGED <<is_initialized, messages, sending>>
        /\ \/ mpc' = "migration" /\ UNCHANGED mutex
           \/ mpc' = "failed" /\ mutex' = "none"
    BY <1>2 DEF Main!BringUpFails
  <2> QED BY <1>0, <2>1 DEF HeardIInv, HolderIsSender, SomethingIsAsked
<1>3. CASE Main!BootFailed
  BY <1>3, HeardKept DEF Main!BootFailed, HeardIInv
<1>4. CASE Main!ExceptionInfo \/ Main!EsfMainHwReboot \/ Main!IsNeedMigration \/ Main!ExecMigration
        \/ Main!GiveUpMigration \/ Main!DisableMigrationFlag \/ Main!EraseMigrationSrcData
  BY <1>4, HeardKept DEF Main!ExceptionInfo, Main!EsfMainHwReboot, Main!IsNeedMigration, Main!ExecMigration,
     Main!GiveUpMigration, Main!DisableMigrationFlag, Main!EraseMigrationSrcData
<1>5. CASE Main!OpenMessages
  <2>1. mpc = "open" /\ mutex' = "none" /\ messages' = <<>> /\ UNCHANGED sending
        /\ \/ mpc' = "loop"
           \/ is_initialized' = FALSE /\ mpc' = "failed"
    BY <1>5 DEF Main!OpenMessages
  <2>2. messages = <<>>
    BY <1>0, <2>1
  <2> QED BY <1>0, <2>1, <2>2 DEF HeardIInv, HolderIsSender, SomethingIsAsked
<1>6. CASE Main!Receive
  <2>1. /\ mpc = "loop" /\ messages # <<>> /\ messages' = Tail(messages)
        /\ mpc' \in {"finish", "reset"} /\ UNCHANGED <<is_initialized, mutex, sending>>
    BY <1>6 DEF Main!Receive
  <2>2. messages' \in Seq(Main!Requests) /\ Len(messages') <= MainQueue
    BY <2>1 DEF HeardIInv
  <2> QED BY <2>1, <2>2 DEF HeardIInv, HolderIsSender, SomethingIsAsked
<1>7. CASE Main!FactoryReset \/ Main!FinishTimesOut \/ Main!FormatAndSwitch \/ Main!FinishTheLed
        \/ Main!FinishLedTimesOut \/ Main!Signalled
  BY <1>7, HeardKept DEF Main!FactoryReset, Main!FinishTimesOut, Main!FormatAndSwitch, Main!FinishTheLed,
     Main!FinishLedTimesOut, Main!Signalled, HeardIInv
<1>8. CASE Main!Finish
  <2>1. /\ mpc = "finish" /\ is_initialized' = FALSE /\ mpc' \in {"ended", "off", "format"}
        /\ UNCHANGED <<messages, mutex, sending>>
    BY <1>8 DEF Main!Finish
  <2> QED BY <2>1 DEF HeardIInv, HolderIsSender, SomethingIsAsked
<1>9. ASSUME NEW c \in Callers, (\E r \in Main!Requests : Main!NotifyMsg(c, r)) \/ Main!Sent(c)
      PROVE  HeardIInv'
  BY <1>9, HeardCalls
<1>10. CASE Main!PowerFails
  BY <1>10, HeardKept DEF Main!PowerFails
<1>11. CASE Main!StartsAgain
  <2>1. /\ mpc' = "boot" /\ is_initialized' = FALSE /\ mutex' = "main" /\ messages' = <<>>
        /\ sending' = [c \in Callers |-> "none"]
    BY <1>11 DEF Main!StartsAgain
  <2> QED BY <2>1 DEF HeardIInv, HolderIsSender, SomethingIsAsked
<1> QED
  BY <1>1, <1>2, <1>3, <1>4, <1>5, <1>6, <1>7, <1>8, <1>9, <1>10, <1>11 DEF Main!Next, Main!MainThread

(* A request is queued only where it is heard, and the way down never waits
   for a mutex that stays taken: its holder finds room in the queue, or the
   wait ends by its time (main.c EsfMainNotifyMsg, EsfMainFinish). *)
THEOREM SpecRequestsAreHeard == Spec => []Main!RequestsAreHeard
<1>1. Init => MainIInv /\ HeardIInv
  <2> SUFFICES ASSUME Init PROVE HeardIInv
    BY MainInitOK DEF Init
  <2>1. /\ mpc = "boot" /\ is_initialized = FALSE /\ mutex = "main" /\ messages = <<>>
        /\ sending = [c \in Callers |-> "none"]
    BY DEF Init, Main!Init
  <2> QED BY <2>1, MainAssumption DEF HeardIInv, HolderIsSender, SomethingIsAsked, Main!Attending
<1>2. MainIInv /\ HeardIInv /\ [Next]_vars => (MainIInv /\ HeardIInv)'
  <2> SUFFICES ASSUME MainIInv, HeardIInv, [Next]_vars PROVE MainIInv' /\ HeardIInv'
    OBVIOUS
  <2>1. CASE InMain /\ Main!Next
    BY <2>1, MainStep, HeardStep
  <2>2. CASE UNCHANGED mainVars
    BY <2>2 DEF mainVars, MainIInv, BootIsListed, UpIsKnown, HeardIInv, HolderIsSender, SomethingIsAsked
  <2> QED BY <2>1, <2>2 DEF Next, vars, InPower, InLed, InMigration, InSystem, InReset
<1>3. HeardIInv => Main!RequestsAreHeard
  <2> SUFFICES ASSUME HeardIInv PROVE Main!RequestsAreHeard
    OBVIOUS
  <2>1. Len(messages) \in Nat /\ Len(messages) <= MainQueue
    BY DEF HeardIInv
  <2>2. \A c \in Callers : sending[c] # "none" => mutex = c /\ mpc \in Main!Attending
    BY DEF HeardIInv, HolderIsSender, SomethingIsAsked
  <2>3. ASSUME mpc \in {"finish", "finishled"}, mutex # "none"
        PROVE  mutex \in Callers /\ sending[mutex] # "none"
    BY <2>3 DEF HeardIInv, HolderIsSender, Main!Attending
  <2> QED
    BY <2>1, <2>2, <2>3, MainAssumption
       DEF HeardIInv, SomethingIsAsked, Main!RequestsAreHeard
<1> QED BY <1>1, <1>2, <1>3, PTL DEF Spec

-----------------------------------------------------------------------------
(* The calls of the system manager. *)

(* The places of a call between its open and its close. *)
Within == {"sizing", "loading", "saving", "closing"}

SmCalls ==
  [op : {"none", "get", "number", "set", "hwinfo"}, of : System!Items \cup {"none"},
   room : Nat, asked : Nat, got : Nat, serial : BOOLEAN]
SmResults == {"none", "Ok", "InternalError", "EmptyData", "OutOfRange"}
SmAnswers == [result : SmResults, size : Nat, room : Nat]

SmTypeOK ==
  /\ item \in [System!Items -> Nat]
  /\ at \in [SmCallers -> Within \cup {"idle", "parsing"}]
  /\ ask \in [SmCallers -> SmCalls]
  /\ answer \in SmAnswers
  /\ opened \in Int /\ leftOpen \in Int

(* What a getter knows at each place: a blob fits, because its size was    *)
(* asked; a text is measured once more when it is given.                   *)
KnowsItsRoom(place, c) ==
  /\ place \in Within => c.of \in System!Items
  /\ place = "sizing" => c.op = "get"
  /\ place = "saving" => c.op = "set"
  /\ c.op = "get" => c.of \in (System!Texts \cup System!Blobs) \ {"HwInfo"}
  /\ place = "loading" /\ c.op = "get" => c.asked + 1 <= c.room
  /\ place = "closing" /\ c.op = "get" /\ c.of \in System!Blobs => c.got + 1 <= c.room

SystemIInv ==
  /\ SmTypeOK
  /\ \A t \in SmCallers : KnowsItsRoom(at[t], ask[t])
  /\ CallsEndClean

Inside == {t \in SmCallers : at[t] \in Within}

\* The module of the system manager counts as this one does.
LEMMA SmCardinality == \A S : System!Cardinality(S) = Cardinality(S)
  BY DEF Cardinality, System!Cardinality

\* One call moves: the number of calls inside follows.
LEMMA InsideMoves ==
  ASSUME SmTypeOK, NEW t \in SmCallers, NEW place, at' = [at EXCEPT ![t] = place]
  PROVE  /\ Cardinality(Inside) \in Nat
         /\ Cardinality(Inside') = Cardinality(Inside) - (IF at[t] \in Within THEN 1 ELSE 0)
                                     + (IF place \in Within THEN 1 ELSE 0)
<1>1. IsFiniteSet(Inside) /\ Cardinality(Inside) \in Nat
  BY SupervisionAssumption, FS_Subset, FS_CardinalityType DEF Inside
<1>2. CASE (at[t] \in Within) = (place \in Within)
  <2>1. Inside' = Inside
    BY <1>2 DEF Inside, SmTypeOK
  <2> QED BY <2>1, <1>1, <1>2
<1>3. CASE at[t] \in Within /\ place \notin Within
  <2>1. Inside' = Inside \ {t} /\ t \in Inside
    BY <1>3 DEF Inside, SmTypeOK
  <2>2. Cardinality(Inside \ {t}) = Cardinality(Inside) - 1
    BY <2>1, <1>1, FS_RemoveElement
  <2> QED BY <2>1, <2>2, <1>1, <1>3
<1>4. CASE at[t] \notin Within /\ place \in Within
  <2>1. Inside' = Inside \cup {t} /\ t \notin Inside
    BY <1>4 DEF Inside, SmTypeOK
  <2>2. Cardinality(Inside \cup {t}) = Cardinality(Inside) + 1
    BY <2>1, <1>1, FS_AddElement
  <2> QED BY <2>1, <2>2, <1>1, <1>4
<1> QED BY <1>2, <1>3, <1>4

\* A step of a call that leaves it at a place it knows its room for.
LEMMA CallMoves ==
  ASSUME SystemIInv, NEW t \in SmCallers, NEW place \in Within \cup {"idle", "parsing"}, NEW c \in SmCalls,
         System!Step(t, place, c), KnowsItsRoom(place, c),
         item' \in [System!Items -> Nat], answer' \in SmAnswers,
         answer'.size <= answer'.room, leftOpen' \in Int,
         opened' - leftOpen' = opened - leftOpen - (IF at[t] \in Within THEN 1 ELSE 0)
                                     + (IF place \in Within THEN 1 ELSE 0), opened' \in Int
  PROVE  SystemIInv'
<1>1. at' = [at EXCEPT ![t] = place] /\ ask' = [ask EXCEPT ![t] = c]
  BY DEF System!Step
<1>2. SmTypeOK' /\ SmTypeOK
  BY <1>1 DEF SystemIInv, SmTypeOK
<1>3. \A u \in SmCallers : KnowsItsRoom(at'[u], ask'[u])
  BY <1>1 DEF SystemIInv, SmTypeOK
<1>4. opened = leftOpen + Cardinality(Inside)
  BY SmCardinality
     DEF SystemIInv, CallsEndClean, System!CallsEndClean, System!HandlesComeBack, Inside, Within
<1>5. opened' = leftOpen' + Cardinality(Inside')
  <2>1. /\ Cardinality(Inside) \in Nat
        /\ Cardinality(Inside') = Cardinality(Inside) - (IF at[t] \in Within THEN 1 ELSE 0)
                                    + (IF place \in Within THEN 1 ELSE 0)
    BY <1>1, <1>2, InsideMoves
  <2> QED BY <1>2, <1>4, <2>1 DEF SmTypeOK
<1>6. CallsEndClean'
  BY <1>5, SmCardinality
     DEF CallsEndClean, System!CallsEndClean, System!AnswerFits, System!HandlesComeBack,
        Inside, Within
<1> QED BY <1>2, <1>3, <1>6 DEF SystemIInv, KnowsItsRoom

\* An answer ends a call.
LEMMA AnswerEnds ==
  ASSUME SystemIInv, NEW t \in SmCallers, NEW r \in SmResults, NEW n \in Nat,
         NEW a, a = [result |-> r, size |-> n, room |-> 0],
         System!Answered(t, a), n <= ask[t].room, item' = item,
         leftOpen' \in Int, opened' \in Int,
         opened' - leftOpen' = opened - leftOpen - (IF at[t] \in Within THEN 1 ELSE 0)
  PROVE  SystemIInv'
<1>1. System!Step(t, "idle", System!NoCall)
  BY DEF System!Answered
<1>2. PICK b \in {a, System!Ok(0), System!Err("InternalError"), System!Err("EmptyData")} :
        answer' = [b EXCEPT !.room = IF b.size = 0 THEN 0 ELSE ask[t].room]
  BY DEF System!Answered, System!EsfSystemManagerParseSerialNumberFromDeviceManifest,
      System!EsfSystemManagerParseJwtPayload, System!Ok, System!Err
<1>3. /\ ask[t].room \in Nat /\ b.size \in Nat /\ b.result \in SmResults
      /\ b.size <= ask[t].room \/ b.size = 0
      /\ b = [result |-> b.result, size |-> b.size, room |-> 0]
  BY <1>2 DEF SystemIInv, SmTypeOK, SmCalls, SmResults, System!Ok, System!Err
<1>4. /\ answer' = [result |-> b.result, size |-> b.size, room |-> IF b.size = 0 THEN 0 ELSE ask[t].room]
  BY <1>2, <1>3
<1>5. answer' \in SmAnswers /\ answer'.size <= answer'.room
  <2>1. CASE b.size = 0
    BY <2>1, <1>3, <1>4 DEF SmAnswers
  <2>2. CASE b.size # 0
    BY <2>2, <1>3, <1>4 DEF SmAnswers
  <2> QED BY <2>1, <2>2
<1>6. System!NoCall \in SmCalls /\ KnowsItsRoom("idle", System!NoCall)
  <2>1. System!NoCall \in SmCalls
    BY DEF System!NoCall, SmCalls
  <2>2. System!NoCall.op = "none"
    BY DEF System!NoCall
  <2> QED BY <2>1, <2>2 DEF KnowsItsRoom, Within
<1>7. item' \in [System!Items -> Nat]
  BY DEF SystemIInv, SmTypeOK
<1> QED
  BY <1>1, <1>5, <1>6, <1>7, CallMoves DEF Within

\* A call opens its handle, or ends with the failure of that.
LEMMA OpensOK ==
  ASSUME SystemIInv, NEW t \in SmCallers, NEW place \in Within, NEW c \in SmCalls,
         System!Opens(t, place, c), KnowsItsRoom(place, c), at[t] \notin Within
  PROVE  SystemIInv'
<1>1. CASE opened' = opened + 1 /\ System!Step(t, place, c) /\ UNCHANGED <<answer, smFails>>
  BY <1>1, CallMoves
     DEF System!Opens, SystemIInv, SmTypeOK, CallsEndClean, System!CallsEndClean,
        System!AnswerFits, Within
<1>2. CASE System!Answered(t, System!Err("InternalError")) /\ UNCHANGED opened
  <2>1. ask[t].room \in Nat
    BY DEF SystemIInv, SmTypeOK, SmCalls
  <2>2. opened \in Int /\ leftOpen \in Int /\ item' = item /\ leftOpen' = leftOpen
    BY DEF System!Opens, SystemIInv, SmTypeOK
  <2> QED
    BY <1>2, <2>1, <2>2, AnswerEnds DEF System!Err, SmResults
<1> QED BY <1>1, <1>2 DEF System!Opens

\* A call that is refused gives nothing.
LEMMA RefusedOK ==
  ASSUME SystemIInv, NEW t \in SmCallers, NEW r \in SmResults, System!Refused(t, r), at[t] \in Within
  PROVE  SystemIInv'
<1>1. ask[t].room \in Nat /\ 0 <= ask[t].room
  BY DEF SystemIInv, SmTypeOK, SmCalls
<1>2. opened' \in Int /\ leftOpen' \in Int /\ opened' - leftOpen' = opened - leftOpen - 1
  BY DEF System!Refused, SystemIInv, SmTypeOK
<1> QED BY <1>1, <1>2, AnswerEnds DEF System!Refused, System!Err

\* After the size is known a getter goes on with room enough, or is refused.
LEMMA SizeKnownOK ==
  ASSUME SystemIInv, NEW t \in SmCallers, System!SizeKnown(t)
  PROVE  SystemIInv'
<1>1. at[t] = "sizing" /\ KnowsItsRoom("sizing", ask[t])
  BY DEF System!SizeKnown, SystemIInv
<1>2. CASE System!Refused(t, "EmptyData") \/ System!Refused(t, "OutOfRange")
  BY <1>1, <1>2, RefusedOK DEF SmResults, Within
<1>3. CASE System!SizeOk(t)
  <2> DEFINE c == [ask[t] EXCEPT !.asked = item[ask[t].of]]
  <2>1. ask[t] \in SmCalls /\ ask[t].of \in System!Items /\ item[ask[t].of] \in Nat
    BY <1>1 DEF SystemIInv, SmTypeOK, KnowsItsRoom, Within
  <2>2. /\ c \in SmCalls /\ c.op = ask[t].op /\ c.of = ask[t].of /\ c.room = ask[t].room
        /\ c.asked = item[ask[t].of]
    BY <2>1 DEF SmCalls
  <2>3. KnowsItsRoom("loading", c)
    BY <1>1, <1>3, <2>1, <2>2 DEF System!SizeOk, System!TooSmall, KnowsItsRoom, SmCalls, Within
  <2>4. /\ item' = item /\ answer' = answer /\ opened' = opened /\ leftOpen' = leftOpen
        /\ System!Step(t, "loading", c)
    BY <1>3 DEF System!SizeOk
  <2> HIDE DEF c
  <2> QED
    BY <1>1, <2>2, <2>3, <2>4, CallMoves
       DEF SystemIInv, SmTypeOK, CallsEndClean, System!CallsEndClean, System!AnswerFits, Within
<1> QED BY <1>2, <1>3 DEF System!SizeKnown

\* The two forms of an answer.
LEMMA Answers ==
  /\ \A n : System!Ok(n).result = "Ok" /\ System!Ok(n).size = n
  /\ \A r : System!Err(r).result = r /\ System!Err(r).size = 0
  BY DEF System!Ok, System!Err

\* What a blob is loaded with is no longer than was asked.
LEMMA LoadedFits ==
  ASSUME SystemIInv, NEW t \in SmCallers, at[t] = "loading", System!LoadedBy(ask[t]).result = "Ok"
  PROVE  /\ System!LoadedBy(ask[t]).size \in Nat
         /\ ask[t].op = "get" /\ ask[t].of \in System!Blobs =>
               System!LoadedBy(ask[t]).size <= ask[t].asked
<1>1. ask[t].of \in System!Items /\ KnowsItsRoom("loading", ask[t]) /\ ask[t] \in SmCalls
  BY DEF SystemIInv, SmTypeOK, KnowsItsRoom, Within
<1>2. ask[t].room \in Nat /\ ask[t].asked \in Nat /\ item[ask[t].of] \in Nat
  BY <1>1 DEF SystemIInv, SmTypeOK, SmCalls
<1>3. System!Filled(ask[t].of) \in Nat
  BY <1>2 DEF System!Filled, System!DefaultOf
<1>4. \A m, n \in Nat : System!Shorter(m, n) \in Nat /\ System!Shorter(m, n) <= n
  BY DEF System!Shorter
<1>5. \/ System!LoadedBy(ask[t]) = System!Ok(System!Filled(ask[t].of)) /\ ask[t].of \notin System!Blobs
      \/ System!LoadedBy(ask[t]) = System!EsfSystemManagerLoadRootAuthFromPsm(ask[t])
      \/ System!LoadedBy(ask[t]) = System!EsfSystemManagerLoadDeviceManifestFromPsm(ask[t])
      \/ System!LoadedBy(ask[t]) = System!EsfSystemManagerLoadHwInfoFromPsm(ask[t]) /\ ask[t].of = "HwInfo"
  <2>1. \/ ask[t].of \in System!EnrollmentItems /\ System!LoadedBy(ask[t]) = System!EsfSystemManagerLoadEnrollmentFromPsm(ask[t])
        \/ ask[t].of \in System!EvpItems /\ System!LoadedBy(ask[t]) = System!EsfSystemManagerLoadEvpFromPsm(ask[t])
        \/ System!LoadedBy(ask[t]) = System!EsfSystemManagerLoadRootAuthFromPsm(ask[t])
        \/ System!LoadedBy(ask[t]) = System!EsfSystemManagerLoadDeviceManifestFromPsm(ask[t])
        \/ ask[t].of = "HwInfo" /\ System!LoadedBy(ask[t]) = System!EsfSystemManagerLoadHwInfoFromPsm(ask[t])
        \/ ask[t].of = "QrModeTimeoutValue" /\ System!LoadedBy(ask[t]) = System!EsfSystemManagerLoadQrModeTimeoutValueFromPsm(ask[t])
        \/ ask[t].of = "InitialSettingFlag" /\ System!LoadedBy(ask[t]) = System!EsfSystemManagerLoadInitialSettingFlagFromPsm(ask[t])
    <3>1. \/ ask[t].of \in System!EnrollmentItems \/ ask[t].of \in System!EvpItems
          \/ ask[t].of \in System!RootAuthItems
          \/ ask[t].of \in {"DeviceManifest", "HwInfo", "QrModeTimeoutValue", "InitialSettingFlag"}
      BY <1>1 DEF System!Items, System!Texts, System!Blobs, System!RootAuthItems
    <3> QED BY <3>1 DEF System!LoadedBy
  <2>2. System!EsfSystemManagerLoadEnrollmentFromPsm(ask[t]) = System!Ok(System!Filled(ask[t].of))
    BY DEF System!EsfSystemManagerLoadEnrollmentFromPsm
  <2>3. System!EsfSystemManagerLoadEvpFromPsm(ask[t]) = System!Ok(System!Filled(ask[t].of))
    BY DEF System!EsfSystemManagerLoadEvpFromPsm
  <2>4. System!EsfSystemManagerLoadQrModeTimeoutValueFromPsm(ask[t]) = System!Ok(System!Filled(ask[t].of))
    BY DEF System!EsfSystemManagerLoadQrModeTimeoutValueFromPsm
  <2>5. System!EsfSystemManagerLoadInitialSettingFlagFromPsm(ask[t]) = System!Ok(System!Filled(ask[t].of))
    BY DEF System!EsfSystemManagerLoadInitialSettingFlagFromPsm
  <2> QED
    BY <2>1, <2>2, <2>3, <2>4, <2>5 DEF System!Blobs, System!EnrollmentItems, System!EvpItems
<1>6. CASE System!LoadedBy(ask[t]) = System!Ok(System!Filled(ask[t].of)) /\ ask[t].of \notin System!Blobs
  BY <1>3, <1>6 DEF System!Ok
<1>7. CASE System!LoadedBy(ask[t]) = System!EsfSystemManagerLoadRootAuthFromPsm(ask[t])
  <2>1. item[ask[t].of] # 0
    BY <1>7, Answers DEF System!EsfSystemManagerLoadRootAuthFromPsm
  <2>2. System!LoadedBy(ask[t]) = System!Ok(IF ask[t].of \in System!Blobs THEN System!Shorter(item[ask[t].of], ask[t].asked)
                                               ELSE item[ask[t].of])
    BY <1>7, <2>1 DEF System!EsfSystemManagerLoadRootAuthFromPsm
  <2>3. System!LoadedBy(ask[t]).size = IF ask[t].of \in System!Blobs THEN System!Shorter(item[ask[t].of], ask[t].asked)
                                               ELSE item[ask[t].of]
    BY <2>2, Answers
  <2> QED BY <1>2, <1>4, <2>3
<1>8. CASE System!LoadedBy(ask[t]) = System!EsfSystemManagerLoadDeviceManifestFromPsm(ask[t])
  <2>1. item[ask[t].of] # 0
    BY <1>8, Answers DEF System!EsfSystemManagerLoadDeviceManifestFromPsm
  <2>2. System!LoadedBy(ask[t]) = System!Ok(System!Shorter(item[ask[t].of], ask[t].asked))
    BY <1>8, <2>1 DEF System!EsfSystemManagerLoadDeviceManifestFromPsm
  <2>3. System!LoadedBy(ask[t]).size = System!Shorter(item[ask[t].of], ask[t].asked)
    BY <2>2, Answers
  <2> QED BY <1>2, <1>4, <2>3
<1>9. CASE System!LoadedBy(ask[t]) = System!EsfSystemManagerLoadHwInfoFromPsm(ask[t]) /\ ask[t].of = "HwInfo"
  <2>1. item[ask[t].of] # 0
    BY <1>9, Answers DEF System!EsfSystemManagerLoadHwInfoFromPsm
  <2>2. System!LoadedBy(ask[t]) = System!Ok(System!Shorter(item[ask[t].of], ask[t].room))
    BY <1>9, <2>1 DEF System!EsfSystemManagerLoadHwInfoFromPsm
  <2>3. System!LoadedBy(ask[t]).size = System!Shorter(item[ask[t].of], ask[t].room)
    BY <2>2, Answers
  <2> QED BY <1>2, <1>4, <2>3, <1>1, <1>9 DEF KnowsItsRoom
<1> QED
  BY <1>5, <1>6, <1>7, <1>8, <1>9

\* The results a load can have.
LEMMA ResultsOfLoads ==
  ASSUME SystemIInv, NEW t \in SmCallers, at[t] = "loading"
  PROVE  System!LoadedBy(ask[t]).result \in SmResults
<1>1. ask[t].of \in System!Items
  BY DEF SystemIInv, KnowsItsRoom, Within
<1>2. \A c : /\ System!EsfSystemManagerLoadEnrollmentFromPsm(c).result = "Ok"
             /\ System!EsfSystemManagerLoadEvpFromPsm(c).result = "Ok"
             /\ System!EsfSystemManagerLoadQrModeTimeoutValueFromPsm(c).result = "Ok"
             /\ System!EsfSystemManagerLoadInitialSettingFlagFromPsm(c).result = "Ok"
  BY Answers DEF System!EsfSystemManagerLoadEnrollmentFromPsm,
     System!EsfSystemManagerLoadEvpFromPsm,
     System!EsfSystemManagerLoadQrModeTimeoutValueFromPsm,
     System!EsfSystemManagerLoadInitialSettingFlagFromPsm
<1>3. \A c : /\ System!EsfSystemManagerLoadRootAuthFromPsm(c).result \in {"Ok", "EmptyData"}
             /\ System!EsfSystemManagerLoadDeviceManifestFromPsm(c).result \in {"Ok", "EmptyData"}
             /\ System!EsfSystemManagerLoadHwInfoFromPsm(c).result \in {"Ok", "EmptyData"}
  BY Answers DEF System!EsfSystemManagerLoadRootAuthFromPsm,
     System!EsfSystemManagerLoadDeviceManifestFromPsm, System!EsfSystemManagerLoadHwInfoFromPsm
<1>4. \/ ask[t].of \in System!EnrollmentItems \/ ask[t].of \in System!EvpItems
      \/ ask[t].of \in System!RootAuthItems
      \/ ask[t].of \in {"DeviceManifest", "HwInfo", "QrModeTimeoutValue", "InitialSettingFlag"}
  BY <1>1 DEF System!Items, System!Texts, System!Blobs, System!RootAuthItems
<1> QED BY <1>2, <1>3, <1>4 DEF System!LoadedBy, SmResults

\* What a call gives its caller fits the room of the caller.
LEMMA GivenFits ==
  ASSUME SystemIInv, NEW t \in SmCallers, at[t] = "closing"
  PROVE  \E r \in SmResults, n \in Nat :
            System!Given(ask[t]) = [result |-> r, size |-> n, room |-> 0] /\ n <= ask[t].room
<1>1. ask[t].of \in System!Items /\ KnowsItsRoom("closing", ask[t]) /\ ask[t] \in SmCalls
  BY DEF SystemIInv, SmTypeOK, KnowsItsRoom, Within
<1>2. ask[t].room \in Nat /\ ask[t].got \in Nat
  BY <1>1 DEF SmCalls
<1>3. CASE System!Given(ask[t]) \in {System!Ok(0), System!Err("OutOfRange")}
  BY <1>2, <1>3 DEF System!Ok, System!Err, SmResults
<1>4. CASE /\ System!Given(ask[t]) = System!Ok(ask[t].got + 1)
           /\ ask[t].op = "get" /\ ~(ask[t].of \in System!Texts /\ ask[t].got + 1 > ask[t].room)
  <2>1. ask[t].got + 1 <= ask[t].room
    <3>1. CASE ask[t].of \in System!Texts
      BY <1>2, <1>4, <3>1
    <3>2. CASE ask[t].of \in System!Blobs
      BY <1>1, <1>4, <3>2 DEF KnowsItsRoom
    <3> QED BY <1>1, <1>4, <3>1, <3>2 DEF KnowsItsRoom
  <2> QED BY <1>2, <1>4, <2>1 DEF System!Ok, SmResults
<1> QED BY <1>3, <1>4 DEF System!Given

\* The load keeps the invariant.
LEMMA LoadOK ==
  ASSUME SystemIInv, NEW t \in SmCallers, System!Load(t)
  PROVE  SystemIInv'
<1> DEFINE loaded == System!LoadedBy(ask[t])
<1>1. at[t] = "loading" /\ KnowsItsRoom("loading", ask[t]) /\ ask[t] \in SmCalls
  BY DEF System!Load, SystemIInv, SmTypeOK
<1>2. CASE loaded.result # "Ok" /\ System!Refused(t, loaded.result)
  <2>1. loaded.result \in SmResults
    BY <1>1, <1>2, ResultsOfLoads
  <2> QED
    BY <1>1, <1>2, <2>1, RefusedOK DEF Within
<1>3. CASE /\ loaded.result = "Ok"
           /\ System!Step(t, "closing", [ask[t] EXCEPT !.got = loaded.size])
           /\ UNCHANGED <<subject, item, answer, opened, leftOpen, smFails>>
  <2> DEFINE c == [ask[t] EXCEPT !.got = loaded.size]
  <2>1. /\ loaded.size \in Nat
        /\ ask[t].op = "get" /\ ask[t].of \in System!Blobs => loaded.size <= ask[t].asked
    BY <1>1, <1>3, LoadedFits
  <2>2. /\ c \in SmCalls /\ c.op = ask[t].op /\ c.of = ask[t].of /\ c.room = ask[t].room
        /\ c.got = loaded.size
    BY <1>1, <2>1 DEF SmCalls
  <2>3. KnowsItsRoom("closing", c)
    <3>1. ask[t].asked \in Nat /\ ask[t].room \in Nat
      BY <1>1 DEF SmCalls
    <3>2. /\ ask[t].of \in System!Items
          /\ ask[t].op = "get" => ask[t].of \in (System!Texts \cup System!Blobs) \ {"HwInfo"}
          /\ ask[t].op = "get" => ask[t].asked + 1 <= ask[t].room
      BY <1>1 DEF KnowsItsRoom, Within
    <3> HIDE DEF c, loaded
    <3> QED BY <2>1, <2>2, <3>1, <3>2 DEF KnowsItsRoom
  <2>4. /\ item' = item /\ answer' = answer /\ opened' = opened /\ leftOpen' = leftOpen
        /\ System!Step(t, "closing", c)
    BY <1>3
  <2> HIDE DEF c
  <2> QED
    BY <1>1, <2>2, <2>3, <2>4, CallMoves
       DEF SystemIInv, SmTypeOK, CallsEndClean, System!CallsEndClean, System!AnswerFits, Within
<1> QED BY <1>2, <1>3 DEF System!Load

\* The save keeps the invariant.
LEMMA SaveOK ==
  ASSUME SystemIInv, NEW t \in SmCallers, System!Save(t)
  PROVE  SystemIInv'
<1>1. at[t] = "saving" /\ KnowsItsRoom("saving", ask[t]) /\ ask[t] \in SmCalls /\ ask[t].room \in Nat
  BY DEF System!Save, SystemIInv, SmTypeOK, SmCalls
<1>2. KnowsItsRoom("closing", ask[t])
  BY <1>1 DEF KnowsItsRoom, Within
<1>3. /\ answer' = answer /\ opened' = opened /\ leftOpen' = leftOpen
      /\ System!Step(t, "closing", ask[t]) /\ item' \in [System!Items -> Nat]
  BY <1>1 DEF System!Save, SystemIInv, SmTypeOK
<1> QED
  BY <1>1, <1>2, <1>3, CallMoves
     DEF SystemIInv, SmTypeOK, CallsEndClean, System!CallsEndClean, System!AnswerFits, Within

\* A call ends without an error of its handle.
LEMMA EndsOK ==
  ASSUME SystemIInv, NEW t \in SmCallers,
         System!GivesUp(t) \/ System!CloseFails(t) \/ System!Close(t)
  PROVE  SystemIInv'
<1>1. /\ opened \in Int /\ leftOpen \in Int /\ ask[t] \in SmCalls
      /\ ask[t].room \in Nat
  BY DEF SystemIInv, SmTypeOK, SmCalls
<1>2. CASE System!GivesUp(t)
  <2>1. /\ at[t] \in Within /\ item' = item
        /\ \/ opened' = opened - 1 /\ leftOpen' = leftOpen
           \/ opened' = opened /\ leftOpen' = leftOpen + 1
    BY <1>2 DEF System!GivesUp, Within
  <2> QED
    BY <1>1, <1>2, <2>1, AnswerEnds DEF System!GivesUp, System!Err, SmResults
<1>3. CASE System!CloseFails(t)
  <2>1. at[t] \in Within /\ opened' = opened /\ leftOpen' = leftOpen + 1 /\ item' = item
    BY <1>3 DEF System!CloseFails, Within
  <2> QED
    BY <1>1, <1>3, <2>1, AnswerEnds DEF System!CloseFails, System!Err, SmResults
<1>4. CASE System!Close(t)
  <2>1. at[t] = "closing" /\ opened' = opened - 1 /\ leftOpen' = leftOpen /\ item' = item
    BY <1>4 DEF System!Close
  <2>2. CASE ask[t].op = "hwinfo"
    <3>1. System!Step(t, "parsing", ask[t]) /\ answer' = answer
      BY <1>4, <2>2 DEF System!Close
    <3>2. KnowsItsRoom("parsing", ask[t])
      BY <2>2 DEF KnowsItsRoom, Within
    <3> QED
      BY <1>1, <2>1, <3>1, <3>2, CallMoves
         DEF SystemIInv, SmTypeOK, CallsEndClean, System!CallsEndClean, System!AnswerFits, Within
  <2>3. CASE ask[t].op # "hwinfo"
    <3>1. System!Answered(t, System!Given(ask[t]))
      BY <1>4, <2>3 DEF System!Close
    <3>2. PICK r \in SmResults, n \in Nat :
            System!Given(ask[t]) = [result |-> r, size |-> n, room |-> 0] /\ n <= ask[t].room
      BY <2>1, GivenFits
    <3> QED
      BY <1>1, <2>1, <3>1, <3>2, AnswerEnds DEF Within
  <2> QED BY <2>2, <2>3
<1> QED BY <1>2, <1>3, <1>4

\* The record of a new call.
LEMMA CallType ==
  ASSUME NEW op \in {"none", "get", "number", "set", "hwinfo"}, NEW i \in System!Items, NEW n \in Nat
  PROVE  /\ System!Call(op, i, n) \in SmCalls
         /\ System!Call(op, i, n).op = op /\ System!Call(op, i, n).of = i
         /\ System!Call(op, i, n).room = n
<1>1. System!NoCall \in SmCalls
  BY DEF System!NoCall, SmCalls
<1> QED BY <1>1 DEF System!Call, SmCalls

\* The parse of the hardware information keeps the invariant.
LEMMA ParseOK ==
  ASSUME SystemIInv, NEW t \in SmCallers, System!EsfSystemManagerParseHwInfo(t)
  PROVE  SystemIInv'
<1>1. /\ opened \in Int /\ leftOpen \in Int /\ ask[t].room \in Nat /\ at[t] = "parsing"
  BY DEF SystemIInv, SmTypeOK, SmCalls, System!EsfSystemManagerParseHwInfo
<1>2. CASE /\ \E a \in {System!Err("EmptyData"), System!Err("InternalError"), System!Ok(0)} :
                System!Answered(t, a)
           /\ UNCHANGED <<subject, item, opened, leftOpen, smFails>>
  BY <1>1, <1>2, AnswerEnds DEF System!Err, System!Ok, SmResults, Within
<1>3. CASE System!Opens(t, "sizing", [System!Call("get", "DeviceManifest", MaxText + 1) EXCEPT !.serial = TRUE])
  <2> DEFINE c == [System!Call("get", "DeviceManifest", MaxText + 1) EXCEPT !.serial = TRUE]
  <2> DEFINE d == System!Call("get", "DeviceManifest", MaxText + 1)
  <2>1. d \in SmCalls /\ d.op = "get" /\ d.of = "DeviceManifest"
    <3>1. MaxText + 1 \in Nat /\ "DeviceManifest" \in System!Items
      BY SupervisionAssumption DEF System!Items, System!Blobs
    <3> QED BY <3>1, CallType
  <2>2. c \in SmCalls /\ c.op = "get" /\ c.of = "DeviceManifest"
    BY <2>1 DEF SmCalls
  <2>3. KnowsItsRoom("sizing", c)
    <3> HIDE DEF c
    <3> QED BY <2>2 DEF KnowsItsRoom, System!Items, System!Blobs
  <2> QED
    BY <1>1, <1>3, <2>2, <2>3, OpensOK DEF Within
<1> QED BY <1>2, <1>3 DEF System!EsfSystemManagerParseHwInfo

\* A setter that starts keeps the invariant.
LEMMA SetterOK ==
  ASSUME SystemIInv, NEW t \in SmCallers, System!Setter(t)
  PROVE  SystemIInv'
<1>1. PICK i \in System!Items, n \in Nat :
        at[t] = "idle" /\ System!Opens(t, "saving", System!Call("set", i, n))
  BY DEF System!Setter, System!Set, System!Items, System!Texts, System!EnrollmentItems,
     System!EvpItems,
     System!EsfSystemManagerSetDpsUrl, System!EsfSystemManagerSetCommonName,
     System!EsfSystemManagerSetDpsScopeId, System!EsfSystemManagerSetProjectId,
     System!EsfSystemManagerSetRegisterToken, System!EsfSystemManagerSetEvpHubUrl,
     System!EsfSystemManagerSetEvpHubPort, System!EsfSystemManagerSetEvpIotPlatform,
     System!EsfSystemManagerSetEvpTls, System!EsfSystemManagerSetQrModeTimeoutValue,
     System!EsfSystemManagerSetInitialSettingFlag
<1> DEFINE c == System!Call("set", i, n)
<1>2. c \in SmCalls /\ c.op = "set" /\ c.of = i
  BY CallType
<1>3. KnowsItsRoom("saving", c)
  <2> HIDE DEF c
  <2> QED BY <1>2 DEF KnowsItsRoom
<1> QED BY <1>1, <1>2, <1>3, OpensOK DEF Within

\* The items a getter is given a buffer for.
LEMMA GetOK ==
  ASSUME SystemIInv, NEW t \in SmCallers,
         NEW i \in (System!Texts \cup System!Blobs) \ {"HwInfo"}, System!Get(t, i)
  PROVE  SystemIInv'
<1>1. PICK n \in Nat : at[t] = "idle" /\ System!Opens(t, "sizing", System!Call("get", i, n))
  BY SupervisionAssumption DEF System!Get
<1> DEFINE c == System!Call("get", i, n)
<1>2. c \in SmCalls /\ c.op = "get" /\ c.of = i
  BY CallType DEF System!Items
<1>3. KnowsItsRoom("sizing", c)
  <2> HIDE DEF c
  <2> QED BY <1>2 DEF KnowsItsRoom, System!Items
<1> QED BY <1>1, <1>2, <1>3, OpensOK DEF Within

\* A getter of a number that starts keeps the invariant.
LEMMA GetNumberOK ==
  ASSUME SystemIInv, NEW t \in SmCallers, NEW i \in System!Items, System!GetNumber(t, i)
  PROVE  SystemIInv'
<1>1. at[t] = "idle" /\ System!Opens(t, "loading", System!Call("number", i, 0))
  BY DEF System!GetNumber
<1> DEFINE c == System!Call("number", i, 0)
<1>2. c \in SmCalls /\ c.op = "number" /\ c.of = i
  BY CallType
<1>3. KnowsItsRoom("loading", c)
  <2> HIDE DEF c
  <2> QED BY <1>2 DEF KnowsItsRoom
<1> QED BY <1>1, <1>2, <1>3, OpensOK DEF Within

\* A getter of the hardware information that starts keeps the invariant.
LEMMA GetHwInfoOK ==
  ASSUME SystemIInv, NEW t \in SmCallers, System!EsfSystemManagerGetHwInfo(t)
  PROVE  SystemIInv'
<1> DEFINE c == System!Call("hwinfo", "HwInfo", MaxText)
<1>1. c \in SmCalls /\ c.op = "hwinfo" /\ c.of = "HwInfo" /\ "HwInfo" \in System!Items
  BY CallType, SupervisionAssumption DEF System!Items, System!Blobs
<1>2. KnowsItsRoom("loading", c) /\ KnowsItsRoom("parsing", c)
  <2> HIDE DEF c
  <2> QED BY <1>1 DEF KnowsItsRoom, Within
<1>3. at[t] = "idle"
  BY DEF System!EsfSystemManagerGetHwInfo
<1>4. CASE System!Opens(t, "loading", c)
  BY <1>1, <1>2, <1>3, <1>4, OpensOK DEF Within
<1>5. CASE System!Step(t, "parsing", c) /\ UNCHANGED <<subject, item, answer, opened, leftOpen, smFails>>
  <2> HIDE DEF c
  <2>1. item' = item /\ answer' = answer /\ opened' = opened /\ leftOpen' = leftOpen
    BY <1>5
  <2> QED BY <1>1, <1>2, <1>3, <1>5, <2>1, CallMoves
     DEF SystemIInv, SmTypeOK, CallsEndClean, System!CallsEndClean, System!AnswerFits, Within
<1> QED BY <1>4, <1>5 DEF System!EsfSystemManagerGetHwInfo

\* A getter that starts keeps the invariant.
LEMMA GetterOK ==
  ASSUME SystemIInv, NEW t \in SmCallers, System!Getter(t)
  PROVE  SystemIInv'
<1>1. \/ \E i \in (System!Texts \cup System!Blobs) \ {"HwInfo"} : System!Get(t, i)
      \/ \E i \in {"EvpTls", "QrModeTimeoutValue", "InitialSettingFlag"} : System!GetNumber(t, i)
      \/ System!EsfSystemManagerGetHwInfo(t)
  BY DEF System!Getter, System!Texts, System!EnrollmentItems, System!EvpItems, System!Blobs,
     System!EsfSystemManagerGetDeviceManifest, System!EsfSystemManagerGetDpsUrl,
     System!EsfSystemManagerGetCommonName, System!EsfSystemManagerGetDpsScopeId,
     System!EsfSystemManagerGetProjectId, System!EsfSystemManagerGetRegisterToken,
     System!EsfSystemManagerGetEvpHubUrl, System!EsfSystemManagerGetEvpHubPort,
     System!EsfSystemManagerGetEvpIotPlatform, System!EsfSystemManagerGetEvpTls,
     System!EsfSystemManagerGetRootCa, System!EsfSystemManagerGetRootCaHash,
     System!EsfSystemManagerGetQrModeTimeoutValue, System!EsfSystemManagerGetInitialSettingFlag
<1>2. \A i \in {"EvpTls", "QrModeTimeoutValue", "InitialSettingFlag"} : i \in System!Items
  BY DEF System!Items, System!Texts, System!EvpItems
<1> QED BY <1>1, <1>2, GetOK, GetNumberOK, GetHwInfoOK

\* Every step of the system manager keeps its invariant.
LEMMA SystemStep == SystemIInv /\ System!SmNext => SystemIInv'
<1> SUFFICES ASSUME SystemIInv, NEW t \in SmCallers,
                    System!Getter(t) \/ System!Setter(t) \/ System!CallProceeds(t)
             PROVE  SystemIInv'
  BY DEF System!SmNext
<1>1. CASE System!CallProceeds(t)
  BY <1>1, SizeKnownOK, LoadOK, SaveOK, EndsOK, ParseOK DEF System!CallProceeds
<1> QED BY <1>1, GetterOK, SetterOK

\* The invariant of the system manager holds at first.
LEMMA SystemInitOK == System!SmInit => SystemIInv
<1> SUFFICES ASSUME System!SmInit PROVE SystemIInv
  OBVIOUS
<1>1. item \in [System!Items -> Nat]
  BY DEF System!SmInit
<1>2. System!NoCall \in SmCalls /\ System!NoAnswer \in SmAnswers /\ System!NoAnswer.size = 0 /\ System!NoAnswer.room = 0
  BY DEF System!NoCall, SmCalls, System!NoAnswer, System!Err, SmAnswers, SmResults
<1>3. /\ at = [t \in SmCallers |-> "idle"] /\ ask = [t \in SmCallers |-> System!NoCall]
      /\ answer = System!NoAnswer /\ opened = 0 /\ leftOpen = 0
  BY DEF System!SmInit
<1>4. SmTypeOK
  BY <1>1, <1>2, <1>3 DEF SmTypeOK
<1>5. KnowsItsRoom("idle", System!NoCall)
  <2>1. System!NoCall.op = "none"
    BY DEF System!NoCall
  <2> QED BY <2>1 DEF KnowsItsRoom, Within
<1>6. Cardinality({t \in SmCallers : at[t] \in Within}) = 0
  <2>1. {t \in SmCallers : at[t] \in Within} = {}
    BY <1>3 DEF Within
  <2> QED BY <2>1, FS_EmptySet
<1>7. CallsEndClean
  BY <1>2, <1>3, <1>6, SmCardinality
     DEF CallsEndClean, System!CallsEndClean, System!AnswerFits, System!HandlesComeBack, Within
<1> QED BY <1>3, <1>4, <1>5, <1>7 DEF SystemIInv

(* A getter gives what fits the buffer of its caller, and a call closes the
   handle it opened, for any number of callers (system_manager.c). *)
THEOREM SpecCallsEndClean == Spec => []CallsEndClean
<1>1. Init => SystemIInv
  BY SystemInitOK DEF Init
<1>2. SystemIInv /\ [Next]_vars => SystemIInv'
  <2> SUFFICES ASSUME SystemIInv, [Next]_vars PROVE SystemIInv'
    OBVIOUS
  <2>1. CASE InSystem /\ System!SmNext
    BY <2>1, SystemStep
  <2>2. CASE UNCHANGED systemVars
    BY <2>2, SmCardinality
       DEF systemVars, SystemIInv, SmTypeOK, CallsEndClean, System!CallsEndClean,
          System!AnswerFits, System!HandlesComeBack
  <2> QED BY <2>1, <2>2 DEF Next, vars, InPower, InLed, InMigration, InMain, InReset
<1>3. SystemIInv => CallsEndClean
  BY DEF SystemIInv
<1> QED BY <1>1, <1>2, <1>3, PTL DEF Spec

-----------------------------------------------------------------------------
(* The reset causes and the exception information. *)

(* The causes a device gives, and what has to hold for a step to clear.    *)
PmCauses == {"SysChipPowerOnReset", "SysBrownOut", "CoreSoft", "WDT"}

ResetIInv ==
  /\ pmCause \in PmCauses
  /\ resets \in Nat /\ resetFails \in Nat /\ retained \in Nat
  /\ bootStep = "clear" => exception = retained
  /\ bootStep = "told" => Reset!PmEvent \in told \cup unheard
  /\ bootStep = "toldEvp" => Reset!EvpEvent \in told \cup unheard
  /\ bootStep = "sent" => exception \in uploaded

\* Different causes are stored as different texts, whatever the text of an
\* item that is empty, as long as it is none of the others.
LEMMA TextsDiffer ==
  ASSUME NEW empty, empty \notin {"0", "1", "2", "3", "4", "5", "6", "7"}, NEW texts,
         \/ texts = [SysChipPowerOnReset |-> "0", SysBrownOut |-> "1", CoreSoft |-> "2",
                     CoreDeepSleep |-> "3", WDT |-> "4", SoftResetNormal |-> "5",
                     SoftResetError |-> "6", Default |-> "7", Clear |-> empty]
         \/ texts = [MemoryAllocFailure |-> "1", FreezeDetection |-> "2", Clear |-> empty]
  PROVE  \A c, d \in DOMAIN texts : texts[c] = texts[d] => c = d
  OBVIOUS

\* What a cause is stored as is read as the cause.
LEMMA CausesRead ==
  /\ \A c \in DOMAIN Reset!ResetCauseText :
       Reset!EsfSystemManagerConvertStringToResetCause(Reset!ResetCauseText[c]) = c
  /\ \A c \in DOMAIN Reset!EvpResetCauseText :
       Reset!EsfSystemManagerConvertStringToEvpResetCause(Reset!EvpResetCauseText[c]) = c
<1>1. "" \notin {"0", "1", "2", "3", "4", "5", "6", "7"}
  BY Zenon
<1>2. \A c, d \in DOMAIN Reset!ResetCauseText :
         Reset!ResetCauseText[c] = Reset!ResetCauseText[d] => c = d
  BY <1>1, TextsDiffer, Zenon DEF Reset!ResetCauseText
<1>3. \A c, d \in DOMAIN Reset!EvpResetCauseText :
         Reset!EvpResetCauseText[c] = Reset!EvpResetCauseText[d] => c = d
  BY <1>1, TextsDiffer, Zenon DEF Reset!EvpResetCauseText
<1>4. ASSUME NEW c \in DOMAIN Reset!ResetCauseText
      PROVE  Reset!EsfSystemManagerConvertStringToResetCause(Reset!ResetCauseText[c]) = c
  BY <1>2 DEF Reset!EsfSystemManagerConvertStringToResetCause, Reset!CauseOf
<1>5. ASSUME NEW c \in DOMAIN Reset!EvpResetCauseText
      PROVE  Reset!EsfSystemManagerConvertStringToEvpResetCause(Reset!EvpResetCauseText[c]) = c
  BY <1>3 DEF Reset!EsfSystemManagerConvertStringToEvpResetCause, Reset!CauseOf
<1> QED BY <1>4, <1>5

(* The step property of NothingIsForgotten. *)
ForgetsNothing ==
  /\ Reset!EsfSystemManagerGetResetCause' \in Reset!Quiet
        /\ Reset!EsfSystemManagerGetResetCause \notin Reset!Quiet => Reset!PmEvent \in told \cup unheard
  /\ Reset!EsfSystemManagerGetEvpResetCause' = "Clear"
        /\ Reset!EsfSystemManagerGetEvpResetCause # "Clear" => Reset!EvpEvent \in told \cup unheard
  /\ exception' = 0 /\ exception # 0 => exception \in uploaded
  /\ retained' = 0 /\ retained # 0 => exception = retained \/ hurt'

\* What is read of an item, and the event that tells it, follow the item.
LEMMA SameCause ==
  ASSUME cause' = cause
  PROVE  /\ Reset!EsfSystemManagerGetResetCause' = Reset!EsfSystemManagerGetResetCause
         /\ Reset!PmEvent' = Reset!PmEvent
  BY DEF Reset!PmEvent, Reset!EsfSystemManagerGetResetCause

\* The same of the cause that EVP knows.
LEMMA SameEvpCause ==
  ASSUME evpCause' = evpCause
  PROVE  /\ Reset!EsfSystemManagerGetEvpResetCause' = Reset!EsfSystemManagerGetEvpResetCause
         /\ Reset!EvpEvent' = Reset!EvpEvent
  BY DEF Reset!EvpEvent, Reset!EsfSystemManagerGetEvpResetCause

\* A cause that is set is read back.
LEMMA CauseIsStored ==
  ASSUME NEW c \in DOMAIN Reset!ResetCauseText, Reset!EsfSystemManagerSetResetCause(c)
  PROVE  Reset!EsfSystemManagerGetResetCause' = c
  BY CausesRead DEF Reset!EsfSystemManagerSetResetCause, Reset!EsfSystemManagerGetResetCause,
     Reset!EsfSystemManagerConvertResetCauseToString

\* A cause for EVP that is set is read back.
LEMMA EvpCauseIsStored ==
  ASSUME NEW c \in DOMAIN Reset!EvpResetCauseText, Reset!EsfSystemManagerSetEvpResetCause(c)
  PROVE  Reset!EsfSystemManagerGetEvpResetCause' = c
  BY CausesRead
     DEF Reset!EsfSystemManagerSetEvpResetCause, Reset!EsfSystemManagerGetEvpResetCause,
     Reset!EsfSystemManagerConvertEvpResetCauseToString

\* The cause that takes the place of another one is none of the quiet ones.
LEMMA CauseToSaveIsLoud ==
  ASSUME ResetIInv
  PROVE  Reset!CauseToSave \in DOMAIN Reset!ResetCauseText \ Reset!Quiet
  BY DEF ResetIInv, PmCauses, Reset!CauseToSave, Reset!EsfSystemManagerConvertResetCausePmToSm,
     Reset!Quiet, Reset!ResetCauseText

\* Every step keeps the invariant and clears only what was told or refused.
LEMMA ResetStep == ResetIInv /\ Reset!RsNext => ResetIInv' /\ ForgetsNothing
<1> SUFFICES ASSUME ResetIInv, Reset!RsNext PROVE ResetIInv' /\ ForgetsNothing
  OBVIOUS
<1> USE DEF ResetIInv, ForgetsNothing, Reset!stored, Reset!counted, Reset!Refuses
<1>1. CASE Reset!SaveException
  BY <1>1, SameCause, SameEvpCause DEF Reset!SaveException, Reset!NoReport,
     Reset!EsfPwrMgrGetExceptionInfo, Reset!EsfPwrMgrClearExceptionInfo
<1>2. CASE Reset!InfoRefused
  BY <1>2, SameCause, SameEvpCause DEF Reset!InfoRefused, Reset!NoReport, Reset!Fails
<1>3. CASE Reset!NoException
  BY <1>3, SameCause, SameEvpCause DEF Reset!NoException
<1>4. CASE Reset!ClearRetained
  BY <1>4, SameCause, SameEvpCause
     DEF Reset!ClearRetained, Reset!NoReport, Reset!EsfPwrMgrClearExceptionInfo
<1>5. CASE Reset!EsfSystemManagerSetExceptionInfo
  <2>1. cause' = cause \/ Reset!EsfSystemManagerGetResetCause' \notin Reset!Quiet
    BY <1>5, CauseToSaveIsLoud, CauseIsStored DEF Reset!EsfSystemManagerSetExceptionInfo
  <2>2. evpCause' = evpCause /\ retained' = retained /\ exception' = exception
    BY <1>5 DEF Reset!EsfSystemManagerSetExceptionInfo
  <2> QED
    BY <1>5, <2>1, <2>2, SameCause, SameEvpCause
       DEF Reset!EsfSystemManagerSetExceptionInfo, Reset!NoReport
<1>6. CASE Reset!EsfSystemManagerIsNeedReboot
  BY <1>6, SameCause, SameEvpCause
     DEF Reset!EsfSystemManagerIsNeedReboot, Reset!NoReport, Reset!Restarts, PmCauses
<1>7. CASE Reset!EsfSystemManagerSendResetCause
  BY <1>7, SameCause, SameEvpCause DEF Reset!EsfSystemManagerSendResetCause, Reset!Fails, Reset!Event
<1>8. CASE Reset!ClearCause
  BY <1>8, SameCause, SameEvpCause DEF Reset!ClearCause, Reset!Fails
<1>9. CASE Reset!EsfSystemManagerUploadExceptionInfo
  BY <1>9, SameCause, SameEvpCause DEF Reset!EsfSystemManagerUploadExceptionInfo, Reset!Fails
<1>10. CASE Reset!EsfSystemManagerClearExceptionInfoOfPsm
  BY <1>10, SameCause, SameEvpCause DEF Reset!EsfSystemManagerClearExceptionInfoOfPsm, Reset!Fails
<1>11. ASSUME NEW c \in {"SoftResetNormal", "SoftResetError"} \cup Reset!EvpCauses,
              NEW how \in {"CoreSoft", "SysChipPowerOnReset"}, Reset!EsfSystemManagerExecReboot(c, how)
       PROVE  ResetIInv' /\ ForgetsNothing
  <2>1. cause' = cause \/ Reset!EsfSystemManagerGetResetCause' \notin Reset!Quiet
    BY <1>11, CauseIsStored
       DEF Reset!EsfSystemManagerExecReboot, Reset!ResetCauseText, Reset!Quiet, Reset!EvpCauses
  <2>2. evpCause' = evpCause \/ Reset!EsfSystemManagerGetEvpResetCause' # "Clear"
    BY <1>11, EvpCauseIsStored
       DEF Reset!EsfSystemManagerExecReboot, Reset!EvpResetCauseText, Reset!EvpCauses
  <2>3. /\ exception' = exception /\ retained' = retained /\ bootStep' = "info"
        /\ resets' = resets + 1 /\ pmCause' \in PmCauses /\ resetFails' \in Nat
    BY <1>11 DEF Reset!EsfSystemManagerExecReboot, Reset!Restarts, PmCauses
  <2> QED
    BY <2>1, <2>2, <2>3, SameCause, SameEvpCause
<1>12. CASE Reset!Crashes
  BY <1>12, SameCause, SameEvpCause DEF Reset!Crashes, Reset!Restarts, PmCauses
<1>13. CASE Reset!PowerFails
  BY <1>13, SameCause, SameEvpCause DEF Reset!PowerFails, Reset!Restarts, PmCauses
<1> QED
  BY <1>1, <1>2, <1>3, <1>4, <1>5, <1>6, <1>7, <1>8, <1>9, <1>10, <1>11, <1>12, <1>13
     DEF Reset!RsNext, Reset!Reboot

\* The invariant of the reset causes holds at first.
LEMMA ResetInitOK == Reset!RsInit => ResetIInv
<1>1. Reset!RsInit => /\ bootStep = "info" /\ pmCause = "SysChipPowerOnReset" /\ retained = 0
                      /\ resets = 0 /\ resetFails = 0
  BY Zenon DEF Reset!RsInit
<1> QED BY <1>1 DEF ResetIInv, PmCauses

(* A reset cause is cleared only after it was told, or offered to the log in
   this run and refused, and an exception only after it was handed over
   (system_manager.c). *)
THEOREM SpecNothingIsForgotten == Spec => NothingIsForgotten
<1>1. Init => ResetIInv
  BY ResetInitOK DEF Init
<1>2. ResetIInv /\ [Next]_vars => ResetIInv' /\ (ForgetsNothing \/ UNCHANGED Reset!rsVars)
  <2> SUFFICES ASSUME ResetIInv, [Next]_vars PROVE ResetIInv' /\ (ForgetsNothing \/ UNCHANGED Reset!rsVars)
    OBVIOUS
  <2>1. CASE InReset /\ Reset!RsNext
    BY <2>1, ResetStep
  <2>2. CASE UNCHANGED resetVars
    BY <2>2, SameCause, SameEvpCause DEF resetVars, ResetIInv, Reset!rsVars
  <2> QED BY <2>1, <2>2 DEF Next, vars, InPower, InLed, InMigration, InMain, InSystem
<1>3. ResetIInv /\ [Next]_vars => [ForgetsNothing]_Reset!rsVars
  BY <1>2
<1> QED BY <1>1, <1>2, <1>3, PTL
   DEF Spec, NothingIsForgotten, Reset!NothingIsForgotten, ForgetsNothing

-----------------------------------------------------------------------------
(* The migration of the data of the older firmware. *)

(* Up to `step` each kind that had data was taken over.                   *)
MgIInv ==
  /\ step \in 0..8
  /\ source \in [Migration!KindSet -> {"none", "data", "malformed"}]
  /\ \A i \in 1..4 : step > i => (had[Migration!Kinds[i]] = "data" => Migration!Kinds[i] \in kept)
  /\ NothingIsLost

\* The kinds of data that are migrated, and their order.
LEMMA KindsAre == /\ Migration!KindSet = {"RootAuth", "DeviceManifest", "HwInfo", "EvpSetupInfo"}
                  /\ Migration!Kinds[1] = "RootAuth" /\ Migration!Kinds[2] = "DeviceManifest"
                  /\ Migration!Kinds[3] = "HwInfo" /\ Migration!Kinds[4] = "EvpSetupInfo"
<1>1. DOMAIN Migration!Kinds = 1..4
   BY DEF Migration!Kinds
<1> QED BY <1>1 DEF Migration!KindSet, Migration!Kinds

\* The invariant of the migration holds at first.
LEMMA MgInitOK == Migration!MgInit => MgIInv
  BY KindsAre DEF Migration!MgInit, MgIInv, NothingIsLost, Migration!NothingIsLost

\* The copy of one kind keeps what was there, or ends the migration.
LEMMA CopyOK ==
  ASSUME MgIInv, NEW i \in 1..4, step = i, Migration!Copy(Migration!Kinds[i]), UNCHANGED <<source, had, migrationDone>>
  PROVE MgIInv'
<1>1. Migration!NothingIsLost
  BY DEF MgIInv, NothingIsLost
<1>2. /\ kept \subseteq kept'
      /\ step' = 0 \/ (had[Migration!Kinds[i]] = "data" => Migration!Kinds[i] \in kept')
  BY <1>1, KindsAre
     DEF Migration!Copy, Migration!EsfSystemManagerMigrationData, Migration!NothingIsLost,
        Migration!MgFails
<1>3. step' \in {0, i+1}
  BY DEF Migration!Copy
<1> QED
  BY <1>1, <1>2, <1>3, KindsAre DEF MgIInv, NothingIsLost, Migration!NothingIsLost

\* Every step of the migration keeps its invariant.
LEMMA MgStep == MgIInv /\ Migration!MgNext => MgIInv'
<1> SUFFICES ASSUME MgIInv, Migration!MgNext PROVE MgIInv'
  OBVIOUS
<1>1. CASE Migration!Starts
  BY <1>1, KindsAre DEF Migration!Starts, MgIInv, NothingIsLost, Migration!NothingIsLost
<1>2. CASE Migration!Copies
  BY <1>2, CopyOK, KindsAre
     DEF Migration!Copies, Migration!EsfSystemManagerMigrateRootAuth,
        Migration!EsfSystemManagerMigrateDeviceManifest,
        Migration!EsfSystemManagerMigrateHwInfo, Migration!EsfSystemManagerMigrateEvpSetupInfo
<1>3. CASE Migration!EsfSystemManagerMigration
  BY <1>3, KindsAre
     DEF Migration!EsfSystemManagerMigration, MgIInv, NothingIsLost, Migration!NothingIsLost,
        Migration!EsfSystemManagerEraseMigrationData, Migration!MgFails
<1>4. CASE Migration!PowerIsLost
  BY <1>4, KindsAre DEF Migration!PowerIsLost, MgIInv, NothingIsLost, Migration!NothingIsLost
<1> QED BY <1>1, <1>2, <1>3, <1>4 DEF Migration!MgNext

(* Data of the older firmware is migrated before it is erased, wherever the
   power fails and whatever fails to be written (system_manager.c). *)
THEOREM SpecNothingIsLost == Spec => []NothingIsLost
<1>1. Init => MgIInv
  BY MgInitOK DEF Init
<1>2. MgIInv /\ [Next]_vars => MgIInv'
  <2> SUFFICES ASSUME MgIInv, [Next]_vars PROVE MgIInv'
    OBVIOUS
  <2>1. CASE InMigration /\ Migration!MgNext
    BY <2>1, MgStep
  <2>2. CASE UNCHANGED migrationVars
    BY <2>2 DEF migrationVars, MgIInv, NothingIsLost, Migration!NothingIsLost
  <2> QED BY <2>1, <2>2 DEF Next, vars, InPower, InLed, InMain, InSystem, InReset
<1>3. MgIInv => NothingIsLost
  BY DEF MgIInv
<1> QED BY <1>1, <1>2, <1>3, PTL DEF Spec

=============================================================================
