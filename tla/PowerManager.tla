---------------------------- MODULE PowerManager ----------------------------
(***************************************************************************)
(* The power manager (power_manager.c) over the watchdogs, the thread of   *)
(* the software watchdog (pl_power_manager.c), the hours meter and its     *)
(* timer.  A call holds s_mutex from its first step to its last: another   *)
(* caller waits or gives up with kEsfPwrMgrErrorTimeout, which changes     *)
(* nothing.  `call` is where the call in progress has come to; the timer   *)
(* thread and the three watchdog threads run beside it.                    *)
(***************************************************************************)
EXTENDS Watchdog

CONSTANTS SwIds,     \* the ids of the software watchdog
          HoursMax,  \* INT32_MAX
          MaxRefused \* bound: parts that are refused at a time

VARIABLES status,    \* s_status
          call,      \* "idle", or the next step of the call with s_mutex
          aim,       \* the status after the call that takes all down
          storage,   \* s_resource.storage_handle is open
          timer,     \* s_resource.timer_handle is that of a timer
          refused,   \* the parts that would not be given back
          hours,     \* s_resource.hours_meter
          stored,    \* the item HoursMeter of the parameter storage
          ticking,   \* HoursMeterCallBack has counted and not yet saved
          old,       \* the hours meter of the migration data, or NoHours
          plpower,   \* s_is_initialized of pl_power_manager
          swthread,  \* PlPowerSwWdt: "none", "loop", "look" or "gone"
          enabled,   \* s_is_sw_wdt_enable
          late,      \* ids whose s_sw_wdt_last_keepalive_time is too old
          seen,      \* those that were late when the thread read the clock
          silent,    \* ids enabled, and silent, for as long as the timeout
          enabling,  \* the id whose time is written and its flag is not yet
          aborted,   \* the thread has run into its assert
          halfway    \* an initialisation failed and was not taken back

callVars == <<status, call, aim>>
handleVars == <<storage, refused>>
meterVars == <<timer, hours, stored, ticking, old>>
swVars == <<plpower, swthread, enabled, late, seen, silent, enabling, aborted>>
pwrVars == <<callVars, handleVars, halfway, meterVars, swVars>>

NoHours == -1
Running == {"Start", "Reboot", "Shutdown"}  \* neither Stop nor WaitWDTIgnition
Free == call = "idle" /\ enabling = {} /\ ~aborted
Step(from, to) == call = from /\ call' = to /\ enabling = {} /\ ~aborted
Refused(part) ==
  refused' = refused \cup {part} /\ Cardinality(refused') <= MaxRefused
Taken(part) == refused' = refused \ {part}

PwrInit ==
  /\ status = "Stop" /\ call = "idle" /\ aim = "Stop" /\ storage = FALSE /\ timer = FALSE
  /\ refused = {}
  /\ hours = 0 /\ stored = 0 /\ ticking = FALSE /\ old \in {NoHours, HoursMax}
  /\ plpower = FALSE /\ swthread = "none" /\ enabled = {}
  /\ late = SwIds /\ seen = {} /\ silent = {} /\ enabling = {}
  /\ aborted = FALSE /\ halfway = FALSE

(***************************************************************************)
(* EsfPwrMgrStart: the watchdogs, pl_power_manager, the storage and the    *)
(* hours meter in turn.  When one fails the call goes on with the labels   *)
(* hour_meter_err, storage_err, pl_power_mgr_err: the way down of Stop.    *)
(***************************************************************************)
Start ==
  /\ status = "Stop" /\ Step("idle", "wdtInit") /\ aim' = "Stop"
  /\ UNCHANGED <<status, handleVars, halfway, meterVars, swVars, wdtVars>>

InitWdt ==
  /\ \/ Step("wdtInit", "wdtRegister") /\ InitializeOk /\ UNCHANGED halfway
     \/ /\ Step("wdtInit", "idle") /\ InitializeFails
        /\ halfway' = (halfway \/ lib' \/ wopen' \/ low' # "none")
     \/ /\ \/ Step("wdtRegister", "wdtStart") /\ RegisterIrqHandler
           \/ Step("wdtRegister", "wdtStop") /\ UNCHANGED wdtVars
           \/ Step("wdtStart", "plInit") /\ StartOk
           \/ Step("wdtStart", "wdtStop") /\ StartFails
        /\ UNCHANGED halfway
  /\ UNCHANGED <<status, aim, handleVars, meterVars, swVars>>

(* PlPowerMgrInitialize: without its thread it returns Ok and is not       *)
(* initialised (err_code is left alone at line 88).  One that was not      *)
(* finalised is refused.                                                   *)
PlPowerMgrInitialize ==
  /\ \/ /\ plpower /\ Step("plInit", "wdtStop")
        /\ UNCHANGED <<plpower, swthread, enabled, late, seen, silent>>
     \/ /\ ~plpower
        /\ \/ Step("plInit", "storage") /\ plpower' = TRUE /\ swthread' = "loop"
           \/ Step("plInit", "storage") /\ UNCHANGED <<plpower, swthread>>
           \/ Step("plInit", "wdtStop") /\ UNCHANGED <<plpower, swthread>>
        /\ enabled' = {} /\ late' = SwIds /\ seen' = {} /\ silent' = {}
  /\ UNCHANGED <<status, aim, handleVars, halfway, enabling, aborted, meterVars, wdtVars>>

(* A handle that was refused is written over by the new one.               *)
InitStorage ==
  /\ \/ Step("storage", "meter") /\ storage' = TRUE /\ Taken("storage")
     \/ Step("storage", "plFinal") /\ UNCHANGED <<storage, refused>>
  /\ UNCHANGED <<status, aim, halfway, meterVars, swVars, wdtVars>>

(* UtilityTimerStop and UtilityTimerDelete, whatever the first one says.   *)
(* The second refuses a timer that runs, and waits for a callback that     *)
(* runs; a timer it does not delete keeps its handle, which a later start  *)
(* may write over: such a timer stays refused, and whether it goes on      *)
(* counting is left open.                                                  *)
DeleteTimer ==
  \/ ~timer /\ UNCHANGED <<timer, refused>>
  \/ timer /\ ~ticking /\ timer' = FALSE /\ UNCHANGED refused
  \/ timer /\ UNCHANGED timer /\ Refused("timer")

(* InitHoursMeter: a meter that cannot be loaded begins at 0.  Without     *)
(* UtilityTimerCreate the handle is the old one, and without               *)
(* UtilityTimerStart the new timer is to be deleted.                       *)
InitHoursMeter ==
  /\ hours' \in {stored, 0}
  /\ \/ Step("meter", "idle") /\ status' = "Start" /\ timer' = TRUE /\ UNCHANGED refused
     \/ Step("meter", "storageClose") /\ UNCHANGED status /\ DeleteTimer
     \/ /\ Step("meter", "storageClose") /\ UNCHANGED status
        /\ \/ timer' = FALSE /\ UNCHANGED refused
           \/ timer' = TRUE /\ Refused("timer")
  /\ UNCHANGED <<aim, storage, halfway, stored, ticking, old, swVars, wdtVars>>

(***************************************************************************)
(* EsfPwrMgrStop takes all down; EsfPwrMgrStopForReboot first ends the     *)
(* feeding and then leaves the watchdogs armed, to reset the device.       *)
(***************************************************************************)
Stop ==
  /\ status \in Running /\ Step("idle", "meterStop") /\ aim' = "Stop"
  /\ UNCHANGED <<status, handleVars, halfway, meterVars, swVars, wdtVars>>

StopForRebootFed ==  \* a mutant: an announced reboot is not left to the dogs
  /\ status \in Running /\ Step("idle", "meterStop") /\ aim' = "WaitWDTIgnition"
  /\ IF status = "Start" THEN Terminate ELSE UNCHANGED wdtVars
  /\ UNCHANGED <<status, handleVars, halfway, meterVars, swVars>>

StopForReboot ==
  /\ status \in Running /\ Step("idle", "meterStop") /\ aim' = "WaitWDTIgnition"
  /\ Terminate
  /\ UNCHANGED <<status, handleVars, halfway, meterVars, swVars>>

(* What a step answers is not looked at: the next one is taken whatever    *)
(* became of it.                                                           *)
DeinitHoursMeter ==
  /\ Step("meterStop", "storageClose") /\ DeleteTimer
  /\ UNCHANGED <<status, aim, storage, halfway, hours, stored, ticking, old,
                 swVars, wdtVars>>

DeinitStorage ==
  /\ Step("storageClose", "plFinal")
  /\ \/ storage' = FALSE /\ Taken("storage")
     \/ UNCHANGED storage /\ Refused("storage")
  /\ UNCHANGED <<status, aim, halfway, meterVars, swVars, wdtVars>>

(* PlPowerMgrFinalize joins its thread, if it was initialised; it stays    *)
(* initialised without it when PlPowerMgrFinalizeOsImpl fails.             *)
PlPowerMgrFinalize ==
  /\ plpower => swthread = "gone"
  /\ swthread' = "none"
  /\ \/ plpower' = FALSE /\ Taken("power")
     \/ plpower /\ UNCHANGED plpower /\ Refused("power")
  /\ \/ Step("plFinal", "wdtStop") /\ aim = "Stop" /\ UNCHANGED status
     \/ Step("plFinal", "idle") /\ aim # "Stop" /\ status' = aim
  /\ UNCHANGED <<aim, storage, halfway, enabled, late, seen, silent, enabling,
                 aborted, meterVars, wdtVars>>

DeinitWdtStopped ==  \* a mutant: a dog that does not stop ends the way down
  /\ \/ /\ \/ Step("wdtStop", "wdtUnregister") /\ StopWdt /\ wdt' = "Stop"
           \/ Step("wdtUnregister", "wdtFinal") /\ UnregisterIrqHandler
           \/ Step("wdtFinal", "wdtJoin") /\ FinalizeBegins
        /\ halfway' = (halfway \/ (lib /\ ~lib' /\ \E d \in Dogs : dog'[d] # "Close"))
        /\ UNCHANGED status
     \/ Step("wdtStop", "idle") /\ StopWdt /\ wdt' # "Stop" /\ status' = aim /\ UNCHANGED halfway
     \/ Step("wdtJoin", "idle") /\ FinalizeEnds /\ status' = aim /\ UNCHANGED halfway
  /\ UNCHANGED <<aim, handleVars, meterVars, swVars>>

DeinitWdt ==
  /\ \/ /\ \/ Step("wdtStop", "wdtUnregister") /\ StopWdt
           \/ Step("wdtUnregister", "wdtFinal") /\ UnregisterIrqHandler
           \/ Step("wdtFinal", "wdtJoin") /\ FinalizeBegins
        /\ halfway' = (halfway \/ (lib /\ ~lib' /\ \E d \in Dogs : dog'[d] # "Close"))
        /\ UNCHANGED status
     \/ Step("wdtJoin", "idle") /\ FinalizeEnds /\ status' = aim /\ UNCHANGED halfway
  /\ UNCHANGED <<aim, handleVars, meterVars, swVars>>

(***************************************************************************)
(* EsfPwrMgrPrepareReboot and EsfPwrMgrPrepareShutdown: the first one      *)
(* wins; Main is told, and when it cannot be told nothing changes.         *)
(* EsfPwrMgrExecuteReboot, or the watchdogs once nobody feeds them, starts *)
(* the device again: the parameter storage is what it keeps.               *)
(***************************************************************************)
Prepare ==
  /\ status = "Start" /\ Free /\ status' \in {"Reboot", "Shutdown"}
  /\ UNCHANGED <<call, aim, handleVars, halfway, meterVars, swVars, wdtVars>>

(* The feeding is ended without a way down; the call, which nothing in the *)
(* repository makes, waits for room with s_mutex.                          *)
EsfPwrMgrWdtTerminate ==
  /\ status \in Running /\ Free /\ Terminate
  /\ UNCHANGED pwrVars

KeepAlive ==
  /\ Free /\ WdtKeepAlive
  /\ UNCHANGED pwrVars

ExecuteReboot ==
  /\ Free /\ status # "Start"
  /\ status' = "Stop" /\ call' = "idle" /\ aim' = "Stop" /\ storage' = FALSE
  /\ refused' = {} /\ timer' = FALSE /\ hours' = 0 /\ ticking' = FALSE
  /\ plpower' = FALSE /\ swthread' = "none" /\ enabled' = {}
  /\ late' = SwIds /\ seen' = {} /\ silent' = {} /\ enabling' = {}
  /\ halfway' = FALSE /\ UNCHANGED <<stored, old, aborted>>
  /\ wdt' = "Ready" /\ wexit' = FALSE /\ wqueue' = <<>> /\ wopen' = FALSE
  /\ lib' = FALSE /\ dog' = AllDogs("Close") /\ irq' = FALSE
  /\ low' = "none" /\ high' = "none" /\ timeover' = {}

(***************************************************************************)
(* The hours meter.  The callback counts and saves on the timer thread,    *)
(* without s_mutex; EsfPwrMgrExecMigration does not take it either.  Main  *)
(* migrates right after the start, an hour before the first callback.  Two *)
(* timers that both run do not call back at once.                          *)
(***************************************************************************)
CountHour ==
  /\ timer \/ "timer" \in refused
  /\ ~ticking /\ ~aborted
  /\ ticking' = TRUE /\ hours' = IF hours < HoursMax THEN hours + 1 ELSE 0
  /\ UNCHANGED <<callVars, handleVars, halfway, timer, stored, old, swVars, wdtVars>>

SaveHour ==
  /\ ticking /\ ~aborted
  /\ ticking' = FALSE /\ stored' \in {hours, stored}
  /\ UNCHANGED <<callVars, handleVars, halfway, timer, hours, old, swVars, wdtVars>>

(* MigrateHoursMeter: the meter is taken over even when it cannot be       *)
(* saved; the old data is erased only when it was.                         *)
ExecMigration ==
  /\ status = "Start" /\ Free /\ ~ticking /\ old # NoHours
  /\ hours' = old
  /\ \/ stored' = old /\ old' = NoHours
     \/ UNCHANGED <<stored, old>>
  /\ UNCHANGED <<callVars, handleVars, halfway, timer, ticking, swVars, wdtVars>>

EnableTimeLate(id) ==  \* a mutant: the time of an earlier run is kept
  /\ status \in Running /\ Free
  /\ enabling' = {id} /\ UNCHANGED <<late, seen>>
  /\ silent' = silent \ {id}
  /\ UNCHANGED <<callVars, handleVars, halfway, meterVars, plpower, swthread,
                 enabled, aborted, wdtVars>>

(***************************************************************************)
(* The software watchdog.  Enabling writes the time first and the flag     *)
(* after it, under a mutex that the thread does not take.  Timeout is the  *)
(* passing of CONFIG_EXTERNAL_POWER_MANAGER_SW_WDT_TIMEOUT_SEC.            *)
(***************************************************************************)
EnableTime(id) ==
  /\ status \in Running /\ Free
  /\ enabling' = {id} /\ late' = late \ {id} /\ seen' = seen \ {id}
  /\ silent' = silent \ {id}
  /\ UNCHANGED <<callVars, handleVars, halfway, meterVars, plpower, swthread,
                 enabled, aborted, wdtVars>>

EnableFlag(id) ==
  /\ enabling = {id} /\ ~aborted
  /\ enabling' = {} /\ enabled' = enabled \cup {id}
  /\ UNCHANGED <<callVars, handleVars, halfway, meterVars, plpower, swthread,
                 late, seen, silent, aborted, wdtVars>>

DisableSwWdt(id) ==
  /\ status \in Running /\ Free
  /\ enabled' = enabled \ {id} /\ silent' = silent \ {id}
  /\ UNCHANGED <<callVars, handleVars, halfway, meterVars, plpower, swthread,
                 late, seen, enabling, aborted, wdtVars>>

SwWdtKeepalive(id) ==
  /\ status \in Running /\ Free /\ id \in enabled
  /\ late' = late \ {id} /\ seen' = seen \ {id} /\ silent' = silent \ {id}
  /\ UNCHANGED <<callVars, handleVars, halfway, meterVars, plpower, swthread,
                 enabled, enabling, aborted, wdtVars>>

Timeout ==
  /\ late # SwIds /\ enabling = {} /\ ~aborted
  /\ late' = SwIds /\ silent' = enabled
  /\ UNCHANGED <<callVars, handleVars, halfway, meterVars, plpower, swthread,
                 enabled, seen, enabling, aborted, wdtVars>>

(* PlPowerSwWdt: the clock is read once for all ids; the assert ends the   *)
(* process.                                                                *)
SwWdtClock ==
  /\ swthread = "loop" /\ ~aborted
  /\ IF call = "plFinal" THEN swthread' = "gone" /\ UNCHANGED seen
                         ELSE swthread' = "look" /\ seen' = late
  /\ UNCHANGED <<callVars, handleVars, halfway, meterVars, plpower, enabled, late,
                 silent, enabling, aborted, wdtVars>>

SwWdtLook ==
  /\ swthread = "look" /\ ~aborted /\ swthread' = "loop"
  /\ aborted' = (enabled \cap seen # {})
  /\ seen' = {}
  /\ UNCHANGED <<callVars, handleVars, halfway, meterVars, plpower, enabled, late,
                 silent, enabling, wdtVars>>

Enabling == \E id \in SwIds : EnableFlag(id)
SwCalls ==
  \E id \in SwIds : EnableTime(id) \/ DisableSwWdt(id) \/ SwWdtKeepalive(id)
SwThread == SwWdtClock \/ SwWdtLook
Threads ==
  \/ LowThread /\ ~aborted /\ UNCHANGED pwrVars
  \/ HighThread /\ ~aborted /\ UNCHANGED pwrVars
Calls == Start \/ Stop \/ StopForReboot \/ Prepare \/ KeepAlive
         \/ EsfPwrMgrWdtTerminate \/ ExecuteReboot
CallGoesOn ==
  InitWdt \/ PlPowerMgrInitialize \/ InitStorage \/ InitHoursMeter
  \/ DeinitHoursMeter \/ DeinitStorage \/ PlPowerMgrFinalize \/ DeinitWdt

Init == PwrInit /\ WdtInit
Next ==
  \/ Calls \/ CallGoesOn \/ CountHour \/ SaveHour \/ ExecMigration
  \/ Enabling \/ SwCalls \/ Timeout \/ SwThread \/ Threads
vars == <<pwrVars, wdtVars>>

(* The threads run, and a call goes on.                                    *)
WatchdogFeeds == HighThread /\ UNCHANGED pwrVars

Spec ==
  /\ Init /\ [][Next]_vars
  /\ WF_vars(WatchdogFeeds)

(***************************************************************************)
(* Properties                                                              *)
(***************************************************************************)

(* A power manager that is stopped holds nothing but the handles that the  *)
(* timer and the storage themselves would not take back: a failed          *)
(* EsfPwrMgrStart takes down what it built in the right order, and neither *)
(* way down ends early when a handle is refused or a watchdog cannot be    *)
(* stopped.  Initialisations that failed halfway are excepted, and counted *)
(* by `halfway`.                                                           *)
StoppedHoldsNothing ==
  (status = "Stop" /\ Free /\ ~halfway) =>
    /\ storage => "storage" \in refused
    /\ timer => "timer" \in refused
    /\ swthread = "none"
    /\ wdt = "Ready" /\ ~lib /\ ~wopen /\ low = "none" /\ high = "none"
    /\ \A d \in Dogs : dog[d] = "Close"

(* A power manager that waits to be reset, or is on its way there, has its *)
(* dogs armed and the end of their feeding announced, and nothing takes    *)
(* either back.                                                            *)
WaitingIsArmed ==
  status = "WaitWDTIgnition" \/ (call # "idle" /\ aim = "WaitWDTIgnition") =>
    wdt = "Start" /\ wexit /\ \A d \in Dogs : dog[d] = "Start"

(* What s_status says of the rest is so: Stop that nothing is held, and    *)
(* WaitWDTIgnition that only the dogs, no longer fed, are still to come.   *)
StatusIsTrue == StoppedHoldsNothing /\ WaitingIsArmed

(* The software watchdog ends the process only for an id that was enabled  *)
(* and gave no keepalive for as long as the timeout, however the thread    *)
(* and the caller that enables it interleave.                              *)
AbortIsDeserved == [][aborted' /\ ~aborted => enabled \cap silent # {}]_vars

(* Once EsfPwrMgrStopForReboot has returned, the thread that feeds the     *)
(* dogs ends, so that they do reset the device (or it was reset before).   *)
FeedingEnds == status = "WaitWDTIgnition" ~> (high = "gone" \/ status = "Stop" \/ aborted)

=============================================================================
