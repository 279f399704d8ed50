-------------------------------- MODULE Main --------------------------------
(***************************************************************************)
(* The main process of the device (esf/main): the boot that brings every   *)
(* component up, the migration of the data of an older firmware, the loop  *)
(* that waits for a request to reboot, to shut down or to reset the        *)
(* device, and the three ways in which the components are taken down.      *)
(*                                                                         *)
(* A component is its name in up.  Requests come from other threads        *)
(* through EsfMainNotifyMsg, which holds state_mutex while it sends.  What *)
(* a power failure leaves is in migrated, flagDone, sourceGone and         *)
(* slot.                                                                   *)
(***************************************************************************)
EXTENDS Naturals, Sequences, FiniteSets

CONSTANTS Callers,       \* threads that call EsfMainNotifyMsg
          Supported,     \* kFeatureTypes: the requests this device supports
          MainQueue,     \* messages the queue holds (32)
          Refusing,      \* bound: the components that may refuse to be taken down
          MaxBoots       \* bound: how often the device is started

VARIABLES mpc,           \* where the main thread is
          boot,          \* the components the boot has still to bring up
          up,            \* the components that are up
          stuck,         \* those of them that refused to be taken down
          is_initialized,
          mutex,         \* holder of state_mutex
          messages,      \* the message queue
          sending,       \* what each caller is sending
          request,       \* the message being processed
          failed,        \* is_failed of a factory reset
          gaveUp,        \* state_mutex was not obtained in time
          tries,         \* attempts of the migration
          migrated,      \* the parts whose data was migrated
          flagDone,      \* the saved migration_done
          sourceGone,    \* the data of the older firmware was erased
          slot,          \* which firmware slot the next boot uses
          boots
vars == <<mpc, boot, up, stuck, is_initialized, mutex, messages, sending, request,
          failed, gaveUp, tries, migrated, flagDone, sourceGone, slot, boots>>

mainVars == <<is_initialized, mutex, messages, sending, request, failed, gaveUp>>
savedVars == <<tries, migrated, flagDone, sourceGone, slot>>

Requests == {"reboot", "shutdown", "reset", "downgrade"}
Parts == {"main", "power", "network", "clock", "system"}

EarlyBoot == <<"Msg", "Timer", "LogManager", "UtilityLog", "I2c", "Driver",
               "Ioexp", "Memory", "Psm", "Led", "Power">>
LateBoot == <<"Network", "Clock", "FwMgr", "Sensor">>

\* What is kept until the LED has shown the end of a factory reset.
LedStays == {"Led", "Ioexp", "Driver", "I2c", "UtilityLog", "Timer", "Msg"}
\* What EsfMainHwReboot takes down: it is called before Network is up.
HwRebootTakes == LedStays \cup {"Power", "Psm", "Memory", "LogManager"}
MigrationRetryMax == 3

\* Mutant of TakeDown: one that cannot be taken down ends the way down.
TakeDownEnds(S) ==
    \E stays \in SUBSET (Refusing \cap S \cap up) :
        up' = (IF stays = {} THEN up \ S ELSE up) /\ stuck' = stuck \cup stays

\* The components of S are taken down one after the other.  What one answers is
\* logged and no more: it stays up, and the next one is taken down.
TakeDown(S) ==
    \E stays \in SUBSET (Refusing \cap S \cap up) :
        up' = up \ (S \ stays) /\ stuck' = stuck \cup stays

Init == /\ mpc = "boot" /\ boot = EarlyBoot /\ up = {} /\ stuck = {}
        /\ is_initialized = FALSE /\ mutex = "main"
        /\ messages = <<>> /\ sending = [c \in Callers |-> "none"]
        /\ request = "none" /\ failed = FALSE /\ gaveUp = FALSE
        /\ tries = 0 /\ migrated = {} /\ flagDone = FALSE /\ sourceGone = FALSE
        /\ slot = "current" /\ boots = 1

----------------------------------------------------------------------------
(* EsfMainBoot, which holds state_mutex from its first step to its last.   *)

\* One component is brought up; where the list ends the boot goes on to
\* the exception information, to the migration or to the message queue.
BringUp ==
    /\ mpc = "boot"
    /\ up' = up \cup {Head(boot)} /\ boot' = Tail(boot)
    /\ mpc' = IF Tail(boot) # <<>> THEN "boot"
              ELSE CASE Head(boot) = "Power" -> "exception"
                     [] Head(boot) = "Sensor" -> "migration"
                     [] Head(boot) = "SystemApp" -> "open"
    /\ UNCHANGED <<stuck, mainVars, savedVars, boots>>

\* A component cannot be brought up: the boot ends there, what is up stays
\* up.  Only the sensor may fail without ending the boot.
Optional == {"Sensor"}

BringUpFails ==
    /\ mpc = "boot"
    /\ IF Head(boot) \in Optional
       THEN mpc' = "migration" /\ boot' = <<>> /\ UNCHANGED mutex
       ELSE mpc' = "failed" /\ mutex' = "none" /\ UNCHANGED boot
    /\ UNCHANGED <<up, stuck, is_initialized, messages, sending, request, failed, gaveUp,
                   savedVars, boots>>

\* main: the LED shows that the boot failed, and the process sleeps for ever;
\* without the LED it ends.
BootFailed ==
    /\ mpc = "failed"
    /\ mpc' = IF "Led" \in up THEN "asleep" ELSE "ended"
    /\ UNCHANGED <<boot, up, stuck, mainVars, savedVars, boots>>

\* An exception the previous run left may call for a reboot, which takes the
\* components down that are up and does not come back.
ExceptionInfo ==
    /\ mpc = "exception"
    /\ mpc' = "boot" /\ boot' = LateBoot
    /\ UNCHANGED <<up, stuck, mainVars, savedVars, boots>>

EsfMainHwReboot ==
    /\ mpc = "exception"
    /\ TakeDown(HwRebootTakes)
    /\ mpc' = "off"
    /\ UNCHANGED <<boot, mainVars, savedVars, boots>>

----------------------------------------------------------------------------
(* The migration.                                                          *)

\* EsfMainIsNeedMigration: not needed too when the flag cannot be loaded.
IsNeedMigration ==
    /\ mpc = "migration"
    /\ \/ flagDone = FALSE /\ mpc' = "migrating" /\ tries' = 0 /\ UNCHANGED boot
       \/ mpc' = "boot" /\ boot' = <<"SystemApp">> /\ UNCHANGED tries
    /\ UNCHANGED <<up, stuck, mainVars, migrated, flagDone, sourceGone, slot, boots>>

\* Mutant of ExecMigration: the result of the last part is taken for all.
ExecMigrationLastWins ==
    /\ mpc = "migrating" /\ tries < MigrationRetryMax
    /\ tries' = tries + 1
    /\ \E done \in SUBSET Parts :
          /\ sourceGone => done = {}
          /\ migrated' = migrated \cup done
          /\ mpc' = IF "system" \in done THEN "migrated" ELSE "migrating"
    /\ UNCHANGED <<boot, up, stuck, mainVars, flagDone, sourceGone, slot, boots>>

\* EsfMainExecMigration: every part is attempted, whatever became of the
\* others, and one that fails makes the whole attempt fail.  A part that was
\* migrated before is migrated again.  Nothing can be read from a source that
\* was erased.
ExecMigration ==
    /\ mpc = "migrating" /\ tries < MigrationRetryMax
    /\ tries' = tries + 1
    /\ \E done \in SUBSET Parts :
          /\ sourceGone => done = {}
          /\ migrated' = migrated \cup done
          /\ mpc' = IF done = Parts THEN "migrated" ELSE "migrating"
    /\ UNCHANGED <<boot, up, stuck, mainVars, flagDone, sourceGone, slot, boots>>

\* The attempts are used up: the boot goes on without the data.
GiveUpMigration ==
    /\ mpc = "migrating" /\ tries = MigrationRetryMax
    /\ mpc' = "boot" /\ boot' = <<"SystemApp">>
    /\ UNCHANGED <<up, stuck, mainVars, savedVars, boots>>

\* EsfMainDisableMigrationFlag, whose result is not looked at.
DisableMigrationFlag ==
    /\ mpc = "migrated"
    /\ flagDone' \in {flagDone, TRUE}
    /\ mpc' = "erase"
    /\ UNCHANGED <<boot, up, stuck, mainVars, tries, migrated, sourceGone, slot, boots>>

EraseMigrationSrcData ==
    /\ mpc = "erase"
    /\ sourceGone' = TRUE
    /\ mpc' = "boot" /\ boot' = <<"SystemApp">>
    /\ UNCHANGED <<up, stuck, mainVars, tries, migrated, flagDone, slot, boots>>

\* The message queue is opened and its buffer allocated.
OpenMessages ==
    /\ mpc = "open"
    /\ \/ is_initialized' = TRUE /\ mpc' = "loop"
       \/ is_initialized' = FALSE /\ mpc' = "failed"
    /\ mutex' = "none" /\ messages' = <<>>
    /\ UNCHANGED <<boot, up, stuck, sending, request, failed, gaveUp, savedVars, boots>>

----------------------------------------------------------------------------
(* EsfMainNotifyMsg, by another thread.                                    *)

\* Refused at once when the device does not support it, and when
\* state_mutex is not obtained in time.
IsFeatureSupported(r) == r \in Supported

NotifyMsg(c, r) ==
    /\ sending[c] = "none" /\ mutex = "none"
    /\ IsFeatureSupported(r) /\ is_initialized
    /\ mpc \notin {"off", "ended", "asleep"}
    /\ mutex' = c /\ sending' = [sending EXCEPT ![c] = r]
    /\ UNCHANGED <<mpc, boot, up, stuck, is_initialized, messages, request, failed,
                   gaveUp, savedVars, boots>>

\* UtilityMsgSend waits while the queue is full, with state_mutex held.
Sent(c) ==
    /\ sending[c] # "none" /\ Len(messages) < MainQueue
    /\ mpc \notin {"off", "ended", "asleep"}
    /\ messages' = Append(messages, sending[c])
    /\ mutex' = "none" /\ sending' = [sending EXCEPT ![c] = "none"]
    /\ UNCHANGED <<mpc, boot, up, stuck, is_initialized, request, failed, gaveUp,
                   savedVars, boots>>

----------------------------------------------------------------------------
(* EsfMainProcessMsg and the main thread behind it.                        *)

Receive ==
    /\ mpc = "loop" /\ messages # <<>>
    /\ request' = Head(messages) /\ messages' = Tail(messages)
    /\ mpc' = IF Head(messages) \in {"reboot", "shutdown"} THEN "finish" ELSE "reset"
    /\ failed' = FALSE
    /\ UNCHANGED <<boot, up, stuck, is_initialized, mutex, sending, gaveUp, savedVars, boots>>

\* A signal asks the process to end.
Signalled ==
    /\ mpc = "loop"
    /\ request' = "end" /\ mpc' = "finish"
    /\ UNCHANGED <<boot, up, stuck, is_initialized, mutex, messages, sending, failed,
                   gaveUp, savedVars, boots>>

\* EsfMainProcessFactoryReset up to EsfMainFinish: the files of the sensor,
\* the reset of the parameter storage and, for a downgrade, the return of
\* both to an older layout; what fails is remembered and the rest is done.
FactoryReset ==
    /\ mpc = "reset"
    /\ failed' \in BOOLEAN
    /\ mpc' = "finish"
    /\ UNCHANGED <<boot, up, stuck, is_initialized, mutex, messages, sending, request,
                   gaveUp, savedVars, boots>>

FinishTakes == {"SystemApp", "FwMgr", "Clock", "Network", "Power", "Psm",
                "Memory", "LogManager", "Sensor"}
FinishLed == request \notin {"reset", "downgrade"}

\* EsfMainFinish(finish_led): the components are taken down in the reverse
\* order, under state_mutex; one that cannot be taken down is logged.
Finish ==
    /\ mpc = "finish" /\ mutex = "none"
    /\ TakeDown(FinishTakes \cup IF FinishLed THEN LedStays ELSE {})
    /\ is_initialized' = FALSE
    /\ mpc' = IF request = "end" THEN "ended"
              ELSE IF FinishLed THEN "off" ELSE "format"
    /\ UNCHANGED <<boot, mutex, messages, sending, request, failed, gaveUp,
                   savedVars, boots>>

\* Mutant of FinishTimesOut: the wait for state_mutex has no end.
FinishWaits == FALSE /\ UNCHANGED vars

\* EsfMainFinish cannot get state_mutex in time: a caller of NotifyMsg holds
\* it and waits for room in the queue that only this thread empties.  The
\* error is logged, and what follows is done with every component up.
FinishTimesOut ==
    /\ mpc = "finish" /\ mutex \in Callers /\ Len(messages) = MainQueue
    /\ gaveUp' = TRUE
    /\ mpc' = IF request = "end" THEN "ended"
              ELSE IF FinishLed THEN "off" ELSE "format"
    /\ UNCHANGED <<boot, up, stuck, is_initialized, mutex, messages, sending, request,
                   failed, savedVars, boots>>

\* The flash and the eMMC are formatted, and after a downgrade in which
\* nothing failed the other firmware slot is selected.
FormatAndSwitch ==
    /\ mpc = "format"
    /\ slot' = IF request = "downgrade" /\ ~failed THEN "other" ELSE slot
    /\ mpc' = "finishled"
    /\ UNCHANGED <<boot, up, stuck, mainVars, tries, migrated, flagDone, sourceGone, boots>>

\* Mutant of FinishTheLed: it asks for is_initialized as EsfMainFinish does.
FinishTheLedChecks ==
    /\ mpc = "finishled" /\ mutex = "none"
    /\ IF is_initialized THEN TakeDown(LedStays) ELSE UNCHANGED <<up, stuck>>
    /\ mpc' = "off"
    /\ UNCHANGED <<boot, mainVars, savedVars, boots>>

\* EsfMainFinishLed, which does not look at is_initialized.
FinishTheLed ==
    /\ mpc = "finishled" /\ mutex = "none"
    /\ TakeDown(LedStays)
    /\ mpc' = "off"
    /\ UNCHANGED <<boot, mainVars, savedVars, boots>>

FinishLedTimesOut ==
    /\ mpc = "finishled" /\ mutex \in Callers /\ Len(messages) = MainQueue
    /\ gaveUp' = TRUE /\ mpc' = "off"
    /\ UNCHANGED <<boot, up, stuck, is_initialized, mutex, messages, sending, request,
                   failed, savedVars, boots>>

----------------------------------------------------------------------------
(* The device is switched off, at any time, and starts again.              *)

PowerFails ==
    /\ mpc \notin {"off", "ended"} /\ boots < MaxBoots
    /\ mpc' = "off"
    /\ gaveUp' = TRUE
    /\ UNCHANGED <<boot, up, stuck, is_initialized, mutex, messages, sending, request,
                   failed, savedVars, boots>>

StartsAgain ==
    /\ mpc = "off" /\ boots < MaxBoots
    /\ boots' = boots + 1
    /\ mpc' = "boot" /\ boot' = EarlyBoot /\ up' = {} /\ stuck' = {}
    /\ is_initialized' = FALSE /\ mutex' = "main"
    /\ messages' = <<>> /\ sending' = [c \in Callers |-> "none"]
    /\ request' = "none" /\ failed' = FALSE /\ gaveUp' = FALSE
    /\ UNCHANGED savedVars

----------------------------------------------------------------------------

MainThread ==
    \/ BringUp \/ BringUpFails \/ BootFailed \/ ExceptionInfo
    \/ EsfMainHwReboot \/ IsNeedMigration \/ ExecMigration \/ GiveUpMigration
    \/ DisableMigrationFlag \/ EraseMigrationSrcData \/ OpenMessages
    \/ Receive \/ FactoryReset \/ Finish \/ FinishTimesOut
    \/ FormatAndSwitch \/ FinishTheLed \/ FinishLedTimesOut

Next == \/ MainThread
        \/ Signalled
        \/ \E c \in Callers : \/ \E r \in Requests : NotifyMsg(c, r)
                              \/ Sent(c)
        \/ PowerFails
        \/ StartsAgain

\* The main thread goes on, and so does a send that finds room in the queue.
Spec == /\ Init /\ [][Next]_vars
        /\ WF_vars(MainThread)
        /\ WF_vars(\E c \in Callers : Sent(c))

----------------------------------------------------------------------------

\* The data of the older firmware is erased only when every part of the
\* system has taken its share of it over, over all attempts of a migration
\* and all failures of the power between two of its steps
\* (main_migration.c EsfMainExecMigration, EsfMainEraseMigrationSrcData).
SourceOutlivesMigration == sourceGone => migrated = Parts

\* When the device goes off, only a component that itself refused to go down
\* is still up, whichever of the three ways down was taken: a reboot or
\* shutdown, the two stages of a factory reset, and the reboot from within a
\* boot; the refusal of one leaves no other up.  Two cases are excepted: the
\* power failed, and state_mutex was not obtained because the queue was full
\* (main.c EsfMainFinish, EsfMainFinishLed, EsfMainHwReboot).
OffMeansDown == mpc = "off" => up \subseteq stuck \/ gaveUp

\* A request that was queued takes the device down, unless its power fails
\* (main.c EsfMainProcessMsg).
RequestsEndTheRun == messages # <<>> ~> mpc \in {"off", "ended"}

\* What that rests on in every state: a request is in the queue, or on its way
\* there, only while the main thread still looks at the queue or is on its way
\* down; the queue holds no more than it may; and a way down that wants
\* state_mutex finds it free, or held by a sender that finds room, or the queue
\* full, where its wait ends by its time (main.c EsfMainNotifyMsg,
\* EsfMainFinish, EsfMainFinishLed).
Attending == {"loop", "finish", "reset", "format", "finishled", "off", "ended"}

RequestsAreHeard ==
    /\ messages # <<>> => mpc \in Attending
    /\ \A c \in Callers : sending[c] # "none" => mutex = c /\ mpc \in Attending
    /\ Len(messages) <= MainQueue
    /\ mpc \in {"finish", "finishled"} =>
          \/ mutex = "none"
          \/ \E c \in Callers : sending[c] # "none" /\ Len(messages) < MainQueue
          \/ mutex \in Callers /\ Len(messages) = MainQueue

\* Whatever fails, a part goes only when it may: the source of a migration
\* after its copies, and every part before the device (main.c).
PartsGoInOrder == SourceOutlivesMigration /\ OffMeansDown

=============================================================================
