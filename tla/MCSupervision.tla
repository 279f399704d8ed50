---------------------------- MODULE MCSupervision ----------------------------
(***************************************************************************)
(* The power, LED, main and system managers in one run.  They share no     *)
(* variable, so their interleavings say nothing new: each behaviour is one *)
(* of the part in focus, and the run explores the sum of their state       *)
(* spaces.                                                                 *)
(***************************************************************************)
EXTENDS Integers, Sequences, FiniteSets

CONSTANTS
  Dogs, WdtQueue, SwIds, HoursMax, MaxRefused, Leds, MaxHwFails, Callers, Supported,
  MainQueue, Refusing, MaxBoots, SmCallers, MaxText, HwInfoKinds, MaxSmFails,
  RebootCauses, MaxResets, MaxResetFails, MaxMgFails

ASSUME SupervisionAssumption == IsFiniteSet(SmCallers) /\ MaxText \in Nat
ASSUME MainAssumption == MainQueue \in Nat /\ "none" \notin Callers /\ "main" \notin Callers

VARIABLES
  focus,
  wdt, wexit, wqueue, wopen, lib, dog, irq, low, high, timeover, status,
  call, aim, storage, refused, timer, hours, stored, ticking, old, plpower,
  swthread, enabled, late, seen, silent, enabling, aborted, halfway,
  manager, statuses, running, keep, task, sure, driver, ledState, seq,
  seqNo, waiting, light, tick, hwFails,
  mpc, boot, up, stuck, is_initialized, mutex, messages, sending, request, failed,
  gaveUp, tries, migrated, flagDone, sourceGone, slot, boots,
  subject, item, at, ask, answer, opened, leftOpen, smFails,
  bootStep, pmCause, retained, cause, evpCause, exception, isException,
  told, unheard, uploaded, hurt, resets, resetFails,
  source, had, kept, step, migrationDone, mgFails

Power == INSTANCE PowerManager
Led == INSTANCE LedManager
Main == INSTANCE Main
System == INSTANCE SystemManager
Reset == INSTANCE SystemReset WITH boot <- bootStep
Migration == INSTANCE SystemMigration WITH migrated <- migrationDone

powerVars ==
  <<wdt, wexit, wqueue, wopen, lib, dog, irq, low, high, timeover, status,
    call, aim, storage, refused, timer, hours, stored, ticking, old, plpower,
    swthread, enabled, late, seen, silent, enabling, aborted, halfway>>
ledVars ==
  <<manager, statuses, running, keep, task, sure, driver, ledState, seq,
    seqNo, waiting, light, tick, hwFails>>
mainVars ==
  <<mpc, boot, up, stuck, is_initialized, mutex, messages, sending, request,
    failed, gaveUp, tries, migrated, flagDone, sourceGone, slot, boots>>
systemVars ==
  <<subject, item, at, ask, answer, opened, leftOpen, smFails>>
resetVars ==
  <<bootStep, pmCause, retained, cause, evpCause, exception, isException,
    told, unheard, uploaded, hurt, resets, resetFails>>
migrationVars ==
  <<source, had, kept, step, migrationDone, mgFails>>
vars == <<focus, powerVars, ledVars, mainVars, systemVars, resetVars, migrationVars>>

Init ==
  /\ focus \in {"power", "led", "main", "system", "reset", "migration"}
  /\ Power!Init
  /\ Led!Init
  /\ Main!Init
  /\ System!SmInit
  /\ Reset!RsInit
  /\ Migration!MgInit
  \* a choice of Init that only the part in focus has to make
  /\ focus # "power" => old = -1
  /\ focus # "system" => subject = "DpsURL" /\ item = [i \in System!Items |-> 0]
  /\ focus # "migration" => had = [k \in Migration!KindSet |-> "none"]

Only(part) == focus = part /\ UNCHANGED focus
InPower == Only("power") /\ UNCHANGED <<ledVars, mainVars, systemVars, resetVars, migrationVars>>
InLed == Only("led") /\ UNCHANGED <<powerVars, mainVars, systemVars, resetVars, migrationVars>>
InMain == Only("main") /\ UNCHANGED <<powerVars, ledVars, systemVars, resetVars, migrationVars>>
InSystem == Only("system") /\ UNCHANGED <<powerVars, ledVars, mainVars, resetVars, migrationVars>>
InReset == Only("reset") /\ UNCHANGED <<powerVars, ledVars, mainVars, systemVars, migrationVars>>
InMigration == Only("migration") /\ UNCHANGED <<powerVars, ledVars, mainVars, systemVars, resetVars>>

Next ==
  \/ InPower /\ Power!Next
  \/ InLed /\ Led!Next
  \/ InMain /\ Main!Next
  \/ InSystem /\ System!SmNext
  \/ InReset /\ Reset!RsNext
  \/ InMigration /\ Migration!MgNext

Spec ==
  /\ Init /\ [][Next]_vars
  /\ WF_powerVars(focus = "power" /\ Power!WatchdogFeeds)
  /\ WF_mainVars(focus = "main" /\ Main!MainThread)
  /\ WF_mainVars(focus = "main" /\ \E c \in Callers : Main!Sent(c))

(* A stopped power manager holds only what was refused (power_manager.c). *)
StoppedHoldsNothing == Power!StoppedHoldsNothing

(* And one that waits for its reset has left it to the dogs. *)
StatusIsTrue == Power!StatusIsTrue

(* Only a silent id ends the process (pl_power_mgr_impl_sw_wdt.c). *)
AbortIsDeserved == Power!AbortIsDeserved

(* The dogs are not fed after StopForReboot (pl_wdt.c). *)
FeedingEnds == Power!FeedingEnds

(* A LED plays its first enabled status (led_manager.c). *)
LedPlaysItsStatus == Led!LedPlaysItsStatus

(* What was migrated or brought up goes in its order (main.c). *)
PartsGoInOrder == Main!PartsGoInOrder

(* A queued request takes the device down (main.c). *)
RequestsEndTheRun == Main!RequestsEndTheRun

(* A call gives what fits and closes its handle (system_manager.c). *)
CallsEndClean == System!CallsEndClean

(* Nothing is cleared that was not offered first (system_manager.c). *)
NothingIsForgotten == Reset!NothingIsForgotten

(* Data of the older firmware survives (system_manager.c). *)
NothingIsLost == Migration!NothingIsLost

=============================================================================
